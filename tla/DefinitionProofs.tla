--------------------------- MODULE DefinitionProofs ---------------------------
(***************************************************************************)
(* Theorems about what Parser builds: the register of classes, the scopes, *)
(* the fields and the syntax trees of a definition, for every choice of    *)
(* the constants.  They rest on Inv of ParserProofs.                       *)
(***************************************************************************)
EXTENDS ParserProofs

-----------------------------------------------------------------------------
(* What the operators of Objects change, and what they leave *)

SameFunctions(new, cls) == new.functions = cls.functions
SameFields(new, cls) == new.fields = cls.fields
SameKind(new, cls) == new.mods = cls.mods /\ new.type = cls.type

(* The functions of cls, followed by one that is new. *)
OneMoreFunction(new, cls, mods) ==
  /\ Len(new.functions) = Len(cls.functions) + 1
  /\ \A i \in 1 .. Len(cls.functions) : new.functions[i] = cls.functions[i]
  /\ new.functions[Len(cls.functions) + 1].ast = <<>>
  /\ new.functions[Len(cls.functions) + 1].scope = Nil
  /\ new.functions[Len(cls.functions) + 1].mods = mods

LEMMA DeclareEffect ==
  ASSUME NEW R, NEW S, NEW cls \in ClassOf(R, S), NEW name, NEW ret, NEW priv
  PROVE  /\ SameFields(DefineFunction(cls, name, ret, priv), cls)
         /\ SameKind(DefineFunction(cls, name, ret, priv), cls)
         /\ OneMoreFunction(DefineFunction(cls, name, ret, priv), cls, Privacy(priv))
         /\ SameFields(DefineStaticFunction(cls, name, ret, priv), cls)
         /\ SameKind(DefineStaticFunction(cls, name, ret, priv), cls)
         /\ OneMoreFunction(DefineStaticFunction(cls, name, ret, priv), cls,
                            Privacy(priv) \cup {"static"})
<1>1. cls.functions \in Seq(FunctionOf(R, S)) /\ Len(cls.functions) \in Nat
  BY DEF ClassOf
<1>2. ASSUME NEW mods
      PROVE  LET new == [cls EXCEPT !.functions = Append(@, NewFunction(name, mods, ret))]
             IN  SameFields(new, cls) /\ SameKind(new, cls) /\ OneMoreFunction(new, cls, mods)
  <2>. DEFINE func == NewFunction(name, mods, ret)
              funcs == Append(cls.functions, func)
              new == [cls EXCEPT !.functions = funcs]
  <2>1. func.ast = <<>> /\ func.scope = Nil /\ func.mods = mods
    BY DEF NewFunction
  <2>. HIDE DEF func
  <2>2. /\ Len(funcs) = Len(cls.functions) + 1
        /\ \A i \in 1 .. Len(cls.functions) : funcs[i] = cls.functions[i]
        /\ funcs[Len(cls.functions) + 1] = func
    BY <1>1
  <2>. HIDE DEF funcs
  <2>3. new.functions = funcs /\ new.fields = cls.fields /\ new.mods = cls.mods
        /\ new.type = cls.type
    BY DEF ClassOf
  <2>. HIDE DEF new
  <2>4. SameFields(new, cls) /\ SameKind(new, cls) /\ OneMoreFunction(new, cls, mods)
    BY <2>1, <2>2, <2>3 DEF SameFields, SameKind, OneMoreFunction
  <2>. QED
    BY <2>4 DEF new, funcs, func
<1>. QED
  BY <1>2 DEF DefineFunction, DefineStaticFunction

(* The last function of cls, but for its scope, and the others. *)
LastScoped(new, cls, s) ==
  /\ Len(new.functions) = Len(cls.functions)
  /\ \A i \in 1 .. Len(cls.functions) :
       /\ new.functions[i].ast = cls.functions[i].ast
       /\ new.functions[i].mods = cls.functions[i].mods
       /\ new.functions[i].scope =
            IF i = Len(cls.functions) THEN s ELSE cls.functions[i].scope

LEMMA AttachScopeEffect ==
  ASSUME NEW R, NEW S, NEW cls \in ClassOf(R, S), NEW s
  PROVE  /\ SameFields(AttachScope(cls, s), cls) /\ SameKind(AttachScope(cls, s), cls)
         /\ LastScoped(AttachScope(cls, s), cls, s)
<1>. DEFINE n == Len(cls.functions)
            func == [cls.functions[n] EXCEPT !.scope = s]
            funcs == [cls.functions EXCEPT ![n] = func]
<1>1. cls.functions \in Seq(FunctionOf(R, S)) /\ n \in Nat /\ DOMAIN cls.functions = 1 .. n
  BY DEF ClassOf
<1>2. ASSUME n \in 1 .. n
      PROVE  /\ func.ast = cls.functions[n].ast /\ func.mods = cls.functions[n].mods
             /\ func.scope = s
  <2>1. cls.functions[n] \in FunctionOf(R, S)
    BY <1>1, <1>2
  <2>. QED
    BY <2>1 DEF FunctionOf
<1>. HIDE DEF func
<1>3. DOMAIN funcs = 1 .. n /\ Len(funcs) = n
  BY <1>1
<1>4. \A i \in 1 .. n : funcs[i] = IF i = n THEN func ELSE cls.functions[i]
  BY <1>1
<1>5. AttachScope(cls, s) = [cls EXCEPT !.functions = funcs]
  BY DEF AttachScope, func
<1>. HIDE DEF funcs
<1>6. /\ AttachScope(cls, s).functions = funcs /\ AttachScope(cls, s).fields = cls.fields
      /\ AttachScope(cls, s).mods = cls.mods /\ AttachScope(cls, s).type = cls.type
  BY <1>5 DEF ClassOf
<1>7. SameFields(AttachScope(cls, s), cls) /\ SameKind(AttachScope(cls, s), cls)
  BY <1>6 DEF SameFields, SameKind
<1>8. ASSUME NEW i \in 1 .. n
      PROVE  /\ funcs[i].ast = cls.functions[i].ast /\ funcs[i].mods = cls.functions[i].mods
             /\ funcs[i].scope = IF i = n THEN s ELSE cls.functions[i].scope
  BY <1>2, <1>4
<1>. QED
  BY <1>3, <1>6, <1>7, <1>8 DEF LastScoped

(* The fields of cls, followed by one that is new. *)
OneMoreField(new, cls, mods) ==
  /\ Len(new.fields) = Len(cls.fields) + 1
  /\ DOMAIN new.fields = 1 .. Len(cls.fields) + 1
  /\ \A i \in 1 .. Len(cls.fields) : new.fields[i] = cls.fields[i]
  /\ new.fields[Len(cls.fields) + 1].mods = mods

FieldMods(cls, priv) == Privacy(priv) \cup (IF IsFinal(cls) THEN {"static"} ELSE {})

LEMMA CreateFieldEffect ==
  ASSUME NEW R, NEW S, NEW cls \in ClassOf(R, S), NEW name, NEW type, NEW priv
  PROVE  /\ SameFunctions(CreateField(cls, name, type, priv), cls)
         /\ SameKind(CreateField(cls, name, type, priv), cls)
         /\ OneMoreField(CreateField(cls, name, type, priv), cls, FieldMods(cls, priv))
         /\ SameFunctions(DefineStaticField(cls, name, type, priv), cls)
         /\ SameKind(DefineStaticField(cls, name, type, priv), cls)
         /\ OneMoreField(DefineStaticField(cls, name, type, priv), cls,
                         Privacy(priv) \cup {"static"})
<1>1. cls.fields \in Seq(FieldOf(R)) /\ Len(cls.fields) \in Nat
      /\ DOMAIN cls.fields = 1 .. Len(cls.fields)
  BY DEF ClassOf
<1>2. ASSUME NEW mods
      PROVE  LET new == [cls EXCEPT !.fields =
                           Append(@, [name |-> name, type |-> type, mods |-> mods])]
             IN  SameFunctions(new, cls) /\ SameKind(new, cls) /\ OneMoreField(new, cls, mods)
  <2>. DEFINE field == [name |-> name, type |-> type, mods |-> mods]
              fs == Append(cls.fields, field)
              new == [cls EXCEPT !.fields = fs]
  <2>1. field.mods = mods
    OBVIOUS
  <2>. HIDE DEF field
  <2>2. /\ Len(fs) = Len(cls.fields) + 1 /\ DOMAIN fs = 1 .. Len(cls.fields) + 1
        /\ \A i \in 1 .. Len(cls.fields) : fs[i] = cls.fields[i]
        /\ fs[Len(cls.fields) + 1] = field
    BY <1>1
  <2>. HIDE DEF fs
  <2>3. new.fields = fs /\ new.functions = cls.functions /\ new.mods = cls.mods
        /\ new.type = cls.type
    BY DEF ClassOf
  <2>. HIDE DEF new
  <2>4. SameFunctions(new, cls) /\ SameKind(new, cls) /\ OneMoreField(new, cls, mods)
    BY <2>1, <2>2, <2>3 DEF SameFunctions, SameKind, OneMoreField
  <2>. QED
    BY <2>4 DEF new, fs, field
<1>3. /\ SameFunctions(DefineStaticField(cls, name, type, priv), cls)
      /\ SameKind(DefineStaticField(cls, name, type, priv), cls)
      /\ OneMoreField(DefineStaticField(cls, name, type, priv), cls, Privacy(priv) \cup {"static"})
  BY <1>2 DEF DefineStaticField
<1>4. /\ SameFunctions(DefineField(cls, name, type, priv), cls)
      /\ SameKind(DefineField(cls, name, type, priv), cls)
      /\ OneMoreField(DefineField(cls, name, type, priv), cls, Privacy(priv))
  BY <1>2 DEF DefineField
<1>5. CASE IsFinal(cls)
  BY <1>3, <1>5 DEF CreateField, FieldMods
<1>6. CASE ~IsFinal(cls)
  <2>1. Privacy(priv) \cup {} = Privacy(priv)
    OBVIOUS
  <2>. QED
    BY <1>3, <1>4, <1>6, <2>1 DEF CreateField, FieldMods
<1>. QED
  BY <1>5, <1>6

(* The functions of cls, the tree of function f longer by one statement.   *)
OneMoreStatement(new, cls, f, place, value) ==
  /\ Len(new.functions) = Len(cls.functions)
  /\ \A i \in 1 .. Len(cls.functions) :
       /\ new.functions[i].scope = cls.functions[i].scope
       /\ new.functions[i].mods = cls.functions[i].mods
       /\ new.functions[i].ast =
            IF i = f THEN Append(cls.functions[i].ast, [dest |-> place, value |-> value])
                     ELSE cls.functions[i].ast

LEMMA AddAstEffect ==
  ASSUME NEW R, NEW S, NEW cls \in ClassOf(R, S), NEW f, NEW place, NEW value
  PROVE  /\ SameFields(AddAst(cls, f, place, value), cls)
         /\ SameKind(AddAst(cls, f, place, value), cls)
         /\ OneMoreStatement(AddAst(cls, f, place, value), cls, f, place, value)
<1>. DEFINE n == Len(cls.functions)
            ast  == Append(cls.functions[f].ast, [dest |-> place, value |-> value])
            func == [cls.functions[f] EXCEPT !.ast = ast]
            funcs == [cls.functions EXCEPT ![f] = func]
            new == AddAst(cls, f, place, value)
<1>1. cls.functions \in Seq(FunctionOf(R, S)) /\ n \in Nat /\ DOMAIN cls.functions = 1 .. n
  BY DEF ClassOf
<1>. HIDE DEF ast
<1>2. ASSUME f \in 1 .. n
      PROVE  /\ func.ast = ast /\ func.mods = cls.functions[f].mods
             /\ func.scope = cls.functions[f].scope
  <2>1. cls.functions[f] \in FunctionOf(R, S)
    BY <1>1, <1>2
  <2>. QED
    BY <2>1 DEF FunctionOf
<1>. HIDE DEF func
<1>3. DOMAIN funcs = 1 .. n /\ Len(funcs) = n
  BY <1>1
<1>4. \A i \in 1 .. n : funcs[i] = IF i = f THEN func ELSE cls.functions[i]
  BY <1>1
<1>5. new = [cls EXCEPT !.functions = funcs]
  BY DEF AddAst, func, ast
<1>. HIDE DEF funcs, new
<1>6. /\ new.functions = funcs /\ new.fields = cls.fields
      /\ new.mods = cls.mods /\ new.type = cls.type
  BY <1>5 DEF ClassOf
<1>7. SameFields(new, cls) /\ SameKind(new, cls)
  BY <1>6 DEF SameFields, SameKind
<1>8. ASSUME NEW i \in 1 .. n
      PROVE  /\ funcs[i].scope = cls.functions[i].scope /\ funcs[i].mods = cls.functions[i].mods
             /\ funcs[i].ast = IF i = f THEN ast ELSE cls.functions[i].ast
  BY <1>2, <1>4
<1>9. \A i \in 1 .. n :
        i = f => ast = Append(cls.functions[i].ast, [dest |-> place, value |-> value])
  BY DEF ast
<1>10. OneMoreStatement(new, cls, f, place, value)
  BY <1>3, <1>6, <1>8, <1>9 DEF OneMoreStatement
<1>. QED
  BY <1>7, <1>10 DEF new

(* A class is born with no field, and with an empty constructor if any.    *)
LEMMA NewClassEffect ==
  ASSUME NEW name, NEW mods, NEW super, NEW type
  PROVE  LET new == NewClass(name, mods, super, type)
         IN  /\ new.fields = <<>> /\ new.mods = mods /\ new.type = type
             /\ IF type = "proto" THEN new.functions = <<>>
                ELSE new.functions = <<NewFunction(name, {}, VoidClass)>>
<1>. DEFINE bare == [name |-> name, mods |-> mods, super |-> super, type |-> type,
                     fields |-> <<>>, functions |-> <<>>]
<1>1. CASE type = "proto"
  BY <1>1 DEF NewClass, HasConstructor
<1>2. CASE type # "proto"
  <2>1. NewClass(name, mods, super, type) = DefineFunction(bare, name, VoidClass, FALSE)
    BY <1>2 DEF NewClass, HasConstructor
  <2>2. PICK func : func = NewFunction(name, {}, VoidClass)
    OBVIOUS
  <2>3. Append(bare.functions, func) = <<func>>
    OBVIOUS
  <2>. QED
    BY <1>2, <2>1, <2>2, <2>3 DEF DefineFunction, Privacy
<1>. QED
  BY <1>1, <1>2

-----------------------------------------------------------------------------
(* The kinds of steps, by what they build *)

(* Nothing: the parser moves within a part of the definition. *)
Moves ==
  /\ UNCHANGED <<class_, code_, scope_, classes, scopes>>
  /\ StaysInRegion
  /\ Site' \in {"Head", "Extends"} =>
       loc'.kw = loc.kw /\ (Site \in {"Head", "Extends"} \/ loc.kw # "enum")
  /\ Site' = "FieldNext" => Site = "FieldNext" /\ UNCHANGED private_
  /\ Site' = "LocalNext" => Site = "LocalNext"

(* The scope of a definition. *)
Begins ==
  /\ Site = "Parse" /\ Site' = "Definition"
  /\ PushScope(Nil)
  /\ UNCHANGED <<private_, class_, code_, classes>>

(* Nothing more: the definition has ended. *)
Leaves ==
  /\ Site \in {"Definition", "Body", "EnumBody"} /\ Site' = "Parse"
  /\ UNCHANGED <<class_, scope_, classes, scopes>>

(* A class. *)
OpensClass(name, super) ==
  /\ \/ Site = "DefinitionName" /\ loc.kw = "enum" /\ Site' = "EnumOpen"
     \/ Site = "Head" /\ Site' = "Body"
  /\ OpenClass(name, super)
  /\ UNCHANGED <<code_, scope_, scopes>>

(* A function, with a scope or without one. *)
NamesFunction(name) ==
  /\ Site \in {"FuncName", "MethodName"} /\ Site' = "ParamOpen"
  /\ \/ /\ PushScope(scope_)
        /\ classes' = [classes EXCEPT ![class_] = AttachScope(Declare(name), Len(scopes) + 1)]
     \/ /\ classes' = [classes EXCEPT ![class_] = Declare(name)]
        /\ UNCHANGED <<scopes, scope_>>
  /\ private_' = FALSE
  /\ UNCHANGED <<class_, code_>>

(* Nothing more: the scope of the function, if any, is left. *)
ClosesFunction ==
  /\ Site \in FunctionSites /\ Site' = "Body"
  /\ RestoreScope
  /\ UNCHANGED <<private_, class_, code_, classes, scopes>>

(* A constant of an enum, and its initialisation. *)
AddsConstant(name) ==
  LET defined == DefineStaticField(classes[class_], name, class_, FALSE)
  IN  /\ Site = "EnumBody" /\ Site' = "EnumBody"
      /\ classes' = [classes EXCEPT ![class_] =
                       AddAst(defined, Constructor,
                              Place("StaticField", class_, Len(defined.fields)),
                              Literal(IntClass, Ordinal(defined)))]
      /\ UNCHANGED <<private_, class_, code_, scope_, scopes>>

(* A field. *)
AddsField(type) ==
  /\ Site = "FieldType" /\ Site' = "FieldNext"
  /\ classes' = [classes EXCEPT ![class_] = CreateField(@, loc.name, type, private_)]
  /\ UNCHANGED <<private_, class_, code_, scope_, scopes>>

(* A local of the scope in force. *)
AddsLocal(type) ==
  /\ Site \in {"LocalType", "ParamDefault"} /\ Site' \in {"LocalNext", "Params"}
  /\ scopes' = AddLocal(scopes, scope_, loc.name, type)
  /\ UNCHANGED <<private_, class_, code_, scope_, classes>>

(* A statement of the function that the construct belongs to. *)
AddsStatement(f) ==
  /\ pc = "Binary" /\ Site \in {"FieldNext", "LocalNext", "StatementEnd"}
  /\ Site' = Site
  /\ f = IF Site = "FieldNext" THEN Constructor ELSE CurrentFunction
  /\ Site = "FieldNext" => HasConstructor(classes[class_])
  /\ classes' = [classes EXCEPT ![class_] = AddAst(@, f, loc.dest, loc.expr)]
  /\ UNCHANGED <<private_, class_, code_, scope_, scopes>>

Builds ==
  \/ Begins \/ Leaves \/ ClosesFunction
  \/ \E name \in Names : \E super \in ClassRef : OpensClass(name, super)
  \/ \E name \in Names : NamesFunction(name) \/ AddsConstant(name)
  \/ \E type \in ClassRef : (AddsField(type) /\ type \in Nameable) \/ AddsLocal(type)
  \/ \E f \in Nat : AddsStatement(f)

LEMMA DefinitionNameKind ==
  ASSUME Inv, DefinitionName \/ HeadOpen
  PROVE  Moves \/ \E name \in Names : \E super \in ClassRef : OpensClass(name, super)
<1>. USE DEF Reads, Site, ExpressionSites
<1>1. CASE DefinitionName
  <2>1. PICK t \in Readable :
          /\ Reads("DefinitionName", "kIDENTIFIER", t)
          /\ IF loc.kw = "enum"
             THEN OpenClass(t.text, ObjectClass) /\ pc' = "EnumOpen" /\ UNCHANGED loc
             ELSE /\ loc' = [loc EXCEPT !.name = t.text]
                  /\ pc' = "Head"
                  /\ UNCHANGED <<private_, class_, classes>>
          /\ UNCHANGED <<code_, scope_, scopes>>
    BY <1>1 DEF DefinitionName
  <2>2. t.text \in Names /\ ObjectClass \in ClassRef
    BY <2>1, IdentifierText, NameableRange DEF Names
  <2>3. CASE loc.kw = "enum"
    <3>1. OpensClass(t.text, ObjectClass)
      BY <2>1, <2>3 DEF OpensClass
    <3>. QED
      BY <2>2, <3>1
  <2>4. CASE loc.kw # "enum"
    <3>1. loc'.kw = loc.kw
      BY <2>1, <2>4 DEF Inv, TypeOK, LocalsOf
    <3>2. Site = "DefinitionName" /\ Site' = "Head"
      BY <2>1, <2>4
    <3>3. StaysInRegion
      BY <3>2 DEF StaysInRegion, Regions, HeadSites
    <3>. QED
      BY <2>1, <2>4, <3>1, <3>2, <3>3 DEF Moves
  <2>. QED
    BY <2>3, <2>4
<1>2. CASE HeadOpen
  <2>1. /\ pc = "Head" /\ pc' = "Body" /\ OpenClass(loc.name, loc.ref)
        /\ UNCHANGED <<code_, scope_, scopes>>
    BY <1>2 DEF HeadOpen
  <2>2. OpensClass(loc.name, loc.ref)
    BY <2>1 DEF OpensClass
  <2>3. loc.name \in Names /\ loc.ref \in ClassRef
    BY <2>1 DEF Inv, UnderConstruction, NamedSites, Names, TypeOK, LocalsOf
  <2>. QED
    BY <2>2, <2>3
<1>. QED
  BY <1>1, <1>2

LEMMA FunctionNameKind ==
  ASSUME Inv, FunctionName
  PROVE  \E name \in Names : NamesFunction(name)
<1>1. PICK t \in Readable :
        /\ \/ /\ Reads("FuncName", "kIDENTIFIER", t)
              /\ PushScope(scope_)
              /\ classes' = [classes EXCEPT ![class_] =
                               AttachScope(Declare(t.text), Len(scopes) + 1)]
           \/ /\ Reads("MethodName", "kIDENTIFIER", t)
              /\ classes' = [classes EXCEPT ![class_] = Declare(t.text)]
              /\ UNCHANGED <<scopes, scope_>>
        /\ private_' = FALSE
        /\ pc' = "ParamOpen"
        /\ UNCHANGED <<class_, code_>>
  BY DEF FunctionName
<1>2. t.text \in Names
  BY <1>1, IdentifierText DEF Names, Reads
<1>3. NamesFunction(t.text)
  BY <1>1 DEF NamesFunction, Site, ExpressionSites, Reads
<1>. QED
  BY <1>2, <1>3

LEMMA EnumConstantKind ==
  ASSUME Inv, EnumConstant
  PROVE  Moves \/ \E name \in Names : AddsConstant(name)
<1>1. PICK t \in Readable :
        /\ Reads("EnumBody", "kIDENTIFIER", t)
        /\ \/ pc' = "Aborted" /\ UNCHANGED classes
           \/ /\ classes' = [classes EXCEPT ![class_] =
                     AddAst(DefineStaticField(classes[class_], t.text, class_, FALSE), Constructor,
                       Place("StaticField", class_,
                         Len(DefineStaticField(classes[class_], t.text, class_, FALSE).fields)),
                       Literal(IntClass,
                         Ordinal(DefineStaticField(classes[class_], t.text, class_, FALSE))))]
              /\ UNCHANGED pc
        /\ UNCHANGED <<private_, class_, code_, scope_, scopes, loc>>
  BY DEF EnumConstant
<1>2. t.text \in Names
  BY <1>1, IdentifierText DEF Names, Reads
<1>3. CASE pc' = "Aborted" /\ UNCHANGED classes
  BY <1>1, <1>3 DEF Moves, StaysInRegion, Stopped, Site, ExpressionSites
<1>4. CASE pc' # "Aborted"
  <2>1. Site = "EnumBody" /\ Site' = "EnumBody"
    BY <1>1, <1>4 DEF Reads, Site, ExpressionSites
  <2>2. AddsConstant(t.text)
    BY <1>1, <1>4, <2>1 DEF AddsConstant
  <2>. QED
    BY <1>2, <2>2
<1>. QED
  BY <1>1, <1>3, <1>4 DEF Reads

LEMMA FieldTypeKind ==
  ASSUME Inv, FieldType
  PROVE  \E type \in ClassRef : AddsField(type) /\ type \in Nameable
<1>1. PICK t \in Readable :
        /\ Reads("FieldType", "kIDENTIFIER", t)
        /\ classes' = [classes EXCEPT ![class_] =
                         CreateField(@, loc.name, FindClass(t.text), private_)]
        /\ pc' = "FieldNext"
        /\ UNCHANGED <<private_, class_, code_, scope_, scopes>>
  BY DEF FieldType
<1>2. FindClass(t.text) \in ClassRef /\ FindClass(t.text) \in Nameable
  BY FindClassTyped DEF Nameable
<1>3. AddsField(FindClass(t.text))
  BY <1>1 DEF AddsField, Reads, Site, ExpressionSites
<1>. QED
  BY <1>2, <1>3

LEMMA LocalTypeKind ==
  ASSUME Inv, LocalType \/ ParamDefault
  PROVE  Moves \/ \E type \in ClassRef : AddsLocal(type)
<1>. USE DEF Reads, Site, ExpressionSites
<1>1. ASSUME pc \in {"LocalType", "ParamDefault"}, NEW type \in ClassRef,
             NEW next \in {"LocalNext", "Params"}, DeclareLocal(type, next),
             UNCHANGED <<private_, class_, code_, scope_, classes>>
      PROVE  Moves \/ AddsLocal(type)
  <2>1. CASE pc' = "Aborted" /\ UNCHANGED scopes
    BY <1>1, <2>1 DEF Moves, StaysInRegion, Stopped
  <2>2. CASE pc' = next /\ scopes' = AddLocal(scopes, scope_, loc.name, type)
    BY <1>1, <2>2 DEF AddsLocal
  <2>. QED
    BY <1>1, <2>1, <2>2 DEF DeclareLocal
<1>2. CASE LocalType
  <2>1. PICK t \in Readable :
          /\ pc = "LocalType" /\ DeclareLocal(FindClass(t.text), "LocalNext")
          /\ UNCHANGED <<private_, class_, code_, scope_, classes>>
    BY <1>2 DEF LocalType
  <2>. QED
    BY <1>1, <2>1, FindClassTyped
<1>3. CASE ParamDefault
  <2>1. /\ pc = "ParamDefault"
        /\ UNCHANGED <<private_, class_, code_, scope_, classes>>
        /\ \/ pc' = "Unary" /\ loc' = [loc EXCEPT !.back = "Aborted"] /\ UNCHANGED scopes
           \/ DeclareLocal(loc.ref, "Params")
    BY <1>3 DEF ParamDefault
  <2>2. loc \in LocalsOf(ClassRef) /\ loc.ref \in ClassRef
    BY DEF Inv, TypeOK, LocalsOf
  <2>3. CASE pc' = "Unary" /\ loc' = [loc EXCEPT !.back = "Aborted"] /\ UNCHANGED scopes
    <3>1. loc'.back = "Aborted"
      BY <2>2, <2>3 DEF LocalsOf
    <3>2. Site = "ParamDefault" /\ Site' = "Params"
      BY <2>1, <2>3, <3>1
    <3>3. StaysInRegion
      BY <3>2 DEF StaysInRegion, Regions, FunctionSites
    <3>. QED
      BY <2>1, <2>3, <3>2, <3>3 DEF Moves
  <2>. QED
    BY <1>1, <2>1, <2>2, <2>3
<1>. QED
  BY <1>2, <1>3

LEMMA EndExpressionKind ==
  ASSUME Inv, EndExpression
  PROVE  Moves \/ \E f \in Nat : AddsStatement(f)
<1>. DEFINE owner == IF loc.back = "FieldNext" THEN Constructor ELSE CurrentFunction
            wild  == loc.back = "FieldNext" /\ ~HasConstructor(classes[class_])
<1>1. /\ pc = "Binary"
      /\ IF wild \/ loc.back = "Aborted" THEN UNCHANGED classes
         ELSE classes' = [classes EXCEPT ![class_] = AddAst(@, owner, loc.dest, loc.expr)]
      /\ pc' \in {loc.back} \cup (IF wild THEN {"Crashed"} ELSE {})
      /\ UNCHANGED <<private_, class_, code_, scope_, scopes>>
  BY DEF EndExpression
<1>2. /\ pc \in ExpressionSites /\ Site \in OpenSites
      /\ Site \in {"Params", "FieldNext", "LocalNext", "StatementEnd"}
      /\ loc.back = "Aborted" \/ Site = loc.back
  BY <1>1, ExpressionSite DEF ExpressionSites
<1>3. pc' \in {loc.back, "Crashed"} /\ Site' = pc'
  BY <1>1, <1>2 DEF Site, ExpressionSites
<1>4. CASE wild \/ loc.back = "Aborted"
  <2>1. Site' \in Stopped \/ Site' = Site
    BY <1>2, <1>3 DEF Stopped
  <2>2. StaysInRegion
    BY <1>2, <2>1, ExpressionSite DEF StaysInRegion
  <2>3. Site' \notin {"Head", "Extends"}
    BY <1>2, <1>3
  <2>. QED
    BY <1>1, <1>4, <2>1, <2>2, <2>3 DEF Moves, Stopped
<1>5. CASE ~wild /\ loc.back # "Aborted"
  <2>1. owner \in Nat
    BY <1>2, OpenTyped DEF Constructor, CurrentFunction
  <2>2. Site = loc.back /\ Site' = Site
    BY <1>1, <1>2, <1>3, <1>5
  <2>3. AddsStatement(owner)
    <3>1. owner = IF Site = "FieldNext" THEN Constructor ELSE CurrentFunction
      BY <2>2
    <3>2. Site \in {"FieldNext", "LocalNext", "StatementEnd"}
      <4>1. loc.back \in {"", "FieldNext", "LocalNext", "StatementEnd", "Aborted"}
        BY DEF Inv, TypeOK, LocalsOf
      <4>. QED
        BY <1>2, <1>5, <4>1, <2>2
    <3>3. Site = "FieldNext" => HasConstructor(classes[class_])
      BY <1>5, <2>2
    <3>4. classes' = [classes EXCEPT ![class_] = AddAst(@, owner, loc.dest, loc.expr)]
      BY <1>1, <1>5
    <3>. HIDE DEF owner
    <3>. QED
      BY <1>1, <1>2, <2>2, <3>1, <3>2, <3>3, <3>4 DEF AddsStatement
  <2>. QED
    BY <2>1, <2>3
<1>. QED
  BY <1>4, <1>5

LEMMA ParseNextKind ==
  ASSUME Inv, ParseNext
  PROVE  Moves \/ Begins
<1>1. /\ pc = "Parse"
      /\ \/ pc' = "Done" /\ UNCHANGED <<scopes, scope_>>
         \/ pc' = "Definition" /\ PushScope(Nil)
      /\ UNCHANGED <<private_, class_, code_, classes, loc>>
  BY DEF ParseNext
<1>2. CASE pc' = "Done" /\ UNCHANGED <<scopes, scope_>>
  BY <1>1, <1>2 DEF Moves, StaysInRegion, Stopped, Site, ExpressionSites
<1>3. CASE pc' = "Definition" /\ PushScope(Nil)
  BY <1>1, <1>3 DEF Begins, Site, ExpressionSites
<1>. QED
  BY <1>1, <1>2, <1>3

LEMMA DefinitionPrivateKind ==
  ASSUME Inv, DefinitionPrivate
  PROVE  Moves \/ Leaves
<1>1. /\ pc = "Definition" /\ pc' \in {"Definition", "Aborted", "Crashed", "Parse"}
      /\ UNCHANGED <<class_, code_, scope_, classes, scopes, loc>>
  BY DEF DefinitionPrivate, Reads
<1>2. Site = pc /\ Site' = pc'
  BY <1>1 DEF Site, ExpressionSites
<1>3. CASE pc' = "Parse"
  BY <1>1, <1>2, <1>3 DEF Leaves
<1>4. CASE pc' # "Parse"
  BY <1>1, <1>2, <1>4 DEF Moves, StaysInRegion, Regions, HeadSites, Stopped
<1>. QED
  BY <1>3, <1>4

LEMMA ReturnsKind ==
  ASSUME Returns
  PROVE  Leaves
BY DEF Returns, DefinitionEof, BodyClose, ReturnDefinition, Reads, Leaves, Site, ExpressionSites

LEMMA FunctionCloseKind ==
  ASSUME FunctionClose
  PROVE  ClosesFunction
<1>1. Site \in FunctionSites /\ Site' = "Body"
  BY DEF FunctionClose, Reads, Site, ExpressionSites, FunctionSites
<1>. QED
  BY <1>1 DEF FunctionClose, ClosesFunction

(* The actions that build nothing. *)
LEMMA OtherKinds ==
  ASSUME Inv, Next, ~(DefinitionName \/ HeadOpen), ~FunctionName, ~EnumConstant, ~FieldType,
         ~(LocalType \/ ParamDefault), ~EndExpression, ~ParseNext, ~DefinitionPrivate, ~Returns,
         ~FunctionClose
  PROVE  Moves
<1>. USE DEF Reads, Site, ExpressionSites, Moves
<1>0. /\ loc \in LocalsOf(ClassRef)
      /\ loc.back \in {"", "FieldNext", "LocalNext", "StatementEnd", "Aborted"}
  BY DEF Inv, TypeOK, LocalsOf
<1>1. CASE Unexpected
  BY <1>1 DEF Unexpected, StaysInRegion, Stopped
<1>2. CASE ExpectSymbol
  BY <1>0, <1>2 DEF ExpectSymbol, StaysInRegion, Regions, HeadSites, BodySites, FieldSites,
     EnumSites, FunctionSites, Stopped, LocalsOf
<1>3. CASE DefinitionKeyword
  BY <1>0, <1>3 DEF DefinitionKeyword, Opens, StaysInRegion, Regions, HeadSites, BodySites, FieldSites,
     EnumSites, FunctionSites, Stopped, LocalsOf
<1>4. CASE HeadExtends
  BY <1>0, <1>4 DEF HeadExtends, StaysInRegion, Regions, HeadSites, BodySites, FieldSites,
     EnumSites, FunctionSites, Stopped, LocalsOf
<1>5. CASE HeadParent
  BY <1>0, <1>5 DEF HeadParent, StaysInRegion, Regions, HeadSites, BodySites, FieldSites,
     EnumSites, FunctionSites, Stopped, LocalsOf
<1>6. CASE BodyPrivate
  BY <1>0, <1>6 DEF BodyPrivate, StaysInRegion, Regions, HeadSites, BodySites, FieldSites,
     EnumSites, FunctionSites, Stopped, LocalsOf
<1>7. CASE BodyVar
  BY <1>0, <1>7 DEF BodyVar, StaysInRegion, Regions, HeadSites, BodySites, FieldSites,
     EnumSites, FunctionSites, Stopped, LocalsOf
<1>8. CASE BodyFunction
  BY <1>0, <1>8 DEF BodyFunction, StaysInRegion, Regions, HeadSites, BodySites, FieldSites,
     EnumSites, FunctionSites, Stopped, LocalsOf
<1>9. CASE EnumSeparator
  BY <1>0, <1>9 DEF EnumSeparator, StaysInRegion, Regions, HeadSites, BodySites, FieldSites,
     EnumSites, FunctionSites, Stopped, LocalsOf
<1>10. CASE DeclaratorName
  BY <1>0, <1>10 DEF DeclaratorName, StaysInRegion, Regions, HeadSites, BodySites, FieldSites,
     EnumSites, FunctionSites, Stopped, LocalsOf
<1>11. CASE ParamType
  BY <1>0, <1>11 DEF ParamType, StaysInRegion, Regions, HeadSites, BodySites, FieldSites,
     EnumSites, FunctionSites, Stopped, LocalsOf
<1>12. CASE ParamsClose
  BY <1>0, <1>12 DEF ParamsClose, StaysInRegion, Regions, HeadSites, BodySites, FieldSites,
     EnumSites, FunctionSites, Stopped, LocalsOf
<1>13. CASE DeclarationNext
  BY <1>0, <1>13 DEF DeclarationNext, StaysInRegion, Regions, HeadSites, BodySites, FieldSites,
     EnumSites, FunctionSites, Stopped, LocalsOf
<1>14. CASE Initialiser
  <2>1. PICK back \in {"FieldNext", "LocalNext"} : \E place :
          /\ pc = back /\ pc' = "Unary" /\ UNCHANGED private_
          /\ loc' = [loc EXCEPT !.dest = place, !.back = back, !.name = ""]
          /\ UNCHANGED <<class_, code_, scope_, classes, scopes>>
    BY <1>14 DEF Initialiser, BeginExpression
  <2>2. loc'.back = back
    BY <1>0, <2>1 DEF LocalsOf
  <2>3. Site = back /\ Site' = back
    BY <2>1, <2>2
  <2>4. StaysInRegion
    BY <2>3 DEF StaysInRegion, Regions, BodySites, FieldSites, EnumSites, FunctionSites
  <2>. QED
    BY <2>1, <2>3, <2>4
<1>15. CASE Statement
  <2>1. /\ pc = "Statement" /\ pc' \in {"StatementEnd", "Locals", "Assign", "Unary", "Aborted"}
        /\ pc' = "Unary" => \E place :
             loc' = [loc EXCEPT !.dest = place, !.back = "StatementEnd", !.name = ""]
        /\ UNCHANGED <<private_, class_, code_, scope_, classes, scopes>>
    BY <1>15 DEF Statement, BeginExpression
  <2>2. pc' = "Unary" => loc'.back = "StatementEnd"
    BY <1>0, <2>1 DEF LocalsOf
  <2>3. Site = "Statement" /\ Site' \in {"StatementEnd", "Locals", "Assign", "Aborted"}
    BY <2>1, <2>2
  <2>4. StaysInRegion
    BY <2>3 DEF StaysInRegion, Regions, FunctionSites, Stopped
  <2>. QED
    BY <2>1, <2>3, <2>4
<1>16. CASE Assign
  <2>1. /\ pc = "Assign" /\ pc' \in {"StatementEnd", "Locals", "Assign", "Unary", "Aborted"}
        /\ pc' = "Unary" => \E place :
             loc' = [loc EXCEPT !.dest = place, !.back = "StatementEnd", !.name = ""]
        /\ UNCHANGED <<private_, class_, code_, scope_, classes, scopes>>
    BY <1>16 DEF Assign, BeginExpression
  <2>2. pc' = "Unary" => loc'.back = "StatementEnd"
    BY <1>0, <2>1 DEF LocalsOf
  <2>3. Site = "Assign" /\ Site' \in {"StatementEnd", "Locals", "Assign", "Aborted"}
    BY <2>1, <2>2
  <2>4. StaysInRegion
    BY <2>3 DEF StaysInRegion, Regions, FunctionSites, Stopped
  <2>. QED
    BY <2>1, <2>3, <2>4
<1>17. CASE StatementEnd
  BY <1>0, <1>17 DEF StatementEnd, StaysInRegion, Regions, HeadSites, BodySites, FieldSites,
     EnumSites, FunctionSites, Stopped, LocalsOf
<1>18. CASE ParseUnaryExpr
  <2>1. /\ pc = "Unary" /\ pc' \in {"Aborted", "Binary"} /\ UNCHANGED private_
        /\ pc' = "Binary" => loc'.back = loc.back
        /\ UNCHANGED <<class_, code_, scope_, classes, scopes>>
    BY <1>0, <1>18 DEF ParseUnaryExpr, LocalsOf
  <2>2. Site' = "Aborted" \/ Site' = Site
    BY <2>1
  <2>3. StaysInRegion /\ Site \notin {"Head", "Extends"}
    BY <2>1, <2>2, ExpressionSite DEF StaysInRegion, Stopped
  <2>. QED
    BY <2>1, <2>2, <2>3
<1>19. CASE BinaryOperator
  <2>1. /\ pc = "Binary" /\ pc' = "Unary" /\ UNCHANGED private_
        /\ loc'.back = loc.back
        /\ UNCHANGED <<class_, code_, scope_, classes, scopes>>
    BY <1>0, <1>19 DEF BinaryOperator, LocalsOf
  <2>2. Site' = Site
    BY <2>1
  <2>3. StaysInRegion /\ Site \notin {"Head", "Extends"}
    BY <2>1, <2>2, ExpressionSite DEF StaysInRegion
  <2>. QED
    BY <2>1, <2>2, <2>3
<1>20. CASE Terminated
  BY <1>20 DEF Terminated, vars, StaysInRegion, Stopped
<1>. QED
  BY <1>1, <1>2, <1>3, <1>4, <1>5, <1>6, <1>7, <1>8, <1>9, <1>10, <1>11, <1>12, <1>13, <1>14,
     <1>15, <1>16, <1>17, <1>18, <1>19, <1>20 DEF Next, Returns

LEMMA StepKinds ==
  ASSUME Inv, Next
  PROVE  Moves \/ Builds
BY DefinitionNameKind, FunctionNameKind, EnumConstantKind, FieldTypeKind, LocalTypeKind,
   EndExpressionKind, ParseNextKind, DefinitionPrivateKind, ReturnsKind, FunctionCloseKind,
   OtherKinds DEF Builds

-----------------------------------------------------------------------------
(* What each kind of step does to the classes *)

(* Only the class under construction changes. *)
ChangesOpenClass ==
  /\ Len(classes') = Len(classes) /\ DOMAIN classes' = DOMAIN classes
  /\ \A c \in DOMAIN classes : c # class_ => classes'[c] = classes[c]

LEMMA ClassReplaced ==
  ASSUME Inv, Site \in OpenSites, NEW cls, classes' = [classes EXCEPT ![class_] = cls]
  PROVE  ChangesOpenClass /\ classes'[class_] = cls /\ class_ \in DOMAIN classes
<1>1. classes \in Seq(ClassOf(ClassRef, ScopeRef)) /\ class_ \in 1 .. Len(classes)
  BY OpenTyped DEF Inv, TypeOK
<1>2. DOMAIN classes = 1 .. Len(classes) /\ Len(classes) \in Nat
  BY <1>1
<1>3. DOMAIN classes' = 1 .. Len(classes)
  BY <1>2
<1>4. Len(classes') = Len(classes)
  BY <1>2, <1>3
<1>. QED
  BY <1>1, <1>2, <1>3, <1>4 DEF ChangesOpenClass

LEMMA AddsFieldEffect ==
  ASSUME Inv, NEW type, AddsField(type)
  PROVE  /\ ChangesOpenClass /\ class_ \in DOMAIN classes
         /\ SameFunctions(classes'[class_], classes[class_])
         /\ SameKind(classes'[class_], classes[class_])
         /\ OneMoreField(classes'[class_], classes[class_], FieldMods(classes[class_], private_))
<1>1. Site \in OpenSites
  BY DEF AddsField, OpenSites, BodySites, FieldSites
<1>2. classes[class_] \in ClassOf(Nameable, ScopeRef)
  BY <1>1, OpenTyped
<1>3. PICK cls : cls = CreateField(classes[class_], loc.name, type, private_)
  OBVIOUS
<1>4. classes' = [classes EXCEPT ![class_] = cls]
  BY <1>3 DEF AddsField
<1>5. ChangesOpenClass /\ classes'[class_] = cls /\ class_ \in DOMAIN classes
  BY <1>1, <1>4, ClassReplaced
<1>. QED
  BY <1>2, <1>3, <1>5, CreateFieldEffect

LEMMA AddsStatementEffect ==
  ASSUME Inv, NEW f, AddsStatement(f)
  PROVE  /\ ChangesOpenClass /\ class_ \in DOMAIN classes
         /\ SameFields(classes'[class_], classes[class_])
         /\ SameKind(classes'[class_], classes[class_])
         /\ OneMoreStatement(classes'[class_], classes[class_], f, loc.dest, loc.expr)
<1>1. Site \in OpenSites
  BY DEF AddsStatement, OpenSites, BodySites, FieldSites, FunctionSites
<1>2. classes[class_] \in ClassOf(Nameable, ScopeRef)
  BY <1>1, OpenTyped
<1>3. PICK cls : cls = AddAst(classes[class_], f, loc.dest, loc.expr)
  OBVIOUS
<1>4. classes' = [classes EXCEPT ![class_] = cls]
  BY <1>3 DEF AddsStatement
<1>5. ChangesOpenClass /\ classes'[class_] = cls /\ class_ \in DOMAIN classes
  BY <1>1, <1>4, ClassReplaced
<1>. QED
  BY <1>2, <1>3, <1>5, AddAstEffect

LEMMA AddsConstantEffect ==
  ASSUME Inv, NEW name \in Names, AddsConstant(name)
  PROVE  LET old == classes[class_]
             n   == Len(old.fields) + 1
         IN  /\ ChangesOpenClass /\ class_ \in DOMAIN classes
             /\ SameKind(classes'[class_], old)
             /\ OneMoreField(classes'[class_], old, {"static"})
             /\ OneMoreStatement(classes'[class_], old, Constructor,
                                 Place("StaticField", class_, n), Literal(IntClass, n))
<1>1. Site \in OpenSites /\ Site = "EnumBody"
  BY DEF AddsConstant, OpenSites, BodySites
<1>2. /\ classes[class_] \in ClassOf(Nameable, ScopeRef) /\ class_ \in Nameable
      /\ Len(classes[class_].fields) \in Nat
  <2>1. classes[class_].type = "enum"
    BY <1>1 DEF Inv, UnderConstruction
  <2>. QED
    BY <1>1, <2>1, OpenTyped DEF Nameable
<1>3. PICK old \in ClassOf(Nameable, ScopeRef) : old = classes[class_]
  BY <1>2
<1>4. PICK d : d = DefineStaticField(old, name, class_, FALSE)
  OBVIOUS
<1>5. PICK priv \in BOOLEAN : priv = FALSE
  OBVIOUS
<1>6. /\ d \in ClassOf(Nameable, ScopeRef) /\ SameFunctions(d, old) /\ SameKind(d, old)
      /\ OneMoreField(d, old, Privacy(priv) \cup {"static"})
  BY <1>2, <1>4, <1>5, CreateFieldTyped, CreateFieldEffect
<1>7. Privacy(priv) \cup {"static"} = {"static"}
  BY <1>5 DEF Privacy
<1>8. PICK n : n = Len(old.fields) + 1
  OBVIOUS
<1>9. Len(d.fields) = n /\ Ordinal(d) = n
  BY <1>6, <1>8 DEF OneMoreField, Ordinal
<1>10. PICK cls :
         cls = AddAst(d, Constructor, Place("StaticField", class_, n), Literal(IntClass, n))
  OBVIOUS
<1>11. /\ SameFields(cls, d) /\ SameKind(cls, d)
       /\ OneMoreStatement(cls, d, Constructor, Place("StaticField", class_, n),
                           Literal(IntClass, n))
  BY <1>6, <1>10, AddAstEffect
<1>12. classes' = [classes EXCEPT ![class_] = cls]
  BY <1>3, <1>4, <1>9, <1>10 DEF AddsConstant
<1>13. ChangesOpenClass /\ classes'[class_] = cls /\ class_ \in DOMAIN classes
  BY <1>1, <1>12, ClassReplaced
<1>14. /\ SameKind(cls, old) /\ OneMoreField(cls, old, {"static"})
       /\ OneMoreStatement(cls, old, Constructor, Place("StaticField", class_, n),
                           Literal(IntClass, n))
  BY <1>6, <1>7, <1>11 DEF SameKind, SameFields, SameFunctions, OneMoreField, OneMoreStatement
<1>. QED
  BY <1>3, <1>8, <1>13, <1>14

(* A function without statements is added, with a scope s or none. *)
OneMoreScoped(new, cls, s, private) ==
  /\ Len(new.functions) = Len(cls.functions) + 1
  /\ \A i \in 1 .. Len(cls.functions) :
       /\ new.functions[i].ast = cls.functions[i].ast
       /\ new.functions[i].mods = cls.functions[i].mods
       /\ new.functions[i].scope = cls.functions[i].scope
  /\ new.functions[Len(cls.functions) + 1].ast = <<>>
  /\ new.functions[Len(cls.functions) + 1].scope = s
  /\ ("private" \in new.functions[Len(cls.functions) + 1].mods) = private

LEMMA NamesFunctionEffect ==
  ASSUME Inv, NEW name \in Names, NamesFunction(name)
  PROVE  /\ ChangesOpenClass /\ class_ \in DOMAIN classes
         /\ SameFields(classes'[class_], classes[class_])
         /\ SameKind(classes'[class_], classes[class_])
         /\ \/ /\ UNCHANGED <<scopes, scope_>>
               /\ OneMoreScoped(classes'[class_], classes[class_], Nil, private_)
            \/ /\ PushScope(scope_)
               /\ OneMoreScoped(classes'[class_], classes[class_], Len(scopes) + 1, private_)
<1>1. Site \in OpenSites /\ Site \in {"FuncName", "MethodName"}
  BY DEF NamesFunction, OpenSites, BodySites
<1>2. /\ classes[class_] \in ClassOf(Nameable, ScopeRef)
      /\ Len(classes[class_].functions) \in Nat
  BY <1>1, OpenTyped
<1>3. PICK old \in ClassOf(Nameable, ScopeRef) : old = classes[class_]
  BY <1>2
<1>4. PICK d : d = Declare(name)
  OBVIOUS
<1>5. d \in ClassOf(Nameable, ScopeRef)
  BY <1>1, <1>4, DeclareTyped
<1>6. \E mods : /\ SameFields(d, old) /\ SameKind(d, old) /\ OneMoreFunction(d, old, mods)
                /\ ("private" \in mods) = private_
  <2>1. /\ ("private" \in Privacy(private_)) = private_
        /\ ("private" \in Privacy(private_) \cup {"static"}) = private_
    BY DEF Privacy, Inv, TypeOK
  <2>2. \/ d = DefineFunction(old, name, loc.ref, private_)
        \/ d = DefineStaticFunction(old, name, loc.ref, private_)
    BY <1>3, <1>4 DEF Declare
  <2>3. CASE d = DefineFunction(old, name, loc.ref, private_)
    BY <2>1, <2>3, DeclareEffect
  <2>4. CASE d = DefineStaticFunction(old, name, loc.ref, private_)
    BY <2>1, <2>4, DeclareEffect
  <2>. QED
    BY <2>2, <2>3, <2>4
<1>7. CASE classes' = [classes EXCEPT ![class_] = d] /\ UNCHANGED <<scopes, scope_>>
  <2>1. ChangesOpenClass /\ classes'[class_] = d /\ class_ \in DOMAIN classes
    BY <1>1, <1>7, ClassReplaced
  <2>2. SameFields(d, old) /\ SameKind(d, old) /\ OneMoreScoped(d, old, Nil, private_)
    BY <1>6 DEF OneMoreFunction, OneMoreScoped
  <2>. QED
    BY <1>3, <1>7, <2>1, <2>2
<1>8. CASE /\ PushScope(scope_)
           /\ classes' = [classes EXCEPT ![class_] = AttachScope(d, Len(scopes) + 1)]
  <2>1. PICK s : s = Len(scopes) + 1
    OBVIOUS
  <2>2. PICK cls : cls = AttachScope(d, s)
    OBVIOUS
  <2>3. SameFields(cls, d) /\ SameKind(cls, d) /\ LastScoped(cls, d, s)
    BY <1>5, <2>2, AttachScopeEffect
  <2>4. classes' = [classes EXCEPT ![class_] = cls]
    BY <1>8, <2>1, <2>2
  <2>5. ChangesOpenClass /\ classes'[class_] = cls /\ class_ \in DOMAIN classes
    BY <1>1, <2>4, ClassReplaced
  <2>6. SameFields(cls, old) /\ SameKind(cls, old)
    BY <1>6, <2>3 DEF SameFields, SameKind
  <2>7. OneMoreScoped(cls, old, s, private_)
    <3>1. PICK mods : OneMoreFunction(d, old, mods) /\ ("private" \in mods) = private_
      BY <1>6
    <3>2. PICK n \in Nat : n = Len(old.functions)
      BY <1>2, <1>3
    <3>3. /\ Len(d.functions) = n + 1 /\ n + 1 \in 1 .. Len(d.functions)
          /\ \A i \in 1 .. n : i \in 1 .. Len(d.functions) /\ i # n + 1
      BY <3>1, <3>2 DEF OneMoreFunction
    <3>4. /\ Len(cls.functions) = n + 1
          /\ \A i \in 1 .. n : /\ cls.functions[i].ast = old.functions[i].ast
                               /\ cls.functions[i].mods = old.functions[i].mods
                               /\ cls.functions[i].scope = old.functions[i].scope
      BY <2>3, <3>1, <3>2, <3>3 DEF LastScoped, OneMoreFunction
    <3>5. /\ cls.functions[n + 1].ast = <<>> /\ cls.functions[n + 1].scope = s
          /\ cls.functions[n + 1].mods = mods
      BY <2>3, <3>1, <3>2, <3>3 DEF LastScoped, OneMoreFunction
    <3>. QED
      BY <3>1, <3>2, <3>4, <3>5 DEF OneMoreScoped
  <2>. QED
    BY <1>3, <1>8, <2>1, <2>5, <2>6, <2>7
<1>. QED
  BY <1>4, <1>7, <1>8 DEF NamesFunction

LEMMA OpensClassEffect ==
  ASSUME Inv, NEW name, NEW super, OpensClass(name, super)
  PROVE  LET n   == Len(classes) + 1
             new == classes'[n]
         IN  /\ class_' = n /\ Len(classes') = n /\ DOMAIN classes' = DOMAIN classes \cup {n}
             /\ n \notin DOMAIN classes
             /\ \A c \in DOMAIN classes : classes'[c] = classes[c]
             /\ new.fields = <<>> /\ new.type = loc.kw
             /\ new.mods = Privacy(private_) \cup
                             (IF loc.kw \in {"object", "enum"} THEN {"final"} ELSE {})
             /\ IF loc.kw = "proto" THEN new.functions = <<>>
                ELSE new.functions = <<NewFunction(name, {}, VoidClass)>>
             /\ private_' = FALSE
<1>. DEFINE mods == Privacy(private_) \cup
                      (IF loc.kw \in {"object", "enum"} THEN {"final"} ELSE {})
<1>1. PICK cls : cls = NewClass(name, mods, super, loc.kw)
  OBVIOUS
<1>2. classes' = Append(classes, cls) /\ class_' = Len(classes) + 1 /\ private_' = FALSE
  BY <1>1 DEF OpensClass, OpenClass
<1>3. /\ cls.fields = <<>> /\ cls.mods = mods /\ cls.type = loc.kw
      /\ IF loc.kw = "proto" THEN cls.functions = <<>>
         ELSE cls.functions = <<NewFunction(name, {}, VoidClass)>>
  BY <1>1, NewClassEffect
<1>. HIDE DEF mods
<1>4. classes \in Seq(ClassOf(ClassRef, ScopeRef)) /\ Len(classes) \in Nat
      /\ DOMAIN classes = 1 .. Len(classes)
  BY DEF Inv, TypeOK
<1>5. /\ Len(classes') = Len(classes) + 1 /\ DOMAIN classes' = 1 .. Len(classes) + 1
      /\ \A c \in 1 .. Len(classes) : classes'[c] = classes[c]
      /\ classes'[Len(classes) + 1] = cls
  BY <1>2, <1>4
<1>6. DOMAIN classes' = DOMAIN classes \cup {Len(classes) + 1}
      /\ Len(classes) + 1 \notin DOMAIN classes
  BY <1>4, <1>5
<1>. QED
  BY <1>2, <1>3, <1>4, <1>5, <1>6 DEF mods

-----------------------------------------------------------------------------
(* `private' is spent on what it qualifies *)

(* After a declarator the last field of the class is the one it declared,  *)
(* private if a `private' is pending.                                      *)
LastField ==
  Site = "FieldNext" =>
    /\ Len(classes[class_].fields) > 0
    /\ private_ => "private" \in LastMods(classes[class_].fields)

LEMMA LastFieldKept ==
  ASSUME Inv, LastField, [Next]_vars
  PROVE  LastField'
<1>1. CASE UNCHANGED vars
  BY <1>1 DEF LastField, vars, Site, LastMods
<1>2. CASE Moves
  BY <1>2 DEF LastField, Moves, LastMods
<1>3. ASSUME NEW type, AddsField(type) PROVE LastField'
  <2>1. OneMoreField(classes'[class_], classes[class_], FieldMods(classes[class_], private_))
    BY <1>3, AddsFieldEffect
  <2>2. PICK n \in Nat : n = Len(classes[class_].fields)
    BY <1>3, OpenTyped DEF AddsField, OpenSites, BodySites, FieldSites
  <2>3. class_' = class_ /\ private_' = private_
    BY <1>3 DEF AddsField
  <2>4. PICK new : new = classes'[class_]
    OBVIOUS
  <2>5. Len(new.fields) = n + 1 /\ new.fields[n + 1].mods = FieldMods(classes[class_], private_)
    BY <2>1, <2>2, <2>4 DEF OneMoreField
  <2>6. private_ => "private" \in FieldMods(classes[class_], private_)
    BY DEF FieldMods, Privacy
  <2>7. Len(new.fields) > 0 /\ (private_ => "private" \in new.fields[Len(new.fields)].mods)
    BY <2>5, <2>6
  <2>. QED
    BY <2>3, <2>4, <2>7 DEF LastField, LastMods
<1>4. ASSUME NEW f, AddsStatement(f) PROVE LastField'
  <2>1. SameFields(classes'[class_], classes[class_])
    BY <1>4, AddsStatementEffect
  <2>. QED
    BY <1>4, <2>1 DEF AddsStatement, LastField, SameFields, LastMods
<1>5. CASE Builds
  <2>1. CASE Site' = "FieldNext"
    <3>1. (\E type : AddsField(type)) \/ \E f : AddsStatement(f)
      BY <1>5, <2>1 DEF Builds, Begins, Leaves, ClosesFunction, OpensClass, NamesFunction,
         AddsConstant, AddsLocal
    <3>. QED
      BY <3>1, <1>3, <1>4
  <2>2. CASE Site' # "FieldNext"
    BY <2>2 DEF LastField
  <2>. QED
    BY <2>1, <2>2
<1>. QED
  BY <1>1, <1>2, <1>5, StepKinds

(* A pending `private' disappears where a class opens, where a function is *)
(* named, or at the end of a field declaration; ParseLocals, which would   *)
(* clear it too, never sees one.                                           *)
LEMMA PrivateSpent ==
  ASSUME Inv, PrivateConfined, Next, private_, ~private_'
  PROVE  \/ \E name, super : OpenClass(name, super)
         \/ \E name \in Names : NamesFunction(name)
         \/ pc = "FieldNext"
<1>1. CASE Unexpected
  BY <1>1 DEF Unexpected
<1>2. CASE ExpectSymbol
  BY <1>2 DEF ExpectSymbol
<1>3. CASE ParseNext
  BY <1>3 DEF ParseNext
<1>4. CASE DefinitionPrivate
  BY <1>4 DEF DefinitionPrivate
<1>5. CASE DefinitionKeyword
  BY <1>5 DEF DefinitionKeyword, Opens
<1>6. CASE DefinitionEof
  BY <1>6 DEF DefinitionEof, ReturnDefinition
<1>7. CASE DefinitionName
  BY <1>7 DEF DefinitionName
<1>8. CASE HeadExtends
  BY <1>8 DEF HeadExtends
<1>9. CASE HeadParent
  BY <1>9 DEF HeadParent
<1>10. CASE HeadOpen
  BY <1>10 DEF HeadOpen
<1>11. CASE BodyPrivate
  BY <1>11 DEF BodyPrivate
<1>12. CASE BodyVar
  BY <1>12 DEF BodyVar
<1>13. CASE BodyFunction
  BY <1>13 DEF BodyFunction
<1>14. CASE BodyClose
  BY <1>14 DEF BodyClose, ReturnDefinition
<1>15. CASE FunctionName
  BY <1>15, FunctionNameKind
<1>16. CASE FunctionClose
  BY <1>16 DEF FunctionClose
<1>17. CASE EnumConstant
  BY <1>17 DEF EnumConstant
<1>18. CASE EnumSeparator
  BY <1>18 DEF EnumSeparator
<1>19. CASE DeclaratorName
  BY <1>19 DEF DeclaratorName
<1>20. CASE FieldType
  BY <1>20 DEF FieldType
<1>21. CASE LocalType
  BY <1>21 DEF LocalType, DeclareLocal
<1>22. CASE ParamType
  BY <1>22 DEF ParamType
<1>23. CASE ParamDefault
  BY <1>23 DEF ParamDefault, DeclareLocal
<1>24. CASE ParamsClose
  BY <1>24 DEF ParamsClose
<1>25. CASE DeclarationNext
  <2>1. pc # "LocalNext"
    BY DEF PrivateConfined, Site, ExpressionSites, FunctionSites
  <2>. QED
    BY <1>25, <2>1 DEF DeclarationNext, Reads
<1>26. CASE Initialiser
  BY <1>26 DEF Initialiser, BeginExpression
<1>27. CASE Statement
  BY <1>27 DEF Statement, BeginExpression
<1>28. CASE Assign
  BY <1>28 DEF Assign, BeginExpression
<1>29. CASE StatementEnd
  BY <1>29 DEF StatementEnd
<1>30. CASE ParseUnaryExpr
  BY <1>30 DEF ParseUnaryExpr
<1>31. CASE BinaryOperator
  BY <1>31 DEF BinaryOperator
<1>32. CASE EndExpression
  BY <1>32 DEF EndExpression
<1>33. CASE Terminated
  BY <1>33 DEF Terminated, vars
<1>. QED
  BY <1>1, <1>2, <1>3, <1>4, <1>5, <1>6, <1>7, <1>8, <1>9, <1>10, <1>11, <1>12, <1>13, <1>14,
     <1>15, <1>16, <1>17, <1>18, <1>19, <1>20, <1>21, <1>22, <1>23, <1>24, <1>25, <1>26,
     <1>27, <1>28, <1>29, <1>30, <1>31, <1>32, <1>33 DEF Next

(* Neither the functions nor the fields of the class in force grow. *)
GrowsNot ==
  class_ # Nil =>
    /\ ~(Len(classes'[class_].functions) > Len(classes[class_].functions))
    /\ ~(Len(classes'[class_].fields) > Len(classes[class_].fields))

LEMMA SameGrowsNot ==
  ASSUME Inv, class_ # Nil => classes'[class_] = classes[class_]
  PROVE  GrowsNot
<1>1. ASSUME class_ # Nil
      PROVE  /\ Len(classes[class_].functions) \in Nat /\ Len(classes[class_].fields) \in Nat
  <2>1. classes[class_] \in ClassOf(ClassRef, ScopeRef)
    BY <1>1 DEF Inv, TypeOK, ClassRef, Nil
  <2>. QED
    BY <2>1 DEF ClassOf
<1>2. \A n \in Nat : ~(n > n)
  OBVIOUS
<1>. QED
  BY <1>1, <1>2 DEF GrowsNot

LEMMA PrivateQualifiesStep ==
  ASSUME Inv, PrivateConfined, LastField, [Next]_vars
  PROVE  LET new    == Len(classes') > Len(classes)
             mine   == classes[class_]
             mine_  == classes'[class_]
             method == class_ # Nil /\ Len(mine_.functions) > Len(mine.functions)
             field  == class_ # Nil /\ Len(mine_.fields) > Len(mine.fields)
         IN  vars' = vars \/
             (/\ new => private_ = ("private" \in LastMods(classes'))
              /\ method => private_ = ("private" \in LastMods(mine_.functions))
              /\ field => private_ = ("private" \in LastMods(mine_.fields))
              /\ private_ /\ ~private_' =>
                   \/ new \/ method
                   \/ pc = "FieldNext" /\ "private" \in LastMods(mine.fields))
<1>. DEFINE new    == Len(classes') > Len(classes)
            mine   == classes[class_]
            mine_  == classes'[class_]
            method == class_ # Nil /\ Len(mine_.functions) > Len(mine.functions)
            field  == class_ # Nil /\ Len(mine_.fields) > Len(mine.fields)
            Goal   == /\ new => private_ = ("private" \in LastMods(classes'))
                      /\ method => private_ = ("private" \in LastMods(mine_.functions))
                      /\ field => private_ = ("private" \in LastMods(mine_.fields))
            Spent  == private_ /\ ~private_' =>
                        \/ new \/ method
                        \/ pc = "FieldNext" /\ "private" \in LastMods(mine.fields)
<1>1. Len(classes) \in Nat /\ private_ \in BOOLEAN /\ \A n \in Nat : ~(n > n)
  BY DEF Inv, TypeOK
<1>2. ASSUME UNCHANGED classes PROVE Goal
  <2>1. GrowsNot /\ ~new
    BY <1>1, <1>2, SameGrowsNot
  <2>. QED
    BY <2>1 DEF GrowsNot
<1>3. ASSUME NEW name, NEW super, OpensClass(name, super) PROVE Goal /\ new
  <2>1. PICK n : n = Len(classes) + 1
    OBVIOUS
  <2>2. PICK cls : cls = classes'[n]
    OBVIOUS
  <2>3. /\ Len(classes') = n
        /\ \A c \in DOMAIN classes : classes'[c] = classes[c]
        /\ cls.mods = Privacy(private_) \cup
                        (IF loc.kw \in {"object", "enum"} THEN {"final"} ELSE {})
    BY <1>3, <2>1, <2>2, OpensClassEffect
  <2>4. private_ = ("private" \in cls.mods)
    BY <1>1, <2>3 DEF Privacy
  <2>5. new /\ LastMods(classes') = cls.mods
    BY <1>1, <2>1, <2>2, <2>3 DEF LastMods
  <2>6. class_ # Nil => class_ \in DOMAIN classes
    BY DEF Inv, TypeOK, ClassRef, Nil
  <2>7. GrowsNot
    BY <2>3, <2>6, SameGrowsNot
  <2>. QED
    BY <2>4, <2>5, <2>7 DEF GrowsNot
<1>4. ASSUME ChangesOpenClass PROVE ~new
  BY <1>1, <1>4 DEF ChangesOpenClass
<1>5. ASSUME Site \in OpenSites
      PROVE  class_ # Nil /\ Len(mine.functions) \in Nat /\ Len(mine.fields) \in Nat
  <2>1. classes[class_] \in ClassOf(Nameable, ScopeRef) /\ class_ # Nil
    BY <1>5, OpenTyped DEF Nil
  <2>. QED
    BY <2>1 DEF ClassOf
<1>6. ASSUME NEW name \in Names, NamesFunction(name) PROVE Goal /\ method
  <2>1. class_ # Nil /\ Len(mine.functions) \in Nat /\ Len(mine.fields) \in Nat
    BY <1>5, <1>6 DEF NamesFunction, OpenSites, BodySites
  <2>2. PICK s : /\ ChangesOpenClass /\ SameFields(mine_, mine)
                 /\ OneMoreScoped(mine_, mine, s, private_)
    BY <1>6, NamesFunctionEffect
  <2>3. PICK n \in Nat : n = Len(mine.functions)
    BY <2>1
  <2>4. Len(mine_.functions) = n + 1 /\ ("private" \in mine_.functions[n + 1].mods) = private_
    BY <2>2, <2>3 DEF OneMoreScoped
  <2>5. method /\ LastMods(mine_.functions) = mine_.functions[n + 1].mods
    BY <2>1, <2>3, <2>4 DEF LastMods
  <2>6. ~field /\ ~new
    BY <1>1, <1>4, <2>1, <2>2 DEF SameFields
  <2>. QED
    BY <2>4, <2>5, <2>6
<1>7. ASSUME NEW mods, Site \in OpenSites, ChangesOpenClass, OneMoreField(mine_, mine, mods),
             Len(mine_.functions) = Len(mine.functions), private_ = ("private" \in mods)
      PROVE  Goal
  <2>1. class_ # Nil /\ Len(mine.functions) \in Nat /\ Len(mine.fields) \in Nat
    BY <1>5, <1>7
  <2>2. PICK n \in Nat : n = Len(mine.fields)
    BY <2>1
  <2>3. Len(mine_.fields) = n + 1 /\ mine_.fields[n + 1].mods = mods
    BY <1>7, <2>2 DEF OneMoreField
  <2>4. LastMods(mine_.fields) = mods
    BY <2>3 DEF LastMods
  <2>5. ~method /\ ~new
    BY <1>1, <1>4, <1>7, <2>1
  <2>. QED
    BY <1>7, <2>4, <2>5
<1>8. ASSUME NEW type, AddsField(type) PROVE Goal
  <2>1. /\ ChangesOpenClass /\ SameFunctions(mine_, mine)
        /\ OneMoreField(mine_, mine, FieldMods(mine, private_))
    BY <1>8, AddsFieldEffect
  <2>2. private_ = ("private" \in FieldMods(mine, private_))
    BY <1>1 DEF FieldMods, Privacy
  <2>3. Site \in OpenSites
    BY <1>8 DEF AddsField, OpenSites, BodySites, FieldSites
  <2>. QED
    BY <1>7, <2>1, <2>2, <2>3 DEF SameFunctions
<1>9. ASSUME NEW name \in Names, AddsConstant(name) PROVE Goal
  <2>1. /\ ChangesOpenClass /\ OneMoreField(mine_, mine, {"static"})
        /\ Len(mine_.functions) = Len(mine.functions)
    BY <1>9, AddsConstantEffect DEF OneMoreStatement
  <2>2. Site \in OpenSites /\ ~private_
    BY <1>9 DEF AddsConstant, OpenSites, BodySites, PrivateConfined
  <2>3. private_ = ("private" \in {"static"})
    BY <1>1, <2>2
  <2>. QED
    BY <1>7, <2>1, <2>2, <2>3
<1>10. ASSUME NEW f, AddsStatement(f) PROVE Goal
  <2>1. /\ ChangesOpenClass /\ SameFields(mine_, mine)
        /\ Len(mine_.functions) = Len(mine.functions)
    BY <1>10, AddsStatementEffect DEF OneMoreStatement
  <2>2. Site \in OpenSites
    BY <1>10 DEF AddsStatement, OpenSites, BodySites, FieldSites, FunctionSites
  <2>3. ~method /\ ~field /\ ~new
    BY <1>1, <1>4, <1>5, <2>1, <2>2 DEF SameFields
  <2>. QED
    BY <2>3
<1>11. ASSUME Next PROVE Goal
  <2>1. CASE Moves \/ Begins \/ Leaves \/ ClosesFunction \/ \E type : AddsLocal(type)
    BY <1>2, <2>1 DEF Moves, Begins, Leaves, ClosesFunction, AddsLocal
  <2>2. CASE \E name \in Names : \E super \in ClassRef : OpensClass(name, super)
    BY <1>3, <2>2
  <2>3. CASE \E name \in Names : NamesFunction(name)
    BY <1>6, <2>3
  <2>4. CASE \E name \in Names : AddsConstant(name)
    BY <1>9, <2>4
  <2>5. CASE \E type : AddsField(type)
    BY <1>8, <2>5
  <2>6. CASE \E f : AddsStatement(f)
    BY <1>10, <2>6
  <2>. HIDE DEF Goal
  <2>. QED
    BY <1>11, <2>1, <2>2, <2>3, <2>4, <2>5, <2>6, StepKinds DEF Builds
<1>12. ASSUME Next PROVE Spent
  <2>1. SUFFICES ASSUME private_, ~private_' PROVE Spent
    OBVIOUS
  <2>2. CASE \E name, super : OpenClass(name, super)
    <3>1. PICK cls : classes' = Append(classes, cls)
      BY <2>2 DEF OpenClass
    <3>2. classes \in Seq(ClassOf(ClassRef, ScopeRef))
      BY DEF Inv, TypeOK
    <3>3. Len(classes') = Len(classes) + 1
      BY <3>1, <3>2
    <3>. QED
      BY <1>1, <3>3
  <2>3. CASE \E name \in Names : NamesFunction(name)
    BY <1>6, <2>3
  <2>4. CASE pc = "FieldNext"
    BY <2>1, <2>4 DEF LastField, Site, ExpressionSites
  <2>. QED
    BY <1>12, <2>1, <2>2, <2>3, <2>4, PrivateSpent
<1>. QED
  <2>. HIDE DEF Goal, Spent
  <2>1. vars' = vars \/ (Goal /\ Spent)
    BY <1>11, <1>12
  <2>. QED
    BY <2>1 DEF Goal, Spent

LEMMA LastFieldHolds == Spec => []LastField
<1>1. Init => LastField
  BY DEF Init, LastField, Site, ExpressionSites
<1>2. Inv /\ LastField /\ [Next]_vars => LastField'
  BY LastFieldKept
<1>. QED
  BY <1>1, <1>2, InvHolds, PTL DEF Spec

(* What a step declares is private exactly when a `private' was pending,   *)
(* and a pending `private' disappears only onto the declaration it         *)
(* qualified: ParseDefinition and ParseFields spend private_ there.        *)
THEOREM PrivateIsSpent == Spec => PrivateQualifies
<1>. DEFINE Step ==
       LET new    == Len(classes') > Len(classes)
           mine   == classes[class_]
           mine_  == classes'[class_]
           method == class_ # Nil /\ Len(mine_.functions) > Len(mine.functions)
           field  == class_ # Nil /\ Len(mine_.fields) > Len(mine.fields)
       IN  /\ new => private_ = ("private" \in LastMods(classes'))
           /\ method => private_ = ("private" \in LastMods(mine_.functions))
           /\ field => private_ = ("private" \in LastMods(mine_.fields))
           /\ private_ /\ ~private_' =>
                \/ new \/ method
                \/ pc = "FieldNext" /\ "private" \in LastMods(mine.fields)
<1>1. Inv /\ PrivateConfined /\ LastField /\ [Next]_vars => [Step]_vars
  BY PrivateQualifiesStep
<1>2. Spec => [][Step]_vars
  <2>. HIDE DEF Step
  <2>. QED
    BY <1>1, InvHolds, LastFieldHolds, PrivateStaysConfined, PTL DEF Spec
<1>. QED
  BY <1>2 DEF PrivateQualifies

-----------------------------------------------------------------------------
(* The ordinals of an enum *)

EnumStatement(c, k) == [dest |-> Place("StaticField", c, k), value |-> Literal(IntClass, k)]

(* The constructor of the enum c gives its constants their ordinals. *)
EnumFilled(cls, c) ==
  /\ IsFinal(cls)
  /\ 1 <= Len(cls.functions)
  /\ cls.functions[Constructor].ast = [k \in DOMAIN cls.fields |-> EnumStatement(c, k)]

(* Enums are filled at all times, and built by nothing but EnumConstant. *)
Enums ==
  /\ \A c \in DOMAIN classes : classes[c].type = "enum" => EnumFilled(classes[c], c)
  /\ Site \in {"Head", "Extends"} => loc.kw # "enum"
  /\ Site \in OpenSites \ EnumSites => classes[class_].type # "enum"

LEMMA EnumStatementAdded ==
  ASSUME NEW c, NEW m \in Nat
  PROVE  Append([k \in 1 .. m |-> EnumStatement(c, k)], EnumStatement(c, m + 1))
           = [k \in 1 .. m + 1 |-> EnumStatement(c, k)]
<1>1. PICK f : f = [k \in 1 .. m + 1 |-> EnumStatement(c, k)]
  OBVIOUS
<1>2. \A k \in 1 .. m + 1 : f[k] = EnumStatement(c, k)
  BY <1>1
<1>3. Append([k \in 1 .. m |-> f[k]], f[m + 1]) = [k \in 1 .. m + 1 |-> f[k]]
  OBVIOUS
<1>4. [k \in 1 .. m |-> f[k]] = [k \in 1 .. m |-> EnumStatement(c, k)]
  BY <1>2
<1>. QED
  BY <1>1, <1>2, <1>3, <1>4

(* A class that is no enum stays none, whatever is added to it. *)
LEMMA OtherClassChanged ==
  ASSUME Enums, ChangesOpenClass, SameKind(classes'[class_], classes[class_]),
         classes[class_].type # "enum"
  PROVE  \A c \in DOMAIN classes' : classes'[c].type = "enum" => EnumFilled(classes'[c], c)
BY DEF Enums, ChangesOpenClass, SameKind

LEMMA EnumAdded ==
  ASSUME Inv, Enums, NEW name \in Names, AddsConstant(name)
  PROVE  EnumFilled(classes'[class_], class_)
<1>1. /\ classes[class_].type = "enum" /\ class_ \in DOMAIN classes
      /\ classes[class_] \in ClassOf(Nameable, ScopeRef)
  <2>1. Site = "EnumBody" /\ Site \in OpenSites
    BY DEF AddsConstant, OpenSites, BodySites
  <2>. QED
    BY <2>1, OpenTyped, AddsConstantEffect DEF Inv, UnderConstruction
<1>2. PICK old : old = classes[class_] /\ old \in ClassOf(Nameable, ScopeRef)
  BY <1>1
<1>3. PICK new : new = classes'[class_]
  OBVIOUS
<1>4. PICK m \in Nat : m = Len(old.fields) /\ DOMAIN old.fields = 1 .. m
  BY <1>2 DEF ClassOf
<1>5. EnumFilled(old, class_)
  BY <1>1, <1>2 DEF Enums
<1>6. /\ SameKind(new, old) /\ OneMoreField(new, old, {"static"})
      /\ OneMoreStatement(new, old, Constructor,
                          Place("StaticField", class_, m + 1), Literal(IntClass, m + 1))
  BY <1>2, <1>3, <1>4, AddsConstantEffect
<1>7. Len(old.functions) \in Nat /\ 1 \in 1 .. Len(old.functions)
  BY <1>2, <1>5 DEF ClassOf, EnumFilled
<1>8. new.functions[Constructor].ast =
        Append(old.functions[Constructor].ast, EnumStatement(class_, m + 1))
  BY <1>6, <1>7 DEF OneMoreStatement, Constructor, EnumStatement
<1>9. new.functions[Constructor].ast = [k \in 1 .. m + 1 |-> EnumStatement(class_, k)]
  BY <1>4, <1>5, <1>8, EnumStatementAdded DEF EnumFilled
<1>10. DOMAIN new.fields = 1 .. m + 1 /\ 1 <= Len(new.functions)
  BY <1>4, <1>6, <1>7 DEF OneMoreField, OneMoreStatement
<1>11. IsFinal(new)
  BY <1>5, <1>6 DEF SameKind, IsFinal, EnumFilled
<1>. QED
  BY <1>3, <1>9, <1>10, <1>11 DEF EnumFilled

LEMMA EnumsKept ==
  ASSUME Inv, Enums, [Next]_vars
  PROVE  Enums'
<1>. DEFINE Filled == \A c \in DOMAIN classes :
                       classes[c].type = "enum" => EnumFilled(classes[c], c)
<1>0. /\ OpenSites \ EnumSites = (BodySites \ EnumSites) \cup FunctionSites
      /\ {"Head", "Extends"} \subseteq HeadSites
      /\ HeadSites \cap OpenSites = {}
  BY DEF OpenSites, EnumSites, BodySites, FieldSites, FunctionSites, HeadSites
<1>1. CASE UNCHANGED vars
  BY <1>1 DEF Enums, vars, Site, EnumFilled
<1>2. CASE Moves
  <2>1. Filled'
    BY <1>2 DEF Moves, Enums, EnumFilled
  <2>2. Site' \in {"Head", "Extends"} => loc'.kw # "enum"
    BY <1>2 DEF Moves, Enums
  <2>3. Site' \in OpenSites \ EnumSites => Site \in OpenSites \ EnumSites
    BY <1>2 DEF Moves, StaysInRegion, Regions, Stopped, OpenSites, EnumSites, BodySites,
       FieldSites, FunctionSites, HeadSites
  <2>4. Site' \in OpenSites \ EnumSites => classes'[class_'].type # "enum"
    BY <1>2, <2>3 DEF Moves, Enums
  <2>. QED
    BY <2>1, <2>2, <2>4 DEF Enums
<1>3. CASE Begins \/ Leaves
  <2>1. Filled' /\ Site' \in {"Definition", "Parse"}
    BY <1>3 DEF Begins, Leaves, Enums, EnumFilled
  <2>. QED
    BY <2>1 DEF Enums, OpenSites, BodySites, FieldSites, FunctionSites
<1>4. ASSUME NEW name, NEW super, OpensClass(name, super) PROVE Enums'
  <2>1. PICK n : n = Len(classes) + 1
    OBVIOUS
  <2>2. PICK new : new = classes'[n]
    OBVIOUS
  <2>3. /\ class_' = n /\ DOMAIN classes' = DOMAIN classes \cup {n}
        /\ \A c \in DOMAIN classes : classes'[c] = classes[c]
        /\ new.fields = <<>> /\ new.type = loc.kw
        /\ new.mods = Privacy(private_) \cup
                        (IF loc.kw \in {"object", "enum"} THEN {"final"} ELSE {})
        /\ IF loc.kw = "proto" THEN new.functions = <<>>
           ELSE new.functions = <<NewFunction(name, {}, VoidClass)>>
    BY <1>4, <2>1, <2>2, OpensClassEffect
  <2>4. new.type = "enum" => EnumFilled(new, n)
    <3>1. SUFFICES ASSUME new.type = "enum" PROVE EnumFilled(new, n)
      OBVIOUS
    <3>2. IsFinal(new)
      BY <2>3, <3>1 DEF IsFinal
    <3>3. PICK func : func = NewFunction(name, {}, VoidClass)
      OBVIOUS
    <3>4. func.ast = <<>>
      BY <3>3 DEF NewFunction
    <3>5. new.functions = <<func>>
      BY <2>3, <3>1, <3>3
    <3>6. Len(new.functions) = 1 /\ new.functions[1].ast = <<>>
      BY <3>4, <3>5
    <3>7. [k \in DOMAIN new.fields |-> EnumStatement(n, k)] = <<>>
      BY <2>3
    <3>. QED
      BY <3>2, <3>6, <3>7 DEF EnumFilled, Constructor
  <2>5. Filled'
    BY <2>2, <2>3, <2>4 DEF Enums
  <2>6. Site' \in {"EnumOpen", "Body"} /\ (Site' = "Body" => loc.kw # "enum")
    BY <1>4 DEF OpensClass, Enums
  <2>7. Site' \notin {"Head", "Extends"} /\ "EnumOpen" \in EnumSites
    BY <2>6 DEF EnumSites
  <2>. QED
    BY <2>2, <2>3, <2>5, <2>6, <2>7 DEF Enums
<1>5. ASSUME Site \in OpenSites \ EnumSites, Site' \in OpenSites, ChangesOpenClass,
             SameKind(classes'[class_], classes[class_]), class_' = class_
      PROVE  Enums'
  <2>1. Filled'
    BY <1>5, OtherClassChanged DEF Enums
  <2>2. Site' \notin {"Head", "Extends"} /\ classes'[class_'].type # "enum"
    BY <1>0, <1>5 DEF Enums, SameKind
  <2>. QED
    BY <2>1, <2>2 DEF Enums
<1>. USE DEF OpenSites, BodySites, FieldSites, FunctionSites, EnumSites
<1>6. ASSUME UNCHANGED <<classes, class_>>, Site \in OpenSites \ EnumSites, Site' \in OpenSites
      PROVE  Enums'
  BY <1>5, <1>6 DEF ChangesOpenClass, SameKind
<1>7. CASE ClosesFunction \/ \E type : AddsLocal(type)
  BY <1>6, <1>7 DEF ClosesFunction, AddsLocal
<1>8. ASSUME NEW name \in Names, NamesFunction(name) PROVE Enums'
  BY <1>5, <1>8, NamesFunctionEffect DEF NamesFunction
<1>9. ASSUME NEW type, AddsField(type) PROVE Enums'
  BY <1>5, <1>9, AddsFieldEffect DEF AddsField
<1>10. ASSUME NEW f, AddsStatement(f) PROVE Enums'
  BY <1>5, <1>10, AddsStatementEffect DEF AddsStatement
<1>11. ASSUME NEW name \in Names, AddsConstant(name) PROVE Enums'
  <2>1. EnumFilled(classes'[class_], class_)
    BY <1>11, EnumAdded
  <2>2. ChangesOpenClass
    BY <1>11, AddsConstantEffect
  <2>3. Filled'
    BY <2>1, <2>2 DEF Enums, ChangesOpenClass
  <2>4. Site' = "EnumBody"
    BY <1>11 DEF AddsConstant
  <2>. QED
    BY <2>3, <2>4 DEF Enums
<1>. QED
  BY <1>1, <1>2, <1>3, <1>4, <1>7, <1>8, <1>9, <1>10, <1>11, StepKinds DEF Builds

(* What the built-in classes are: six classes, each with an empty constructor *)
(* and no field.                                                            *)
LEMMA BuiltinKinds ==
  /\ DOMAIN BuiltinClasses = 1 .. 6
  /\ \A c \in 1 .. 6 :
       /\ BuiltinClasses[c].type = "class" /\ BuiltinClasses[c].fields = <<>>
       /\ Len(BuiltinClasses[c].functions) = 1
       /\ BuiltinClasses[c].functions[1].ast = <<>>
       /\ BuiltinClasses[c].functions[1].scope = Nil
<1>. DEFINE R == 0 .. 6
            S == {Nil}
<1>1. ASSUME NEW name \in Names, NEW mods \in SUBSET Modifier, NEW super \in R
      PROVE  LET cls == Builtin(name, mods, super)
             IN  /\ cls.type = "class" /\ cls.fields = <<>> /\ Len(cls.functions) = 1
                 /\ cls.functions[1].ast = <<>> /\ cls.functions[1].scope = Nil
  <2>1. PICK new : new = NewClass(name, mods, super, "class")
    OBVIOUS
  <2>2. PICK func : func = NewFunction(name, {}, VoidClass)
    OBVIOUS
  <2>3. func.ast = <<>> /\ func.scope = Nil
    BY <2>2 DEF NewFunction
  <2>4. new.fields = <<>> /\ new.type = "class" /\ new.functions = <<func>>
    BY <2>1, <2>2, NewClassEffect
  <2>5. new \in ClassOf(R, S)
    BY <2>1, NewClassTyped DEF VoidClass, Nil
  <2>6. func \in FunctionOf(R, S)
    <3>1. new.functions \in Seq(FunctionOf(R, S))
      BY <2>5 DEF ClassOf
    <3>. QED
      BY <2>4, <3>1
  <2>7. PICK g : g = [func EXCEPT !.ret = Nil]
    OBVIOUS
  <2>8. g.ast = <<>> /\ g.scope = Nil
    BY <2>3, <2>6, <2>7 DEF FunctionOf
  <2>9. Builtin(name, mods, super) = [new EXCEPT !.functions = <<g>>]
    BY <2>1, <2>4, <2>7 DEF Builtin, Constructor
  <2>. QED
    BY <2>4, <2>5, <2>8, <2>9 DEF ClassOf
<1>2. /\ {"Object", "String", "Bool", "Int", "Double", "Void"} \subseteq Names
      /\ {"final"} \in SUBSET Modifier /\ {} \in SUBSET Modifier
      /\ Nil \in R /\ ObjectClass \in R
  BY DEF Names, Modifier, Nil, ObjectClass
<1>3. DOMAIN BuiltinClasses = 1 .. 6
  BY DEF BuiltinClasses
<1>4. \A c \in 1 .. 6 : \E name \in Names : \E mods \in SUBSET Modifier : \E super \in R :
        BuiltinClasses[c] = Builtin(name, mods, super)
  <2>. DEFINE built(c) == \E name \in Names : \E mods \in SUBSET Modifier : \E super \in R :
                            BuiltinClasses[c] = Builtin(name, mods, super)
  <2>1. built(1) /\ built(2) /\ built(3) /\ built(4) /\ built(5) /\ built(6)
    BY <1>2 DEF BuiltinClasses
  <2>2. \A c \in 1 .. 6 : c = 1 \/ c = 2 \/ c = 3 \/ c = 4 \/ c = 5 \/ c = 6
    OBVIOUS
  <2>. HIDE DEF built
  <2>3. \A c \in 1 .. 6 : built(c)
    BY <2>1, <2>2
  <2>. QED
    BY <2>3 DEF built
<1>5. ASSUME NEW c \in 1 .. 6
      PROVE  LET cls == BuiltinClasses[c]
             IN  /\ cls.type = "class" /\ cls.fields = <<>> /\ Len(cls.functions) = 1
                 /\ cls.functions[1].ast = <<>> /\ cls.functions[1].scope = Nil
  <2>1. PICK name \in Names, mods \in SUBSET Modifier, super \in R :
          BuiltinClasses[c] = Builtin(name, mods, super)
    BY <1>4
  <2>. HIDE DEF R
  <2>. QED
    BY <1>1, <2>1
<1>. QED
  BY <1>3, <1>5

LEMMA EnumsHold == Spec => []Enums
<1>1. Init => Enums
  <2>1. ASSUME Init PROVE Enums
    <3>1. \A c \in DOMAIN classes : classes[c].type = "class"
      BY <2>1, BuiltinKinds DEF Init
    <3>. QED
      BY <2>1, <3>1 DEF Init, Enums, Site, ExpressionSites, OpenSites, BodySites, FieldSites,
         FunctionSites
  <2>. QED
    BY <2>1
<1>2. Inv /\ Enums /\ [Next]_vars => Enums'
  BY EnumsKept
<1>. QED
  BY <1>1, <1>2, InvHolds, PTL DEF Spec

(* The constructor of an enum stores into its k-th constant the ordinal k, *)
(* once and in order, at every moment of the parse: EnumConstant of        *)
(* ParseDefinition is all that ever writes there.                          *)
THEOREM OrdinalsInOrder == Spec => []EnumOrdinals
<1>1. Enums => EnumOrdinals
  BY DEF Enums, EnumFilled, EnumOrdinals, EnumStatement
<1>. QED
  BY <1>1, EnumsHold, PTL

-----------------------------------------------------------------------------
(* What each kind of step does to the scopes *)

(* A scope is added below p, and it is the one in force. *)
ScopeAdded(p) ==
  LET n == Len(scopes) + 1
  IN  /\ scope_' = n
      /\ DOMAIN scopes' = DOMAIN scopes \cup {n} /\ n \in Nat
      /\ \A s \in DOMAIN scopes : /\ s \in Nat /\ s < n
                                  /\ scopes'[s].parent = scopes[s].parent
                                  /\ scopes'[s].vars = scopes[s].vars
      /\ scopes'[n].parent = p

LEMMA PushScopeEffect ==
  ASSUME Inv, NEW p \in ScopeRef, PushScope(p)
  PROVE  ScopeAdded(p)
<1>1. PICK m \in Nat : m = Len(scopes) /\ DOMAIN scopes = 1 .. m
  BY DEF Inv, TypeOK
<1>2. PICK root : root = [parent |-> Nil, child |-> Nil, sibling |-> Nil, vars |-> <<>>]
  OBVIOUS
<1>3. scopes' = AddScope(scopes, p) /\ scope_' = m + 1
  BY <1>1 DEF PushScope
<1>4. scopes \in Seq(ScopeOf(ClassRef, ScopeRef))
  BY DEF Inv, TypeOK
<1>5. CASE p = Nil
  <2>1. scopes' = Append(scopes, root)
    BY <1>2, <1>3, <1>5 DEF AddScope
  <2>2. /\ DOMAIN scopes' = 1 .. m + 1 /\ scopes'[m + 1] = root
        /\ \A s \in 1 .. m : scopes'[s] = scopes[s]
    BY <1>1, <1>4, <2>1
  <2>3. root.parent = p
    BY <1>2, <1>5
  <2>. QED
    BY <1>1, <1>3, <2>2, <2>3 DEF ScopeAdded
<1>6. CASE p # Nil
  <2>1. p \in 1 .. m
    BY <1>1, <1>6 DEF ScopeRef, Nil
  <2>2. PICK new : new = [parent |-> p, child |-> Nil, sibling |-> scopes[p].child, vars |-> <<>>]
    OBVIOUS
  <2>3. PICK linked : linked = [scopes[p] EXCEPT !.child = m + 1]
    OBVIOUS
  <2>4. scopes[p] \in ScopeOf(ClassRef, ScopeRef)
    BY <1>1, <1>4, <2>1
  <2>5. linked.parent = scopes[p].parent /\ linked.vars = scopes[p].vars
    BY <2>3, <2>4 DEF ScopeOf
  <2>6. PICK others : others = [scopes EXCEPT ![p] = linked]
    OBVIOUS
  <2>7. scopes' = Append(others, new)
    BY <1>1, <1>3, <1>6, <2>2, <2>3, <2>6 DEF AddScope
  <2>8. /\ DOMAIN others = 1 .. m /\ Len(others) = m
        /\ \A s \in 1 .. m : others[s] = IF s = p THEN linked ELSE scopes[s]
    BY <1>1, <1>4, <2>6
  <2>9. /\ DOMAIN scopes' = 1 .. m + 1 /\ scopes'[m + 1] = new
        /\ \A s \in 1 .. m : scopes'[s] = IF s = p THEN linked ELSE scopes[s]
    BY <2>7, <2>8
  <2>10. new.parent = p
    BY <2>2
  <2>. QED
    BY <1>1, <1>3, <2>5, <2>9, <2>10 DEF ScopeAdded
<1>. QED
  BY <1>5, <1>6

(* The scope in force has one more variable. *)
LocalAdded ==
  /\ DOMAIN scopes' = DOMAIN scopes /\ scope_ \in DOMAIN scopes
  /\ \A s \in DOMAIN scopes :
       /\ scopes'[s].parent = scopes[s].parent
       /\ s # scope_ => scopes'[s].vars = scopes[s].vars
  /\ LET n == Len(scopes[scope_].vars)
     IN  /\ DOMAIN scopes[scope_].vars = 1 .. n /\ n \in Nat
         /\ DOMAIN scopes'[scope_].vars = 1 .. n + 1
         /\ Len(scopes'[scope_].vars) = n + 1

LEMMA AddsLocalEffect ==
  ASSUME Inv, NEW type, AddsLocal(type)
  PROVE  LocalAdded
<1>1. scopes[scope_] \in ScopeOf(ClassRef, ScopeRef) /\ scope_ \in 1 .. Len(scopes)
  BY OpenTyped DEF AddsLocal, OpenSites, FunctionSites
<1>2. scopes \in Seq(ScopeOf(ClassRef, ScopeRef)) /\ DOMAIN scopes = 1 .. Len(scopes)
  BY DEF Inv, TypeOK
<1>3. PICK var : var = [name |-> loc.name, type |-> type]
  OBVIOUS
<1>4. PICK vs : vs = Append(scopes[scope_].vars, var)
  OBVIOUS
<1>5. PICK n \in Nat : n = Len(scopes[scope_].vars) /\ DOMAIN scopes[scope_].vars = 1 .. n
  BY <1>1 DEF ScopeOf
<1>6. Len(vs) = n + 1 /\ DOMAIN vs = 1 .. n + 1
  <2>1. scopes[scope_].vars \in Seq([name : Names, type : ClassRef])
    BY <1>1 DEF ScopeOf
  <2>. QED
    BY <1>4, <1>5, <2>1
<1>7. PICK scope : scope = [scopes[scope_] EXCEPT !.vars = vs]
  OBVIOUS
<1>8. scope.parent = scopes[scope_].parent /\ scope.vars = vs
  BY <1>1, <1>7 DEF ScopeOf
<1>9. scopes' = [scopes EXCEPT ![scope_] = scope]
  BY <1>3, <1>4, <1>7 DEF AddsLocal, AddLocal
<1>10. /\ DOMAIN scopes' = DOMAIN scopes /\ scopes'[scope_] = scope
       /\ \A s \in DOMAIN scopes : s # scope_ => scopes'[s] = scopes[s]
  BY <1>1, <1>2, <1>9
<1>. QED
  BY <1>1, <1>2, <1>5, <1>6, <1>8, <1>10 DEF LocalAdded

-----------------------------------------------------------------------------
(* The scope in force *)

IsRoot(s) == s \in DOMAIN scopes /\ scopes[s].parent = Nil
OwnScope  == classes[class_].functions[CurrentFunction].scope
InDefinition == HeadSites \cup BodySites \cup FunctionSites

(* ScopeFollowsGrammar, part by part. *)
ScopeFits ==
  /\ Site \in HeadSites \cup BodySites => IsRoot(scope_)
  /\ Site \in FunctionSites =>
       IF OwnScope # Nil THEN scope_ = OwnScope /\ IsRoot(scopes[OwnScope].parent)
                         ELSE IsRoot(scope_)
  /\ Site \in InDefinition => \A r : IsRoot(r) => r <= Root(scope_)

LEMMA SitesDisjoint ==
  /\ HeadSites \cap BodySites = {} /\ HeadSites \cap FunctionSites = {}
  /\ BodySites \cap FunctionSites = {}
  /\ OpenSites = BodySites \cup FunctionSites /\ EnumSites \subseteq BodySites
  /\ InDefinition = HeadSites \cup OpenSites
BY DEF HeadSites, BodySites, FieldSites, FunctionSites, OpenSites, EnumSites, InDefinition

(* A step within the function leaves its scope attached. *)
LEMMA ScopeFitsInFunction ==
  ASSUME ScopeFits, Site \in FunctionSites, Site' \in FunctionSites, UNCHANGED scope_,
         OwnScope' = OwnScope, DOMAIN scopes' = DOMAIN scopes,
         \A s \in DOMAIN scopes : scopes'[s].parent = scopes[s].parent,
         scope_ \in DOMAIN scopes
  PROVE  ScopeFits'
<1>1. \A r : IsRoot(r)' <=> IsRoot(r)
  BY DEF IsRoot
<1>2. Root(scope_)' = Root(scope_)
  BY DEF Root
<1>3. OwnScope # Nil => scopes'[OwnScope].parent = scopes[OwnScope].parent
  BY DEF ScopeFits
<1>. QED
  BY <1>1, <1>2, <1>3, SitesDisjoint DEF ScopeFits, InDefinition

LEMMA ScopeFitsKept ==
  ASSUME Inv, ScopeFits, [Next]_vars
  PROVE  ScopeFits'
<1>1. CASE UNCHANGED vars
  BY <1>1 DEF ScopeFits, vars, Site, IsRoot, Root, OwnScope, CurrentFunction
<1>2. ASSUME Site \in HeadSites \cup BodySites, Site' \in HeadSites \cup BodySites,
             UNCHANGED <<scope_, scopes>>
      PROVE  ScopeFits'
  <2>1. \A r : IsRoot(r)' <=> IsRoot(r)
    BY <1>2 DEF IsRoot
  <2>2. Root(scope_)' = Root(scope_)
    BY <1>2 DEF Root
  <2>. QED
    BY <1>2, <2>1, <2>2, SitesDisjoint DEF ScopeFits, InDefinition
<1>3. ASSUME Site' \notin InDefinition PROVE ScopeFits'
  BY <1>3 DEF ScopeFits, InDefinition
<1>4. CASE Moves
  <2>1. CASE Site' \in FunctionSites
    <3>1. Site \in FunctionSites
      BY <1>4, <2>1 DEF Moves, StaysInRegion, Regions, HeadSites, BodySites, FieldSites,
         EnumSites, FunctionSites, Stopped
    <3>2. scope_ \in DOMAIN scopes
      BY <3>1, OpenTyped DEF OpenSites, Inv, TypeOK
    <3>3. OwnScope' = OwnScope
      BY <1>4 DEF Moves, OwnScope, CurrentFunction
    <3>. QED
      BY <1>4, <2>1, <3>1, <3>2, <3>3, ScopeFitsInFunction DEF Moves
  <2>2. CASE Site' \in HeadSites \cup BodySites
    <3>1. Site \in HeadSites \cup BodySites
      BY <1>4, <2>2 DEF Moves, StaysInRegion, Regions, HeadSites, BodySites, FieldSites,
         EnumSites, FunctionSites, Stopped
    <3>. QED
      BY <1>2, <1>4, <2>2, <3>1 DEF Moves
  <2>. QED
    BY <1>3, <2>1, <2>2 DEF InDefinition
<1>5. CASE Begins
  <2>1. ScopeAdded(Nil) /\ Site' = "Definition"
    BY <1>5, PushScopeEffect DEF Begins, ScopeRef, Nil, Inv, TypeOK
  <2>2. PICK n \in Nat : n = Len(scopes) + 1
    BY DEF Inv, TypeOK
  <2>3. /\ scope_' = n /\ DOMAIN scopes' = DOMAIN scopes \cup {n} /\ scopes'[n].parent = Nil
        /\ \A s \in DOMAIN scopes : s \in Nat /\ s < n
    BY <2>1, <2>2 DEF ScopeAdded
  <2>4. IsRoot(scope_)' /\ Root(scope_)' = n /\ \A r : IsRoot(r)' => r <= n
    BY <2>3 DEF IsRoot, Root
  <2>. QED
    BY <2>1, <2>4, SitesDisjoint DEF ScopeFits, HeadSites
<1>6. CASE Leaves
  BY <1>3, <1>6 DEF Leaves, InDefinition, HeadSites, BodySites, FieldSites, FunctionSites
<1>7. ASSUME NEW name, NEW super, OpensClass(name, super) PROVE ScopeFits'
  BY <1>2, <1>7 DEF OpensClass, HeadSites, BodySites
<1>8. ASSUME NEW type, AddsField(type) PROVE ScopeFits'
  BY <1>2, <1>8 DEF AddsField, BodySites, FieldSites
<1>9. ASSUME NEW name, AddsConstant(name) PROVE ScopeFits'
  BY <1>2, <1>9 DEF AddsConstant, BodySites
<1>10. ASSUME NEW type, AddsLocal(type) PROVE ScopeFits'
  <2>1. LocalAdded
    BY <1>10, AddsLocalEffect
  <2>2. Site \in FunctionSites /\ Site' \in FunctionSites
    BY <1>10 DEF AddsLocal, FunctionSites
  <2>3. OwnScope' = OwnScope /\ UNCHANGED scope_
    BY <1>10 DEF AddsLocal, OwnScope, CurrentFunction
  <2>. QED
    BY <2>1, <2>2, <2>3, ScopeFitsInFunction DEF LocalAdded
<1>11. ASSUME NEW f, AddsStatement(f) PROVE ScopeFits'
  <2>1. CASE Site = "FieldNext"
    BY <1>2, <1>11, <2>1 DEF AddsStatement, BodySites, FieldSites
  <2>2. CASE Site # "FieldNext"
    <3>1. Site \in FunctionSites /\ Site' \in FunctionSites
      BY <1>11, <2>2 DEF AddsStatement, FunctionSites
    <3>2. scope_ \in DOMAIN scopes /\ Len(classes[class_].functions) \in Nat
      BY <3>1, OpenTyped DEF OpenSites, Inv, TypeOK
    <3>3. CurrentFunction \in 1 .. Len(classes[class_].functions)
      <4>1. OwnScopeNested
        BY <3>1 DEF Inv, UnderConstruction
      <4>. QED
        BY <3>2, <4>1 DEF OwnScopeNested, CurrentFunction
    <3>4. OneMoreStatement(classes'[class_], classes[class_], f, loc.dest, loc.expr)
      BY <1>11, AddsStatementEffect
    <3>5. class_' = class_ /\ UNCHANGED <<scope_, scopes>>
      BY <1>11 DEF AddsStatement
    <3>6. OwnScope' = OwnScope
      BY <3>3, <3>4, <3>5 DEF OwnScope, CurrentFunction, OneMoreStatement
    <3>. QED
      BY <3>1, <3>2, <3>5, <3>6, ScopeFitsInFunction
  <2>. QED
    BY <2>1, <2>2
<1>12. CASE ClosesFunction
  <2>1. Site \in FunctionSites /\ Site' = "Body" /\ UNCHANGED scopes
    BY <1>12 DEF ClosesFunction
  <2>2. Nil \notin DOMAIN scopes
    BY DEF Inv, TypeOK, Nil
  <2>3. scope_' = IF OwnScope # Nil THEN scopes[scope_].parent ELSE scope_
    BY <1>12 DEF ClosesFunction, RestoreScope, OwnScope
  <2>4. IsRoot(scope_') /\ Root(scope_') = Root(scope_)
    BY <2>1, <2>2, <2>3 DEF ScopeFits, IsRoot, Root
  <2>5. IsRoot(scope_)' /\ Root(scope_)' = Root(scope_)
    BY <2>1, <2>4 DEF IsRoot, Root
  <2>6. \A r : IsRoot(r)' => IsRoot(r)
    BY <2>1 DEF IsRoot
  <2>7. "Body" \in BodySites
    BY DEF BodySites
  <2>. QED
    BY <2>1, <2>5, <2>6, <2>7, SitesDisjoint DEF ScopeFits, InDefinition
<1>13. ASSUME NEW name \in Names, NamesFunction(name) PROVE ScopeFits'
  <2>1. /\ Site \in BodySites /\ Site \in OpenSites
        /\ Site' \in FunctionSites /\ Site' \notin HeadSites \cup BodySites
        /\ class_' = class_
    BY <1>13 DEF NamesFunction, BodySites, FieldSites, FunctionSites, HeadSites, OpenSites
  <2>2. PICK n \in Nat : n = Len(classes[class_].functions)
    BY <2>1, OpenTyped
  <2>3. IsRoot(scope_) /\ scope_ \in ScopeRef /\ Root(scope_) = scope_
    BY <2>1 DEF ScopeFits, IsRoot, Inv, TypeOK, Root
  <2>4. ASSUME NEW s, OneMoreScoped(classes'[class_], classes[class_], s, private_)
        PROVE  OwnScope' = s
    BY <2>1, <2>2, <2>4 DEF OneMoreScoped, OwnScope, CurrentFunction
  <2>5. CASE /\ UNCHANGED <<scopes, scope_>>
             /\ OneMoreScoped(classes'[class_], classes[class_], Nil, private_)
    <3>1. OwnScope' = Nil /\ IsRoot(scope_)' /\ Root(scope_)' = Root(scope_)
          /\ \A r : IsRoot(r)' => IsRoot(r)
      BY <2>3, <2>4, <2>5 DEF IsRoot, Root
    <3>. QED
      BY <2>1, <3>1, SitesDisjoint DEF ScopeFits, InDefinition
  <2>6. CASE /\ PushScope(scope_)
             /\ OneMoreScoped(classes'[class_], classes[class_], Len(scopes) + 1, private_)
    <3>1. PICK m \in Nat : m = Len(scopes) + 1
      BY DEF Inv, TypeOK
    <3>2. ScopeAdded(scope_)
      BY <2>3, <2>6, PushScopeEffect
    <3>3. /\ scope_' = m /\ OwnScope' = m /\ scopes'[m].parent = scope_ /\ m # Nil
          /\ DOMAIN scopes' = DOMAIN scopes \cup {m}
          /\ \A s \in DOMAIN scopes : s < m /\ scopes'[s].parent = scopes[s].parent
      BY <2>4, <2>6, <3>1, <3>2 DEF ScopeAdded, Nil
    <3>4. scope_ # Nil /\ scope_ \in Nat
      BY <2>3 DEF IsRoot, Inv, TypeOK, Nil
    <3>5. \A r : IsRoot(r)' <=> IsRoot(r)
      BY <3>3, <3>4 DEF IsRoot
    <3>6. Root(scope_)' = scope_ /\ scopes'[OwnScope'].parent = scope_
      BY <3>3, <3>4 DEF Root
    <3>7. IsRoot(scopes[OwnScope].parent)'
      BY <2>3, <3>5, <3>6 DEF IsRoot
    <3>. QED
      BY <2>1, <2>3, <3>3, <3>5, <3>6, <3>7, SitesDisjoint DEF ScopeFits, InDefinition
  <2>. QED
    BY <1>13, <2>5, <2>6, NamesFunctionEffect
<1>. QED
  BY <1>1, <1>4, <1>5, <1>6, <1>7, <1>8, <1>9, <1>10, <1>11, <1>12, <1>13, StepKinds DEF Builds

LEMMA ScopeFitsHolds == Spec => []ScopeFits
<1>1. Init => ScopeFits
  BY DEF Init, ScopeFits, Site, ExpressionSites, HeadSites, BodySites, FieldSites, FunctionSites,
     InDefinition
<1>2. Inv /\ ScopeFits /\ [Next]_vars => ScopeFits'
  BY ScopeFitsKept
<1>. QED
  BY <1>1, <1>2, InvHolds, PTL DEF Spec

(* The scope in force fits the construct being parsed: the definition's    *)
(* root outside functions, and inside one the scope it opened or, for a    *)
(* typed method, that root.  Parser::scope_ is left as it was found by     *)
(* every part of ParseDefinition.                                          *)
THEOREM ScopeInForce == Spec => []ScopeFollowsGrammar
<1>1. ScopeFits => ScopeFollowsGrammar
  BY DEF ScopeFits, ScopeFollowsGrammar, IsRoot, OwnScope, InDefinition
<1>. QED
  BY <1>1, ScopeFitsHolds, PTL

-----------------------------------------------------------------------------
(* What a step keeps of a class, and what it adds *)

(* Objects only grow: a class keeps its kind, its fields, its functions    *)
(* and their scopes.                                                       *)
GrownFrom(new, cls) ==
  /\ SameKind(new, cls)
  /\ \A i \in DOMAIN cls.fields : i \in DOMAIN new.fields /\ new.fields[i] = cls.fields[i]
  /\ \A f \in DOMAIN cls.functions :
       f \in DOMAIN new.functions /\ new.functions[f].scope = cls.functions[f].scope

LEMMA ClassTyped ==
  ASSUME Inv, NEW c \in DOMAIN classes
  PROVE  /\ classes[c] \in ClassOf(ClassRef, ScopeRef)
         /\ DOMAIN classes[c].fields = 1 .. Len(classes[c].fields)
         /\ DOMAIN classes[c].functions = 1 .. Len(classes[c].functions)
         /\ Len(classes[c].fields) \in Nat /\ Len(classes[c].functions) \in Nat
         /\ \A f \in DOMAIN classes[c].functions :
              classes[c].functions[f].ast \in Seq(StmtType)
<1>1. classes \in Seq(ClassOf(ClassRef, ScopeRef))
  BY DEF Inv, TypeOK
<1>2. classes[c] \in ClassOf(ClassRef, ScopeRef)
  BY <1>1
<1>3. /\ classes[c].fields \in Seq(FieldOf(ClassRef))
      /\ classes[c].functions \in Seq(FunctionOf(ClassRef, ScopeRef))
  BY <1>2 DEF ClassOf
<1>4. ASSUME NEW f \in DOMAIN classes[c].functions
      PROVE  classes[c].functions[f].ast \in Seq(StmtType)
  <2>1. classes[c].functions[f] \in FunctionOf(ClassRef, ScopeRef)
    BY <1>3
  <2>. QED
    BY <2>1 DEF FunctionOf
<1>. QED
  BY <1>2, <1>3, <1>4

LEMMA NextTyped ==
  ASSUME Inv, [Next]_vars
  PROVE  /\ Inv'
         /\ \A c \in DOMAIN classes' :
              /\ DOMAIN classes'[c].fields = 1 .. Len(classes'[c].fields)
              /\ DOMAIN classes'[c].functions = 1 .. Len(classes'[c].functions)
<1>1. Inv'
  BY NextInv
<1>2. classes' \in Seq(ClassOf(ClassRef', ScopeRef'))
  BY <1>1 DEF Inv, TypeOK
<1>3. ASSUME NEW c \in DOMAIN classes'
      PROVE  /\ DOMAIN classes'[c].fields = 1 .. Len(classes'[c].fields)
             /\ DOMAIN classes'[c].functions = 1 .. Len(classes'[c].functions)
  <2>1. classes'[c] \in ClassOf(ClassRef', ScopeRef')
    BY <1>2
  <2>. QED
    BY <2>1 DEF ClassOf
<1>. QED
  BY <1>1, <1>3

LEMMA ClassesGrow ==
  ASSUME Inv, [Next]_vars, NEW c \in DOMAIN classes
  PROVE  c \in DOMAIN classes' /\ GrownFrom(classes'[c], classes[c])
<1>1. GrownFrom(classes[c], classes[c])
  BY DEF GrownFrom, SameKind
<1>2. CASE UNCHANGED classes
  BY <1>1, <1>2
<1>3. ASSUME ChangesOpenClass, c # class_
      PROVE  c \in DOMAIN classes' /\ GrownFrom(classes'[c], classes[c])
  <2>1. classes'[c] = classes[c] /\ c \in DOMAIN classes'
    BY <1>3 DEF ChangesOpenClass
  <2>. QED
    BY <1>1, <2>1
<1>4. /\ DOMAIN classes[c].fields = 1 .. Len(classes[c].fields)
      /\ DOMAIN classes[c].functions = 1 .. Len(classes[c].functions)
      /\ Len(classes[c].fields) \in Nat /\ Len(classes[c].functions) \in Nat
  BY ClassTyped
<1>5. /\ c \in DOMAIN classes' => DOMAIN classes'[c].functions = 1 .. Len(classes'[c].functions)
      /\ c \in DOMAIN classes' => DOMAIN classes'[c].fields = 1 .. Len(classes'[c].fields)
  BY NextTyped
<1>6. ASSUME NEW name, NEW super, OpensClass(name, super)
      PROVE  c \in DOMAIN classes' /\ GrownFrom(classes'[c], classes[c])
  BY <1>1, <1>6, OpensClassEffect
<1>7. ASSUME NEW name \in Names, NamesFunction(name)
      PROVE  c \in DOMAIN classes' /\ GrownFrom(classes'[c], classes[c])
  <2>1. ChangesOpenClass
    BY <1>7, NamesFunctionEffect
  <2>2. CASE c = class_
    <3>1. PICK n \in Nat : n = Len(classes[c].functions)
      BY <1>4
    <3>2. PICK s : /\ SameFields(classes'[c], classes[c]) /\ SameKind(classes'[c], classes[c])
                   /\ OneMoreScoped(classes'[c], classes[c], s, private_)
      BY <1>7, <2>2, NamesFunctionEffect
    <3>3. c \in DOMAIN classes'
      BY <2>1 DEF ChangesOpenClass
    <3>4. /\ DOMAIN classes[c].functions = 1 .. n /\ DOMAIN classes'[c].functions = 1 .. n + 1
          /\ \A f \in 1 .. n : classes'[c].functions[f].scope = classes[c].functions[f].scope
      BY <1>4, <1>5, <3>1, <3>2, <3>3 DEF OneMoreScoped
    <3>. QED
      BY <3>2, <3>3, <3>4 DEF GrownFrom, SameFields
  <2>. QED
    BY <1>3, <2>1, <2>2
<1>8. ASSUME NEW type, AddsField(type)
      PROVE  c \in DOMAIN classes' /\ GrownFrom(classes'[c], classes[c])
  <2>1. ChangesOpenClass
    BY <1>8, AddsFieldEffect
  <2>2. CASE c = class_
    <3>1. PICK mods : /\ SameFunctions(classes'[c], classes[c])
                      /\ SameKind(classes'[c], classes[c])
                      /\ OneMoreField(classes'[c], classes[c], mods)
      BY <1>8, <2>2, AddsFieldEffect
    <3>2. \A i \in 1 .. Len(classes[c].fields) : i \in 1 .. Len(classes[c].fields) + 1
      BY <1>4
    <3>. QED
      BY <1>4, <2>1, <3>1, <3>2 DEF GrownFrom, SameFunctions, OneMoreField, ChangesOpenClass
  <2>. QED
    BY <1>3, <2>1, <2>2
<1>9. ASSUME NEW name \in Names, AddsConstant(name)
      PROVE  c \in DOMAIN classes' /\ GrownFrom(classes'[c], classes[c])
  <2>1. ChangesOpenClass
    BY <1>9, AddsConstantEffect
  <2>2. CASE c = class_
    <3>1. PICK mods, f, place, value :
            /\ SameKind(classes'[c], classes[c])
            /\ OneMoreField(classes'[c], classes[c], mods)
            /\ OneMoreStatement(classes'[c], classes[c], f, place, value)
      BY <1>9, <2>2, AddsConstantEffect
    <3>2. \A i \in 1 .. Len(classes[c].fields) : i \in 1 .. Len(classes[c].fields) + 1
      BY <1>4
    <3>3. c \in DOMAIN classes'
      BY <2>1 DEF ChangesOpenClass
    <3>4. \A i \in DOMAIN classes[c].fields :
            i \in DOMAIN classes'[c].fields /\ classes'[c].fields[i] = classes[c].fields[i]
      BY <1>4, <3>1, <3>2 DEF OneMoreField
    <3>. QED
      BY <1>4, <1>5, <3>1, <3>3, <3>4 DEF GrownFrom, OneMoreStatement
  <2>. QED
    BY <1>3, <2>1, <2>2
<1>10. ASSUME NEW f, AddsStatement(f)
       PROVE  c \in DOMAIN classes' /\ GrownFrom(classes'[c], classes[c])
  <2>1. ChangesOpenClass
    BY <1>10, AddsStatementEffect
  <2>2. CASE c = class_
    <3>1. /\ SameFields(classes'[c], classes[c]) /\ SameKind(classes'[c], classes[c])
          /\ OneMoreStatement(classes'[c], classes[c], f, loc.dest, loc.expr)
      BY <1>10, <2>2, AddsStatementEffect
    <3>2. c \in DOMAIN classes'
      BY <2>1 DEF ChangesOpenClass
    <3>. QED
      BY <1>4, <1>5, <3>1, <3>2 DEF GrownFrom, SameFields, OneMoreStatement
  <2>. QED
    BY <1>3, <2>1, <2>2
<1>11. CASE \/ vars' = vars \/ Moves \/ Begins \/ Leaves \/ ClosesFunction
            \/ \E type : AddsLocal(type)
  BY <1>2, <1>11 DEF vars, Moves, Begins, Leaves, ClosesFunction, AddsLocal
<1>. QED
  BY <1>6, <1>7, <1>8, <1>9, <1>10, <1>11, StepKinds DEF Builds

-----------------------------------------------------------------------------
(* The register of classes.  Parse sees a kEOF itself unless a `private'   *)
(* came before it; then the class registered last is added again, while    *)
(* that `private' is pending.  The next class takes it, and until then no  *)
(* other kEOF reaches ParseDefinition: Parse returns at one, and a second  *)
(* `private' aborts.                                                       *)

Repeated(i, j) == i < j /\ code_[i] = code_[j]
Doubled == \E i \in DOMAIN code_ : Repeated(i, Len(code_))

(* What becomes of the `private' that had code_[j] registered again. *)
Qualifies(j) ==
  IF j < Len(code_) THEN "private" \in classes[code_[j + 1]].mods
  ELSE IF class_ = code_[j] THEN private_
  ELSE "private" \in classes[class_].mods

Registration ==
  /\ class_ = Nil => \A i, j \in DOMAIN code_ : ~Repeated(i, j)
  /\ pc = "Definition" /\ (~private_ \/ Doubled) => peek_ \notin {NoToken, EndOfFile}
  /\ \A i, j \in DOMAIN code_ : Repeated(i, j) => i = j - 1 /\ Qualifies(j)

(* What is not a token of the file. *)
LEMMA SpecialTokens ==
  /\ EndOfFile \notin Token /\ NoToken \notin Readable /\ NoToken # EndOfFile
  /\ \A t \in Readable : t.kind = "kEOF" => t = EndOfFile
<1>1. "kEOF" \notin Kinds /\ "none" \notin Kinds
  BY ConstantsAssumption DEF PlainKinds, Operators, Literals, Symbols, Keywords
<1>2. \A t \in Token : t.kind \in {"kIDENTIFIER"} \cup Kinds
  BY DEF Token
<1>3. EndOfFile.kind = "kEOF" /\ NoToken.kind = "none"
  BY DEF EndOfFile, NoToken
<1>4. \A t \in Token : t.kind # "kEOF" /\ t.kind # "none"
  BY <1>1, <1>2
<1>. QED
  BY <1>3, <1>4 DEF Readable

(* Parse and ParseDefinition's first read are entered, and the register    *)
(* grows, in few places.                                                   *)
LEMMA StepElsewhere ==
  ASSUME Inv, Next, ~Returns, ~ParseNext, ~DefinitionPrivate, ~Terminated
  PROVE  pc \notin {"Parse", "Done"} /\ pc' \notin {"Parse", "Done", "Definition"}
<1>. USE DEF Reads, Stopped
<1>0. loc.back \in {"", "FieldNext", "LocalNext", "StatementEnd", "Aborted"}
  BY DEF Inv, TypeOK, LocalsOf
<1>1. CASE Unexpected
  BY <1>1 DEF Unexpected, Lookaheads
<1>2. CASE ExpectSymbol
  BY <1>0, <1>2 DEF ExpectSymbol
<1>3. CASE DefinitionKeyword
  BY <1>0, <1>3 DEF DefinitionKeyword, Opens
<1>4. CASE DefinitionName
  BY <1>0, <1>4 DEF DefinitionName, OpenClass
<1>5. CASE HeadExtends
  BY <1>0, <1>5 DEF HeadExtends
<1>6. CASE HeadParent
  BY <1>0, <1>6 DEF HeadParent
<1>7. CASE HeadOpen
  BY <1>0, <1>7 DEF HeadOpen, OpenClass
<1>8. CASE BodyPrivate
  BY <1>0, <1>8 DEF BodyPrivate
<1>9. CASE BodyVar
  BY <1>0, <1>9 DEF BodyVar
<1>10. CASE BodyFunction
  BY <1>0, <1>10 DEF BodyFunction
<1>11. CASE FunctionName
  BY <1>0, <1>11 DEF FunctionName
<1>12. CASE FunctionClose
  BY <1>0, <1>12 DEF FunctionClose
<1>13. CASE EnumConstant
  BY <1>0, <1>13 DEF EnumConstant
<1>14. CASE EnumSeparator
  BY <1>0, <1>14 DEF EnumSeparator
<1>15. CASE DeclaratorName
  BY <1>0, <1>15 DEF DeclaratorName
<1>16. CASE FieldType
  BY <1>0, <1>16 DEF FieldType
<1>17. CASE LocalType
  BY <1>0, <1>17 DEF LocalType, DeclareLocal
<1>18. CASE ParamType
  BY <1>0, <1>18 DEF ParamType
<1>19. CASE ParamDefault
  BY <1>0, <1>19 DEF ParamDefault, DeclareLocal
<1>20. CASE ParamsClose
  BY <1>0, <1>20 DEF ParamsClose
<1>21. CASE DeclarationNext
  BY <1>0, <1>21 DEF DeclarationNext
<1>22. CASE Initialiser
  BY <1>0, <1>22 DEF Initialiser, BeginExpression
<1>23. CASE Statement
  BY <1>0, <1>23 DEF Statement, BeginExpression
<1>24. CASE Assign
  BY <1>0, <1>24 DEF Assign, BeginExpression
<1>25. CASE StatementEnd
  BY <1>0, <1>25 DEF StatementEnd
<1>26. CASE ParseUnaryExpr
  BY <1>0, <1>26 DEF ParseUnaryExpr
<1>27. CASE BinaryOperator
  BY <1>0, <1>27 DEF BinaryOperator
<1>28. CASE EndExpression
  BY <1>0, <1>28 DEF EndExpression
<1>. QED
  BY <1>1, <1>2, <1>3, <1>4, <1>5, <1>6, <1>7, <1>8, <1>9, <1>10, <1>11, <1>12, <1>13, <1>14,
     <1>15, <1>16, <1>17, <1>18, <1>19, <1>20, <1>21, <1>22, <1>23, <1>24, <1>25, <1>26,
     <1>27, <1>28 DEF Next, Returns

LEMMA UnitTyped ==
  ASSUME Inv
  PROVE  /\ Len(code_) \in Nat /\ DOMAIN code_ = 1 .. Len(code_)
         /\ code_ \in Seq(ClassRef)
         /\ \A i \in DOMAIN code_ : code_[i] \in DOMAIN classes
         /\ class_ \in ClassRef /\ (class_ # Nil => class_ \in DOMAIN classes)
         /\ DOMAIN classes = 1 .. Len(classes)
<1>1. /\ code_ \in Seq(ClassRef \ {Nil}) /\ class_ \in ClassRef
      /\ classes \in Seq(ClassOf(ClassRef, ScopeRef))
  BY DEF Inv, TypeOK
<1>2. DOMAIN classes = 1 .. Len(classes) /\ Len(classes) \in Nat
  BY <1>1
<1>3. ClassRef \ {Nil} = DOMAIN classes
  BY <1>2 DEF ClassRef, Nil
<1>4. code_ \in Seq(ClassRef)
  BY <1>1, SeqMonotonic
<1>. QED
  BY <1>1, <1>2, <1>3, <1>4, LenProperties

(* Outside a body class_ is the class registered last; inside it is not    *)
(* registered.                                                             *)
LEMMA ClassInUnit ==
  ASSUME Inv
  PROVE  /\ Site \in OpenSites => class_ # Nil /\ class_ \notin Range(code_)
         /\ Site \in {"Parse"} \cup HeadSites /\ class_ # Nil =>
              Len(code_) > 0 /\ class_ = code_[Len(code_)]
<1>1. Len(classes) >= 6
  BY DEF Inv, UnderConstruction, VoidClass
<1>2. Len(classes) # Nil
  BY <1>1 DEF Nil
<1>3. Site \in OpenSites => class_ = Len(classes) /\ class_ \notin Range(code_)
  BY DEF Inv, UnderConstruction, OpenSites, OpenClassOK
<1>4. Site \in {"Parse"} \cup HeadSites /\ class_ # Nil =>
        Len(code_) > 0 /\ class_ = code_[Len(code_)]
  BY DEF Inv, UnderConstruction
<1>. QED
  BY <1>2, <1>3, <1>4

(* class_ changes only where a class opens. *)
LEMMA ClassMoves ==
  ASSUME Inv, Next
  PROVE  class_' = class_ \/ \E name \in Names : \E super \in ClassRef : OpensClass(name, super)
BY StepKinds DEF Moves, Builds, Begins, Leaves, ClosesFunction, NamesFunction, AddsConstant,
   AddsField, AddsLocal, AddsStatement

(* The class under construction, or the one registered last, is private if *)
(* a repeated registration obliges it to be.                               *)
LEMMA QualifiesKept ==
  ASSUME Inv, PrivateConfined, Registration, Next, UNCHANGED code_,
         NEW j \in DOMAIN code_, Qualifies(j), class_ # Nil
  PROVE  Qualifies(j)'
<1>1. /\ Len(code_) \in Nat /\ DOMAIN code_ = 1 .. Len(code_)
      /\ \A i \in DOMAIN code_ : code_[i] \in DOMAIN classes
      /\ class_ \in DOMAIN classes /\ DOMAIN classes = 1 .. Len(classes)
  BY UnitTyped
<1>2. \A c \in DOMAIN classes : classes'[c].mods = classes[c].mods
  BY ClassesGrow DEF GrownFrom, SameKind
<1>3. CASE j < Len(code_)
  <2>1. j + 1 \in DOMAIN code_
    BY <1>1, <1>3
  <2>. QED
    BY <1>1, <1>2, <1>3, <2>1 DEF Qualifies
<1>4. CASE ~(j < Len(code_))
  <2>1. j = Len(code_)
    BY <1>1, <1>4
  <2>2. ASSUME NEW name \in Names, NEW super \in ClassRef, OpensClass(name, super)
        PROVE  Qualifies(j)'
    <3>1. /\ class_' = Len(classes) + 1 /\ Len(classes) + 1 \notin DOMAIN classes
          /\ Privacy(private_) \subseteq classes'[Len(classes) + 1].mods
      BY <2>2, OpensClassEffect
    <3>2. Site \in HeadSites
      BY <2>2 DEF OpensClass, HeadSites
    <3>3. class_ = code_[j]
      BY <2>1, <3>2, ClassInUnit
    <3>4. private_
      BY <1>4, <3>3 DEF Qualifies
    <3>5. class_' # code_[j] /\ "private" \in classes'[class_'].mods
      BY <1>1, <3>1, <3>4 DEF Privacy
    <3>. QED
      BY <1>4, <3>5 DEF Qualifies
  <2>3. CASE class_' = class_
    <3>1. CASE class_ = code_[j]
      <4>1. private_
        BY <1>4, <3>1 DEF Qualifies
      <4>2. Site \notin OpenSites
        BY <3>1, ClassInUnit DEF Range
      <4>3. private_'
        <5>1. ~(\E name, super : OpenClass(name, super))
          BY <1>1, <2>3 DEF OpenClass
        <5>2. ~(\E name \in Names : NamesFunction(name))
          BY <4>2 DEF NamesFunction, OpenSites, BodySites
        <5>3. pc # "FieldNext"
          BY <4>2 DEF Site, ExpressionSites, OpenSites, BodySites, FieldSites
        <5>. QED
          BY <4>1, <5>1, <5>2, <5>3, PrivateSpent
      <4>. QED
        BY <1>4, <2>3, <3>1, <4>3 DEF Qualifies
    <3>2. CASE class_ # code_[j]
      BY <1>1, <1>2, <1>4, <2>3, <3>2 DEF Qualifies
    <3>. QED
      BY <3>1, <3>2
  <2>. QED
    BY <2>2, <2>3, ClassMoves
<1>. QED
  BY <1>3, <1>4

(* A class that is closed is new to the unit. *)
LEMMA CloseRegisters ==
  ASSUME Inv, Registration, BodyClose
  PROVE  Registration'
<1>1. /\ code_' = IF class_ # Nil THEN Append(code_, class_) ELSE code_
      /\ pc' = "Parse" /\ UNCHANGED <<class_, classes, private_>>
  BY DEF BodyClose, ReturnDefinition
<1>2. Site \in OpenSites
  BY DEF BodyClose, Reads, Site, ExpressionSites, OpenSites, BodySites
<1>3. class_ # Nil /\ class_ \notin Range(code_)
  BY <1>2, ClassInUnit
<1>4. Len(code_) \in Nat /\ DOMAIN code_ = 1 .. Len(code_) /\ code_ \in Seq(ClassRef)
      /\ class_ \in ClassRef
  BY UnitTyped
<1>5. PICK n \in Nat : n = Len(code_)
  BY <1>4
<1>6. /\ Len(code_') = n + 1 /\ DOMAIN code_' = 1 .. n + 1
      /\ \A i \in 1 .. n : code_'[i] = code_[i]
      /\ code_'[n + 1] = class_
  <2>1. code_' = Append(code_, class_)
    BY <1>1, <1>3
  <2>2. code_' \in Seq(ClassRef) /\ Len(code_') = n + 1
    BY <1>4, <1>5, <2>1, AppendProperties
  <2>. QED
    BY <1>4, <1>5, <2>1, <2>2, AppendProperties, LenProperties
<1>7. ASSUME NEW i \in DOMAIN code_', NEW j \in DOMAIN code_', Repeated(i, j)'
      PROVE  i = j - 1 /\ Qualifies(j)'
  <2>1. i \in 1 .. n /\ j \in 1 .. n + 1 /\ i < j /\ code_'[i] = code_'[j]
    BY <1>6, <1>7 DEF Repeated
  <2>2. code_[i] # class_
    BY <1>3, <1>4, <1>5, <2>1 DEF Range
  <2>3. j \in 1 .. n
    BY <1>6, <2>1, <2>2
  <2>4. Repeated(i, j) /\ i \in DOMAIN code_ /\ j \in DOMAIN code_
    BY <1>4, <1>5, <1>6, <2>1, <2>3 DEF Repeated
  <2>5. i = j - 1 /\ Qualifies(j)
    BY <2>4 DEF Registration
  <2>6. j < n + 1 /\ (j < n => j + 1 \in 1 .. n) /\ (~(j < n) => j = n)
    BY <2>3
  <2>7. CASE j < n
    BY <1>1, <1>5, <1>6, <2>5, <2>6, <2>7 DEF Qualifies
  <2>8. CASE ~(j < n)
    <3>1. code_[j] # class_
      BY <1>3, <1>4, <2>4 DEF Range
    <3>2. "private" \in classes[class_].mods
      BY <1>5, <2>5, <2>8, <3>1 DEF Qualifies
    <3>3. j < Len(code_') /\ code_'[j + 1] = class_
      BY <1>6, <2>6, <2>8
    <3>. QED
      BY <1>1, <2>5, <3>2, <3>3 DEF Qualifies
  <2>. QED
    BY <2>7, <2>8
<1>. QED
  BY <1>1, <1>3, <1>7 DEF Registration

(* The class registered last is added again, for the first time. *)
LEMMA EofRegisters ==
  ASSUME Inv, Registration, DefinitionEof
  PROVE  Registration'
<1>1. /\ code_' = IF class_ # Nil THEN Append(code_, class_) ELSE code_
      /\ pc = "Definition" /\ pc' = "Parse" /\ UNCHANGED <<class_, classes, private_>>
  BY DEF DefinitionEof, Reads, ReturnDefinition
<1>2. peek_ \in {NoToken, EndOfFile}
  <2>1. PICK t \in Readable : t.kind = "kEOF" /\ Consume(t)
    BY DEF DefinitionEof, Reads
  <2>2. t = EndOfFile
    BY <2>1, SpecialTokens
  <2>. QED
    BY <2>1, <2>2 DEF Consume, NextToken
<1>3. private_ /\ ~Doubled
  BY <1>1, <1>2 DEF Registration
<1>4. Len(code_) \in Nat /\ DOMAIN code_ = 1 .. Len(code_) /\ code_ \in Seq(ClassRef)
      /\ class_ \in ClassRef
  BY UnitTyped
<1>5. PICK n \in Nat : n = Len(code_)
  BY <1>4
<1>6. CASE class_ = Nil
  BY <1>1, <1>6 DEF Registration, Repeated
<1>7. CASE class_ # Nil
  <2>1. n > 0 /\ class_ = code_[n]
    BY <1>1, <1>5, <1>7, ClassInUnit DEF Site, ExpressionSites, HeadSites
  <2>2. /\ Len(code_') = n + 1 /\ DOMAIN code_' = 1 .. n + 1
        /\ \A i \in 1 .. n : code_'[i] = code_[i]
        /\ code_'[n + 1] = class_
    <3>1. code_' = Append(code_, class_)
      BY <1>1, <1>7
    <3>2. code_' \in Seq(ClassRef) /\ Len(code_') = n + 1
      BY <1>4, <1>5, <3>1, AppendProperties
    <3>. QED
      BY <1>4, <1>5, <3>1, <3>2, AppendProperties, LenProperties
  <2>3. ASSUME NEW i \in DOMAIN code_', NEW j \in DOMAIN code_', Repeated(i, j)'
        PROVE  i = j - 1 /\ Qualifies(j)'
    <3>1. i \in 1 .. n /\ j \in 1 .. n + 1 /\ i < j /\ code_'[i] = code_'[j]
      BY <2>2, <2>3 DEF Repeated
    <3>2. \A k \in 1 .. n : k < n => code_[k] # code_[n]
      BY <1>3, <1>4, <1>5 DEF Doubled, Repeated
    <3>3. CASE j = n + 1
      <4>1. code_[i] = code_[n]
        BY <2>1, <2>2, <3>1, <3>3
      <4>2. i = n
        BY <3>1, <3>2, <4>1
      <4>. QED
        BY <1>1, <1>3, <2>2, <3>3, <4>2 DEF Qualifies
    <3>4. CASE j # n + 1
      <4>1. j \in 1 .. n
        BY <3>1, <3>4
      <4>2. Repeated(i, j) /\ i \in DOMAIN code_ /\ j \in DOMAIN code_
        BY <1>4, <1>5, <2>2, <3>1, <4>1 DEF Repeated
      <4>3. i = j - 1 /\ Qualifies(j)
        BY <4>2 DEF Registration
      <4>4. j # n
        BY <1>4, <1>5, <3>2, <3>1, <4>2 DEF Repeated
      <4>5. j < n /\ j < n + 1 /\ j + 1 \in 1 .. n
        BY <4>1, <4>4
      <4>. QED
        BY <1>1, <1>5, <2>2, <4>3, <4>5 DEF Qualifies
    <3>. QED
      BY <3>3, <3>4
  <2>. QED
    BY <1>1, <1>7, <2>3 DEF Registration
<1>. QED
  BY <1>6, <1>7

LEMMA RegistrationKept ==
  ASSUME Inv, PrivateConfined, Registration, [Next]_vars
  PROVE  Registration'
<1>1. CASE UNCHANGED vars
  BY <1>1 DEF vars, Registration, Repeated, Doubled, Qualifies
<1>2. CASE Terminated
  BY <1>2 DEF Terminated, vars, Registration, Repeated, Doubled, Qualifies
<1>3. CASE Returns
  BY <1>3, CloseRegisters, EofRegisters DEF Returns
<1>4. ASSUME Next, ~Terminated, ~Returns PROVE Registration'
  <2>1. UNCHANGED code_
    BY <1>4, WithinDefinition
  <2>2. class_' = Nil => class_ = Nil
    <3>1. \A name \in Names : \A super \in ClassRef : OpensClass(name, super) => class_' # Nil
      <4>1. Len(classes) \in Nat
        BY DEF Inv, TypeOK
      <4>. QED
        BY <4>1 DEF OpensClass, OpenClass, Nil
    <3>. QED
      BY <1>4, <3>1, ClassMoves
  <2>3. \A i, j \in DOMAIN code_' : Repeated(i, j)' => i = j - 1 /\ Qualifies(j)'
    <3>. SUFFICES ASSUME NEW i \in DOMAIN code_, NEW j \in DOMAIN code_, Repeated(i, j)
                  PROVE  i = j - 1 /\ Qualifies(j)'
      BY <2>1 DEF Repeated
    <3>1. class_ # Nil /\ i = j - 1 /\ Qualifies(j)
      BY DEF Registration
    <3>. QED
      BY <1>4, <2>1, <3>1, QualifiesKept
  <2>4. ASSUME pc' = "Definition", ~private_' \/ Doubled' PROVE peek_' \notin {NoToken, EndOfFile}
    <3>1. ParseNext \/ DefinitionPrivate
      BY <1>4, <2>4, StepElsewhere
    <3>2. CASE ParseNext
      BY <2>4, <3>2, SpecialTokens DEF ParseNext, PeekToken
    <3>3. CASE DefinitionPrivate
      <4>1. pc = "Definition" /\ ~private_ /\ private_' /\ UNCHANGED class_
        BY <2>4, <3>3 DEF DefinitionPrivate, Reads
      <4>2. Doubled
        BY <2>1, <2>4, <4>1 DEF Doubled, Repeated
      <4>3. PICK i \in DOMAIN code_ : Repeated(i, Len(code_))
        BY <4>2 DEF Doubled
      <4>4. Len(code_) \in DOMAIN code_ /\ ~(Len(code_) < Len(code_))
        BY <4>3, UnitTyped
      <4>5. class_ # Nil /\ Qualifies(Len(code_))
        BY <4>3, <4>4 DEF Registration
      <4>6. class_ = code_[Len(code_)]
        BY <4>1, <4>5, ClassInUnit DEF Site, ExpressionSites, HeadSites
      <4>. QED
        BY <4>1, <4>4, <4>5, <4>6 DEF Qualifies
    <3>. QED
      BY <3>1, <3>2, <3>3
  <2>. QED
    BY <2>1, <2>2, <2>3, <2>4 DEF Registration, Repeated
<1>. QED
  BY <1>1, <1>2, <1>3, <1>4

(* Whatever tokens a file has, a class is registered at most twice, the    *)
(* second time right after the first and only by a kEOF behind a dangling  *)
(* `private', which is then pending or a modifier of the next class.       *)
THEOREM ClassesRegisteredOnce == Spec => []RegisteredOnce
<1>1. Init => Registration
  <2>. SUFFICES ASSUME Init PROVE Registration
    OBVIOUS
  <2>1. code_ = <<StringClass, IntClass, DoubleClass, BoolClass>>
    BY DEF Init
  <2>2. \A i, j \in DOMAIN code_ : ~Repeated(i, j)
    BY <2>1 DEF Repeated, StringClass, IntClass, DoubleClass, BoolClass
  <2>. QED
    BY <2>2 DEF Init, Registration
<1>2. Inv /\ PrivateConfined /\ Registration /\ [Next]_vars => Registration'
  BY RegistrationKept
<1>3. Registration => RegisteredOnce
  BY DEF Registration, RegisteredOnce, Repeated, Qualifies
<1>. QED
  BY <1>1, <1>2, <1>3, InvHolds, PrivateStaysConfined, PTL DEF Spec

-----------------------------------------------------------------------------
(* What the trees refer to *)

(* The places of the expression being parsed. *)
Held == {loc.dest} \cup Range(loc.expr.leaves)

Refers(c, f, p) ==
  /\ c \in DOMAIN classes /\ f \in DOMAIN classes[c].functions
  /\ p \in PlacesIn(classes[c].functions[f])

LEMMA PlacesOfTree ==
  ASSUME NEW func, NEW p
  PROVE  p \in PlacesIn(func) <=> \E i \in DOMAIN func.ast : p \in Places(func.ast[i])
BY DEF PlacesIn

LEMMA StatementAdded ==
  ASSUME NEW func, NEW new, func.ast \in Seq(StmtType), NEW place, NEW value,
         new.ast = Append(func.ast, [dest |-> place, value |-> value]),
         NEW i \in DOMAIN new.ast
  PROVE  \/ i \in DOMAIN func.ast /\ new.ast[i] = func.ast[i]
         \/ new.ast[i] = [dest |-> place, value |-> value]
<1>1. PICK stmt : stmt = [dest |-> place, value |-> value]
  OBVIOUS
<1>2. PICK n \in Nat : n = Len(func.ast) /\ DOMAIN func.ast = 1 .. n
  OBVIOUS
<1>3. /\ DOMAIN new.ast = 1 .. n + 1 /\ new.ast[n + 1] = stmt
      /\ \A k \in 1 .. n : new.ast[k] = func.ast[k]
  BY <1>1, <1>2
<1>4. i = n + 1 \/ i \in 1 .. n
  BY <1>3
<1>. QED
  BY <1>1, <1>2, <1>3, <1>4

LEMMA NoPlaces ==
  ASSUME NEW func, func.ast = <<>>
  PROVE  PlacesIn(func) = {}
BY DEF PlacesIn

(* The enum constant's place, and its ordinal. *)
ConstantPlace(p) ==
  /\ p.on \in {"StaticField", "Literal"}
  /\ p.on = "StaticField" => p = Place("StaticField", class_, Len(classes[class_].fields) + 1)

LEMMA ConstantPlaces ==
  ASSUME NEW n, NEW p \in {Place("StaticField", class_, n)} \cup Range(Literal(IntClass, n).leaves),
         n = Len(classes[class_].fields) + 1
  PROVE  ConstantPlace(p)
<1>1. PICK leaf : leaf = Place("Literal", IntClass, n)
  OBVIOUS
<1>2. Literal(IntClass, n).leaves = <<leaf>>
  BY <1>1 DEF Literal
<1>3. Range(<<leaf>>) = {leaf}
  BY DEF Range
<1>4. p = Place("StaticField", class_, n) \/ p = leaf
  BY <1>2, <1>3
<1>. QED
  BY <1>1, <1>4 DEF Place, ConstantPlace

(* The statement that gives an enum's next constant its ordinal.           *)
ConstantStatement(stmt) ==
  LET n == Len(classes[class_].fields) + 1
  IN  stmt = [dest |-> Place("StaticField", class_, n), value |-> Literal(IntClass, n)]

InTree(c, f, stmt) ==
  /\ c \in DOMAIN classes /\ f \in DOMAIN classes[c].functions
  /\ \E i \in DOMAIN classes[c].functions[f].ast : stmt = classes[c].functions[f].ast[i]

(* A statement in a tree was there before, or it is the one that has just  *)
(* been completed, or it initialises a constant of an enum.                *)
LEMMA StatementsStep ==
  ASSUME Inv, [Next]_vars, NEW c \in DOMAIN classes', NEW f \in DOMAIN classes'[c].functions,
         NEW i \in DOMAIN classes'[c].functions[f].ast
  PROVE  LET stmt == classes'[c].functions[f].ast[i]
         IN  \/ InTree(c, f, stmt)
             \/ /\ c = class_ /\ AddsStatement(f)
                /\ stmt = [dest |-> loc.dest, value |-> loc.expr]
             \/ /\ c = class_ /\ \E name \in Names : AddsConstant(name)
                /\ ConstantStatement(stmt)
<1>. DEFINE func == classes[c].functions[f]
            func_ == classes'[c].functions[f]
            stmt == func_.ast[i]
            Goal == \/ InTree(c, f, stmt)
                    \/ /\ c = class_ /\ AddsStatement(f)
                       /\ stmt = [dest |-> loc.dest, value |-> loc.expr]
                    \/ /\ c = class_ /\ \E name \in Names : AddsConstant(name)
                       /\ ConstantStatement(stmt)
<1>1. ASSUME c \in DOMAIN classes, classes'[c].functions = classes[c].functions PROVE Goal
  BY <1>1 DEF InTree
<1>2. ASSUME ChangesOpenClass, c # class_ PROVE Goal
  BY <1>1, <1>2 DEF ChangesOpenClass
<1>3. f \in 1 .. Len(classes'[c].functions)
  BY NextTyped
<1>4. ASSUME c \in DOMAIN classes
      PROVE  /\ DOMAIN classes[c].functions = 1 .. Len(classes[c].functions)
             /\ Len(classes[c].functions) \in Nat
             /\ \A g \in DOMAIN classes[c].functions :
                  classes[c].functions[g].ast \in Seq(StmtType)
  BY <1>4, ClassTyped
<1>5. ASSUME c \in DOMAIN classes, f \in DOMAIN classes[c].functions, func_.ast = func.ast
      PROVE  Goal
  BY <1>5 DEF InTree
<1>6. ASSUME c = class_, ChangesOpenClass, NEW g, NEW place, NEW value,
             OneMoreStatement(classes'[class_], classes[class_], g, place, value)
      PROVE  Goal \/ (f = g /\ stmt = [dest |-> place, value |-> value])
  <2>. HIDE DEF Goal
  <2>1. c \in DOMAIN classes
    BY <1>6 DEF ChangesOpenClass
  <2>2. f \in DOMAIN classes[c].functions
    BY <1>3, <1>4, <1>6, <2>1 DEF OneMoreStatement
  <2>3. CASE f = g
    <3>1. func_.ast = Append(func.ast, [dest |-> place, value |-> value])
      BY <1>4, <1>6, <2>1, <2>2, <2>3 DEF OneMoreStatement
    <3>2. func.ast \in Seq(StmtType)
      BY <1>4, <2>1, <2>2
    <3>3. \/ i \in DOMAIN func.ast /\ stmt = func.ast[i]
          \/ stmt = [dest |-> place, value |-> value]
      BY <3>1, <3>2, StatementAdded, SMTT(30)
    <3>4. i \in DOMAIN func.ast /\ stmt = func.ast[i] => Goal
      BY <2>1, <2>2, Zenon DEF InTree, Goal
    <3>. QED
      BY <2>3, <3>3, <3>4
  <2>4. CASE f # g
    <3>1. func_.ast = func.ast
      BY <1>4, <1>6, <2>1, <2>2, <2>4 DEF OneMoreStatement
    <3>. QED
      BY <1>5, <2>1, <2>2, <3>1
  <2>. QED
    BY <2>3, <2>4
<1>7. ASSUME NEW name, NEW super, OpensClass(name, super) PROVE Goal
  <2>1. PICK n : n = Len(classes) + 1
    OBVIOUS
  <2>2. /\ c \in DOMAIN classes \/ c = n
        /\ \A d \in DOMAIN classes : classes'[d] = classes[d]
        /\ IF loc.kw = "proto" THEN classes'[n].functions = <<>>
           ELSE classes'[n].functions = <<NewFunction(name, {}, VoidClass)>>
    BY <1>7, <2>1, OpensClassEffect
  <2>3. PICK new : new = NewFunction(name, {}, VoidClass)
    OBVIOUS
  <2>4. DOMAIN new.ast = {}
    BY <2>3 DEF NewFunction
  <2>5. c # n
    <3>1. classes'[n].functions = <<>> \/ classes'[n].functions = <<new>>
      BY <2>2, <2>3
    <3>2. c = n => f = 1 /\ func_ = new
      BY <3>1
    <3>. QED
      BY <2>4, <3>2
  <2>. QED
    BY <1>1, <2>2, <2>5
<1>8. ASSUME NEW name \in Names, NamesFunction(name) PROVE Goal
  <2>1. ChangesOpenClass
    BY <1>8, NamesFunctionEffect
  <2>2. CASE c = class_
    <3>1. c \in DOMAIN classes
      BY <2>1 DEF ChangesOpenClass
    <3>2. PICK n \in Nat : n = Len(classes[c].functions) /\ DOMAIN classes[c].functions = 1 .. n
      BY <1>4, <3>1
    <3>3. PICK s : OneMoreScoped(classes'[c], classes[c], s, private_)
      BY <1>8, <2>2, NamesFunctionEffect
    <3>4. f \in 1 .. n + 1
      BY <1>3, <3>2, <3>3 DEF OneMoreScoped
    <3>5. CASE f = n + 1
      <4>1. func_.ast = <<>>
        BY <3>2, <3>3, <3>5 DEF OneMoreScoped
      <4>. QED
        BY <4>1
    <3>6. CASE f # n + 1
      <4>1. f \in 1 .. n
        BY <3>4, <3>6
      <4>2. func_.ast = func.ast
        BY <3>2, <3>3, <4>1 DEF OneMoreScoped
      <4>. QED
        BY <1>5, <3>1, <3>2, <4>1, <4>2
    <3>. QED
      BY <3>5, <3>6
  <2>. QED
    BY <1>2, <2>1, <2>2
<1>9. ASSUME NEW type, AddsField(type) PROVE Goal
  <2>1. ChangesOpenClass /\ SameFunctions(classes'[class_], classes[class_])
    BY <1>9, AddsFieldEffect
  <2>. QED
    BY <1>1, <1>2, <2>1 DEF ChangesOpenClass, SameFunctions
<1>10. ASSUME NEW name \in Names, AddsConstant(name) PROVE Goal
  <2>1. PICK n : n = Len(classes[class_].fields) + 1
    OBVIOUS
  <2>2. /\ ChangesOpenClass
        /\ OneMoreStatement(classes'[class_], classes[class_], Constructor,
                            Place("StaticField", class_, n), Literal(IntClass, n))
    BY <1>10, <2>1, AddsConstantEffect
  <2>3. CASE c = class_
    <3>1. Goal \/ stmt = [dest |-> Place("StaticField", class_, n), value |-> Literal(IntClass, n)]
      BY <1>6, <2>2, <2>3
    <3>2. stmt = [dest |-> Place("StaticField", class_, n), value |-> Literal(IntClass, n)]
            => ConstantStatement(stmt)
      BY <2>1, Zenon DEF ConstantStatement
    <3>. QED
      BY <1>10, <2>3, <3>1, <3>2
  <2>. QED
    BY <1>2, <2>2, <2>3
<1>11. ASSUME NEW g, AddsStatement(g) PROVE Goal
  <2>1. /\ ChangesOpenClass
        /\ OneMoreStatement(classes'[class_], classes[class_], g, loc.dest, loc.expr)
    BY <1>11, AddsStatementEffect
  <2>2. CASE c = class_
    <3>1. Goal \/ (f = g /\ stmt = [dest |-> loc.dest, value |-> loc.expr])
      BY <1>6, <2>1, <2>2
    <3>. QED
      BY <1>11, <2>2, <3>1
  <2>. QED
    BY <1>2, <2>1, <2>2
<1>12. ASSUME vars' = vars \/ Moves \/ Begins \/ Leaves \/ ClosesFunction
                \/ \E type : AddsLocal(type)
       PROVE  Goal
  BY <1>1, <1>12 DEF vars, Moves, Begins, Leaves, ClosesFunction, AddsLocal
<1>. HIDE DEF Goal
<1>13. ASSUME Next PROVE Goal
  <2>1. Moves \/ Builds
    BY <1>13, StepKinds
  <2>. QED
    BY <1>7, <1>8, <1>9, <1>10, <1>11, <1>12, <2>1 DEF Builds
<1>14. Goal
  BY <1>12, <1>13
<1>. QED
  BY <1>14 DEF Goal

(* A place in a tree was there before, or belongs to the expression that   *)
(* has just been completed, or initialises a constant of an enum.          *)
LEMMA PlacesStep ==
  ASSUME Inv, [Next]_vars, NEW c \in DOMAIN classes', NEW f \in DOMAIN classes'[c].functions,
         NEW p \in PlacesIn(classes'[c].functions[f])
  PROVE  \/ Refers(c, f, p)
         \/ c = class_ /\ p \in Held /\ AddsStatement(f)
         \/ c = class_ /\ ConstantPlace(p) /\ \E name \in Names : AddsConstant(name)
<1>1. PICK i \in DOMAIN classes'[c].functions[f].ast : p \in Places(classes'[c].functions[f].ast[i])
  BY DEF PlacesIn
<1>2. PICK stmt : stmt = classes'[c].functions[f].ast[i]
  OBVIOUS
<1>3. CASE InTree(c, f, stmt)
  BY <1>1, <1>2, <1>3, PlacesOfTree DEF InTree, Refers
<1>4. CASE /\ c = class_ /\ AddsStatement(f)
           /\ stmt = [dest |-> loc.dest, value |-> loc.expr]
  BY <1>1, <1>2, <1>4 DEF Places, Held
<1>5. CASE /\ c = class_ /\ \E name \in Names : AddsConstant(name)
           /\ ConstantStatement(stmt)
  <2>1. PICK n : /\ n = Len(classes[class_].fields) + 1
                 /\ stmt = [dest |-> Place("StaticField", class_, n), value |-> Literal(IntClass, n)]
    BY <1>5 DEF ConstantStatement
  <2>2. p \in {Place("StaticField", class_, n)} \cup Range(Literal(IntClass, n).leaves)
    BY <1>1, <1>2, <2>1 DEF Places
  <2>. QED
    BY <1>5, <2>1, <2>2, ConstantPlaces
<1>. QED
  BY <1>2, <1>3, <1>4, <1>5, StatementsStep

-----------------------------------------------------------------------------
(* The expression being parsed *)

(* No expression is left over when none is being parsed. *)
NoneHeld == pc \notin ExpressionSites \cup Stopped => loc.expr = NoExpr /\ loc.dest = NoPlace

LEMMA FreshLocals ==
  ASSUME NEW kw
  PROVE  /\ NoLocals.expr = NoExpr /\ NoLocals.dest = NoPlace
         /\ [NoLocals EXCEPT !.kw = kw].expr = NoExpr
         /\ [NoLocals EXCEPT !.kw = kw].dest = NoPlace
BY DEF NoLocals

LEMMA NoneHeldKept ==
  ASSUME Inv, NoneHeld, [Next]_vars
  PROVE  NoneHeld'
<1>. USE DEF NoneHeld
<1>a. loc \in LocalsOf(ClassRef)
  BY DEF Inv, TypeOK
<1>b. ASSUME pc \notin ExpressionSites \cup Stopped, loc'.expr = loc.expr, loc'.dest = loc.dest
      PROVE  NoneHeld'
  BY <1>b
<1>c. ASSUME loc'.expr = NoExpr, loc'.dest = NoPlace PROVE NoneHeld'
  BY <1>c
<1>d. ASSUME pc' \in ExpressionSites \cup Stopped PROVE NoneHeld'
  BY <1>d
<1>e. CASE UNCHANGED vars
  BY <1>e DEF vars
<1>. HIDE DEF NoneHeld
<1>. USE DEF ExpressionSites, Stopped, Reads
<1>1. CASE Unexpected
  BY <1>d, <1>1 DEF Unexpected
<1>2. CASE ExpectSymbol
  <2>1. /\ pc \notin ExpressionSites \cup Stopped
        /\ loc'.expr = loc.expr /\ loc'.dest = loc.dest
    BY <1>a, <1>2 DEF ExpectSymbol, LocalsOf
  <2>. QED
    BY <1>b, <2>1
<1>3. CASE ParseNext
  <2>1. /\ pc \notin ExpressionSites \cup Stopped
        /\ loc'.expr = loc.expr /\ loc'.dest = loc.dest
    BY <1>a, <1>3 DEF ParseNext, LocalsOf
  <2>. QED
    BY <1>b, <2>1
<1>4. CASE DefinitionPrivate
  <2>1. /\ pc \notin ExpressionSites \cup Stopped
        /\ loc'.expr = loc.expr /\ loc'.dest = loc.dest
    BY <1>a, <1>4 DEF DefinitionPrivate, LocalsOf
  <2>. QED
    BY <1>b, <2>1
<1>5. CASE DefinitionKeyword
  <2>1. /\ pc \notin ExpressionSites \cup Stopped
        /\ loc'.expr = loc.expr /\ loc'.dest = loc.dest
    BY <1>a, <1>5 DEF DefinitionKeyword, Opens, LocalsOf
  <2>. QED
    BY <1>b, <2>1
<1>6. CASE DefinitionEof
  BY <1>c, <1>6, FreshLocals DEF DefinitionEof, ReturnDefinition
<1>7. CASE DefinitionName
  <2>1. /\ pc \notin ExpressionSites \cup Stopped
        /\ loc'.expr = loc.expr /\ loc'.dest = loc.dest
    BY <1>a, <1>7 DEF DefinitionName, OpenClass, LocalsOf
  <2>. QED
    BY <1>b, <2>1
<1>8. CASE HeadExtends
  <2>1. /\ pc \notin ExpressionSites \cup Stopped
        /\ loc'.expr = loc.expr /\ loc'.dest = loc.dest
    BY <1>a, <1>8 DEF HeadExtends, LocalsOf
  <2>. QED
    BY <1>b, <2>1
<1>9. CASE HeadParent
  <2>1. /\ pc \notin ExpressionSites \cup Stopped
        /\ loc'.expr = loc.expr /\ loc'.dest = loc.dest
    BY <1>a, <1>9 DEF HeadParent, LocalsOf
  <2>. QED
    BY <1>b, <2>1
<1>10. CASE HeadOpen
  BY <1>c, <1>10, FreshLocals DEF HeadOpen
<1>11. CASE BodyPrivate
  <2>1. /\ pc \notin ExpressionSites \cup Stopped
        /\ loc'.expr = loc.expr /\ loc'.dest = loc.dest
    BY <1>a, <1>11 DEF BodyPrivate, LocalsOf
  <2>. QED
    BY <1>b, <2>1
<1>12. CASE BodyVar
  <2>1. /\ pc \notin ExpressionSites \cup Stopped
        /\ loc'.expr = loc.expr /\ loc'.dest = loc.dest
    BY <1>a, <1>12 DEF BodyVar, LocalsOf
  <2>. QED
    BY <1>b, <2>1
<1>13. CASE BodyFunction
  <2>1. /\ pc \notin ExpressionSites \cup Stopped
        /\ loc'.expr = loc.expr /\ loc'.dest = loc.dest
    BY <1>a, <1>13 DEF BodyFunction, LocalsOf
  <2>. QED
    BY <1>b, <2>1
<1>14. CASE BodyClose
  BY <1>c, <1>14, FreshLocals DEF BodyClose, ReturnDefinition
<1>15. CASE FunctionName
  BY <1>c, <1>15, FreshLocals DEF FunctionName
<1>16. CASE FunctionClose
  <2>1. /\ pc \notin ExpressionSites \cup Stopped
        /\ loc'.expr = loc.expr /\ loc'.dest = loc.dest
    BY <1>a, <1>16 DEF FunctionClose, LocalsOf
  <2>. QED
    BY <1>b, <2>1
<1>17. CASE EnumConstant
  <2>1. /\ pc \notin ExpressionSites \cup Stopped
        /\ loc'.expr = loc.expr /\ loc'.dest = loc.dest
    BY <1>a, <1>17 DEF EnumConstant, LocalsOf
  <2>. QED
    BY <1>b, <2>1
<1>18. CASE EnumSeparator
  <2>1. /\ pc \notin ExpressionSites \cup Stopped
        /\ loc'.expr = loc.expr /\ loc'.dest = loc.dest
    BY <1>a, <1>18 DEF EnumSeparator, LocalsOf
  <2>. QED
    BY <1>b, <2>1
<1>19. CASE DeclaratorName
  <2>1. /\ pc \notin ExpressionSites \cup Stopped
        /\ loc'.expr = loc.expr /\ loc'.dest = loc.dest
    BY <1>a, <1>19 DEF DeclaratorName, LocalsOf
  <2>. QED
    BY <1>b, <2>1
<1>20. CASE FieldType
  <2>1. /\ pc \notin ExpressionSites \cup Stopped
        /\ loc'.expr = loc.expr /\ loc'.dest = loc.dest
    BY <1>a, <1>20 DEF FieldType, LocalsOf
  <2>. QED
    BY <1>b, <2>1
<1>21. CASE LocalType
  <2>1. /\ pc \notin ExpressionSites \cup Stopped
        /\ loc'.expr = loc.expr /\ loc'.dest = loc.dest
    BY <1>a, <1>21 DEF LocalType, DeclareLocal, LocalsOf
  <2>. QED
    BY <1>b, <2>1
<1>22. CASE ParamType
  <2>1. /\ pc \notin ExpressionSites \cup Stopped
        /\ loc'.expr = loc.expr /\ loc'.dest = loc.dest
    BY <1>a, <1>22 DEF ParamType, LocalsOf
  <2>. QED
    BY <1>b, <2>1
<1>23. CASE ParamDefault
  <2>1. CASE pc' = "Unary"
    BY <1>d, <2>1
  <2>2. CASE pc' # "Unary"
    BY <1>c, <1>23, <2>2, FreshLocals DEF ParamDefault
  <2>. QED
    BY <2>1, <2>2
<1>24. CASE ParamsClose
  <2>1. /\ pc \notin ExpressionSites \cup Stopped
        /\ loc'.expr = loc.expr /\ loc'.dest = loc.dest
    BY <1>a, <1>24 DEF ParamsClose, LocalsOf
  <2>. QED
    BY <1>b, <2>1
<1>25. CASE DeclarationNext
  <2>1. /\ pc \notin ExpressionSites \cup Stopped
        /\ loc'.expr = loc.expr /\ loc'.dest = loc.dest
    BY <1>a, <1>25 DEF DeclarationNext, LocalsOf
  <2>. QED
    BY <1>b, <2>1
<1>26. CASE Initialiser
  BY <1>d, <1>26 DEF Initialiser, BeginExpression
<1>27. CASE Statement
  <2>1. \/ pc' \in {"Unary", "Aborted"}
        \/ /\ pc \notin ExpressionSites \cup Stopped
           /\ loc'.expr = loc.expr /\ loc'.dest = loc.dest
    BY <1>a, <1>27 DEF Statement, BeginExpression, LocalsOf
  <2>. QED
    BY <1>b, <1>d, <2>1
<1>28. CASE Assign
  <2>1. \/ pc' \in {"Unary", "Aborted"}
        \/ /\ pc \notin ExpressionSites \cup Stopped
           /\ loc'.expr = loc.expr /\ loc'.dest = loc.dest
    BY <1>a, <1>28 DEF Assign, BeginExpression, LocalsOf
  <2>. QED
    BY <1>b, <1>d, <2>1
<1>29. CASE StatementEnd
  <2>1. /\ pc \notin ExpressionSites \cup Stopped
        /\ loc'.expr = loc.expr /\ loc'.dest = loc.dest
    BY <1>a, <1>29 DEF StatementEnd, LocalsOf
  <2>. QED
    BY <1>b, <2>1
<1>30. CASE ParseUnaryExpr
  BY <1>d, <1>30 DEF ParseUnaryExpr
<1>31. CASE BinaryOperator
  BY <1>d, <1>31 DEF BinaryOperator
<1>32. CASE EndExpression
  BY <1>c, <1>32, FreshLocals DEF EndExpression
<1>33. CASE Terminated
  BY <1>e, <1>33 DEF Terminated
<1>. QED
  BY <1>e, <1>1, <1>2, <1>3, <1>4, <1>5, <1>6, <1>7, <1>8, <1>9, <1>10, <1>11, <1>12, <1>13,
     <1>14, <1>15, <1>16, <1>17, <1>18, <1>19, <1>20, <1>21, <1>22, <1>23, <1>24, <1>25,
     <1>26, <1>27, <1>28, <1>29, <1>30, <1>31, <1>32, <1>33 DEF Next

LEMMA NoneHeldHolds == Spec => []NoneHeld
<1>1. Init => NoneHeld
  BY FreshLocals DEF Init, NoneHeld
<1>2. Inv /\ NoneHeld /\ [Next]_vars => NoneHeld'
  BY NoneHeldKept
<1>. QED
  BY <1>1, <1>2, InvHolds, PTL DEF Spec

(* What does not refer to an object that the parser builds. *)
Plain(p) == p.on \in {"Literal", "Return", "None"}

(* Where an expression goes on or begins. *)
Expresses == \/ ParamDefault \/ Initialiser \/ Statement \/ Assign
             \/ ParseUnaryExpr \/ BinaryOperator

LEMMA OnlyExpresses ==
  ASSUME Inv, Next, pc' \in ExpressionSites
  PROVE  Expresses
<1>. USE DEF ExpressionSites, Reads, Expresses
<1>1. CASE Unexpected
  BY <1>1 DEF Unexpected
<1>2. CASE ExpectSymbol
  BY <1>2 DEF ExpectSymbol
<1>3. CASE ParseNext
  BY <1>3 DEF ParseNext
<1>4. CASE DefinitionPrivate
  BY <1>4 DEF DefinitionPrivate
<1>5. CASE DefinitionKeyword
  BY <1>5 DEF DefinitionKeyword, Opens
<1>6. CASE DefinitionEof
  BY <1>6 DEF DefinitionEof, ReturnDefinition
<1>7. CASE DefinitionName
  BY <1>7 DEF DefinitionName, OpenClass
<1>8. CASE HeadExtends
  BY <1>8 DEF HeadExtends
<1>9. CASE HeadParent
  BY <1>9 DEF HeadParent
<1>10. CASE HeadOpen
  BY <1>10 DEF HeadOpen, OpenClass
<1>11. CASE BodyPrivate
  BY <1>11 DEF BodyPrivate
<1>12. CASE BodyVar
  BY <1>12 DEF BodyVar
<1>13. CASE BodyFunction
  BY <1>13 DEF BodyFunction
<1>14. CASE BodyClose
  BY <1>14 DEF BodyClose, ReturnDefinition
<1>15. CASE FunctionName
  BY <1>15 DEF FunctionName
<1>16. CASE FunctionClose
  BY <1>16 DEF FunctionClose
<1>17. CASE EnumConstant
  BY <1>17 DEF EnumConstant
<1>18. CASE EnumSeparator
  BY <1>18 DEF EnumSeparator
<1>19. CASE DeclaratorName
  BY <1>19 DEF DeclaratorName
<1>20. CASE FieldType
  BY <1>20 DEF FieldType
<1>21. CASE LocalType
  BY <1>21 DEF LocalType, DeclareLocal
<1>22. CASE ParamType
  BY <1>22 DEF ParamType
<1>23. CASE ParamDefault
  BY <1>23
<1>24. CASE ParamsClose
  BY <1>24 DEF ParamsClose
<1>25. CASE DeclarationNext
  BY <1>25 DEF DeclarationNext
<1>26. CASE Initialiser
  BY <1>26
<1>27. CASE Statement
  BY <1>27
<1>28. CASE Assign
  BY <1>28
<1>29. CASE StatementEnd
  BY <1>29 DEF StatementEnd
<1>30. CASE ParseUnaryExpr
  BY <1>30
<1>31. CASE BinaryOperator
  BY <1>31
<1>32. CASE EndExpression
  <2>1. pc' \in {loc.back, "Crashed"}
    BY <1>32 DEF EndExpression
  <2>2. loc.back \in {"", "FieldNext", "LocalNext", "StatementEnd", "Aborted"}
    BY DEF Inv, TypeOK, LocalsOf
  <2>. QED
    BY <2>1, <2>2
<1>33. CASE Terminated
  BY <1>33 DEF Terminated, vars, Stopped
<1>. QED
  BY <1>1, <1>2, <1>3, <1>4, <1>5, <1>6, <1>7, <1>8, <1>9, <1>10, <1>11, <1>12, <1>13, <1>14,
     <1>15, <1>16, <1>17, <1>18, <1>19, <1>20, <1>21, <1>22, <1>23, <1>24, <1>25, <1>26,
     <1>27, <1>28, <1>29, <1>30, <1>31, <1>32, <1>33 DEF Next

LEMMA HeldFromStart ==
  ASSUME NoneHeld, pc \notin ExpressionSites \cup Stopped, loc'.expr = loc.expr,
         NEW p \in Held'
  PROVE  p = loc'.dest
<1>1. PICK empty : empty = <<>>
  OBVIOUS
<1>2. loc'.expr.leaves = empty
  BY <1>1 DEF NoneHeld, NoExpr
<1>3. Range(empty) = {}
  BY <1>1 DEF Range
<1>. QED
  BY <1>2, <1>3 DEF Held

(* A place of the expression is one it had already, a plain one, what an   *)
(* identifier stands for, or the field or local declared last.             *)
LEMMA HeldStep ==
  ASSUME Inv, NoneHeld, Next, pc' \in ExpressionSites, NEW p \in Held'
  PROVE  /\ UNCHANGED <<class_, classes, scope_, scopes>>
         /\ \/ pc \in ExpressionSites /\ p \in Held
            \/ Plain(p)
            \/ \E name : p = Resolve(name)
            \/ /\ Site = "FieldNext"
               /\ p = FieldPlace(classes, class_, Len(classes[class_].fields))
            \/ /\ Site = "LocalNext"
               /\ p = Place("Local", scope_, Len(scopes[scope_].vars))
<1>. DEFINE From == \/ pc \in ExpressionSites /\ p \in Held
                    \/ Plain(p)
                    \/ \E name : p = Resolve(name)
                    \/ /\ Site = "FieldNext"
                       /\ p = FieldPlace(classes, class_, Len(classes[class_].fields))
                    \/ /\ Site = "LocalNext"
                       /\ p = Place("Local", scope_, Len(scopes[scope_].vars))
<1>a. loc \in LocalsOf(ClassRef) /\ loc.expr \in ExprType /\ loc.expr.leaves \in Seq(PlaceType)
  BY DEF Inv, TypeOK, LocalsOf, ExprType
<1>b. ASSUME pc \notin ExpressionSites \cup Stopped, loc'.expr = loc.expr PROVE p = loc'.dest
  BY <1>b, HeldFromStart
<1>c. Plain(NoPlace) /\ Plain(ReturnPlace)
  BY DEF Plain, NoPlace, ReturnPlace, Place
<1>1. Expresses
  BY OnlyExpresses
<1>2. CASE ParamDefault
  <2>1. /\ pc = "ParamDefault" /\ loc'.expr = loc.expr /\ loc'.dest = loc.dest
        /\ UNCHANGED <<class_, classes, scope_, scopes>>
    BY <1>a, <1>2 DEF ParamDefault, ExpressionSites, LocalsOf, DeclareLocal
  <2>2. pc \notin ExpressionSites \cup Stopped
    BY <2>1 DEF ExpressionSites, Stopped
  <2>. QED
    BY <1>b, <1>c, <2>1, <2>2 DEF NoneHeld
<1>3. CASE Initialiser
  <2>1. /\ \/ /\ pc = "FieldNext"
              /\ loc'.dest = FieldPlace(classes, class_, Len(classes[class_].fields))
           \/ /\ pc = "LocalNext"
              /\ loc'.dest = Place("Local", scope_, Len(scopes[scope_].vars))
        /\ loc'.expr = loc.expr
        /\ UNCHANGED <<class_, classes, scope_, scopes>>
    BY <1>a, <1>3 DEF Initialiser, Reads, BeginExpression, LocalsOf
  <2>2. pc \notin ExpressionSites \cup Stopped /\ Site = pc
    BY <2>1 DEF ExpressionSites, Stopped, Site
  <2>. QED
    BY <1>b, <2>1, <2>2
<1>4. CASE Statement
  <2>1. /\ pc = "Statement" /\ loc'.expr = loc.expr /\ loc'.dest = ReturnPlace
        /\ UNCHANGED <<class_, classes, scope_, scopes>>
    BY <1>a, <1>4 DEF Statement, Reads, ExpressionSites, BeginExpression, LocalsOf
  <2>2. pc \notin ExpressionSites \cup Stopped
    BY <2>1 DEF ExpressionSites, Stopped
  <2>. QED
    BY <1>b, <1>c, <2>1, <2>2
<1>5. CASE Assign
  <2>1. /\ pc = "Assign" /\ loc'.expr = loc.expr /\ loc'.dest = Resolve(loc.name)
        /\ UNCHANGED <<class_, classes, scope_, scopes>>
    BY <1>a, <1>5 DEF Assign, Reads, ExpressionSites, BeginExpression, LocalsOf
  <2>2. pc \notin ExpressionSites \cup Stopped
    BY <2>1 DEF ExpressionSites, Stopped
  <2>. QED
    BY <1>b, <2>1, <2>2
<1>6. CASE ParseUnaryExpr
  <2>1. PICK t, leaf :
          /\ pc = "Unary"
          /\ leaf = IF t.kind = "kIDENTIFIER" THEN Resolve(t.text)
                    ELSE Place("Literal", LiteralClass[t.kind], 0)
          /\ loc' = [loc EXCEPT !.expr.leaves = Append(@, leaf)]
          /\ UNCHANGED <<class_, classes, scope_, scopes>>
    BY <1>6 DEF ParseUnaryExpr, Reads, ExpressionSites
  <2>2. PICK leaves : leaves = Append(loc.expr.leaves, leaf)
    OBVIOUS
  <2>3. loc'.dest = loc.dest /\ loc'.expr.leaves = leaves
    BY <1>a, <2>1, <2>2 DEF LocalsOf, ExprType
  <2>4. \A i \in DOMAIN leaves : leaves[i] = leaf \/ \E j \in DOMAIN loc.expr.leaves :
                                                      leaves[i] = loc.expr.leaves[j]
    BY <1>a, <2>2
  <2>5. p = loc.dest \/ p = leaf \/ p \in Range(loc.expr.leaves)
    BY <2>3, <2>4 DEF Held, Range
  <2>6. Plain(leaf) \/ \E name : leaf = Resolve(name)
    BY <2>1 DEF Plain, Place
  <2>. QED
    BY <2>1, <2>5, <2>6 DEF Held, ExpressionSites
<1>7. CASE BinaryOperator
  <2>1. PICK ops : /\ pc = "Binary" /\ loc' = [loc EXCEPT !.expr.ops = ops]
                   /\ UNCHANGED <<class_, classes, scope_, scopes>>
    BY <1>7 DEF BinaryOperator
  <2>2. PICK e : e = [loc.expr EXCEPT !.ops = ops]
    OBVIOUS
  <2>3. e.leaves = loc.expr.leaves
    BY <1>a, <2>2 DEF ExprType
  <2>4. loc' = [loc EXCEPT !.expr = e]
    BY <2>1, <2>2
  <2>5. loc'.expr.leaves = loc.expr.leaves /\ loc'.dest = loc.dest
    BY <1>a, <2>3, <2>4 DEF LocalsOf
  <2>. QED
    BY <2>1, <2>5 DEF Held, ExpressionSites
<1>. QED
  BY <1>1, <1>2, <1>3, <1>4, <1>5, <1>6, <1>7 DEF Expresses

-----------------------------------------------------------------------------
(* Loads and stores of fields *)

FieldKinds == {"StaticField", "InstanceField"}

(* A place that stands for a field fits one of cls, the class c. *)
DenotesField(p, cls, c) ==
  p.on \in FieldKinds =>
    /\ p.at[1] = c
    /\ p.at[2] \in DOMAIN cls.fields
    /\ p.on = IF IsFinal(cls) THEN "StaticField" ELSE "InstanceField"

FieldsFit(cls) == \A i \in DOMAIN cls.fields : IsStatic(cls.fields[i]) = IsFinal(cls)

(* The fields of a class are of its kind; the trees, and the expression    *)
(* being parsed, denote them.                                              *)
FieldPlaces ==
  /\ \A c \in DOMAIN classes : FieldsFit(classes[c])
  /\ \A c \in DOMAIN classes : \A f \in DOMAIN classes[c].functions :
       \A p \in PlacesIn(classes[c].functions[f]) : DenotesField(p, classes[c], c)
  /\ pc \in ExpressionSites => \A p \in Held : DenotesField(p, classes[class_], class_)

LEMMA PlainDenotes ==
  ASSUME NEW p, Plain(p) \/ p.on = "Local", NEW cls, NEW c
  PROVE  DenotesField(p, cls, c)
BY DEF Plain, DenotesField, FieldKinds

LEMMA StillDenotes ==
  ASSUME NEW p, NEW cls, NEW new, NEW c, DenotesField(p, cls, c), GrownFrom(new, cls)
  PROVE  DenotesField(p, new, c)
BY DEF DenotesField, GrownFrom, SameKind, IsFinal

(* A field that the class has is denoted by its own node. *)
LEMMA FieldPlaceDenotes ==
  ASSUME FieldPlaces, NEW c \in DOMAIN classes, NEW i \in DOMAIN classes[c].fields
  PROVE  DenotesField(FieldPlace(classes, c, i), classes[c], c)
BY DEF FieldPlaces, FieldsFit, FieldPlace, Place, DenotesField

(* So is what an identifier stands for. *)
LEMMA ResolveDenotes ==
  ASSUME Inv, FieldPlaces, class_ \in DOMAIN classes, NEW name
  PROVE  DenotesField(Resolve(name), classes[class_], class_)
<1>1. PICK f : f = GetField(classes[class_], name)
  OBVIOUS
<1>2. PICK v : v = Lookup(scopes[scope_], name)
  OBVIOUS
<1>3. f # Nil => f \in DOMAIN classes[class_].fields
  <2>1. classes[class_].fields \in Seq(FieldOf(ClassRef))
    BY ClassTyped DEF ClassOf
  <2>2. f \in 0 .. Len(classes[class_].fields)
    BY <1>1, <2>1, FirstNamedRange DEF GetField
  <2>. QED
    BY <2>1, <2>2 DEF Nil
<1>4. CASE v # Nil
  <2>1. Resolve(name).on = "Local"
    BY <1>2, <1>4 DEF Resolve, Place
  <2>. QED
    BY <2>1, PlainDenotes
<1>5. CASE v = Nil /\ f # Nil
  <2>1. Resolve(name) = FieldPlace(classes, class_, f)
    BY <1>1, <1>2, <1>5 DEF Resolve
  <2>. QED
    BY <1>3, <1>5, <2>1, FieldPlaceDenotes
<1>6. CASE v = Nil /\ f = Nil
  <2>1. Resolve(name) = NoPlace
    BY <1>1, <1>2, <1>6 DEF Resolve
  <2>2. Plain(NoPlace)
    BY DEF Plain, NoPlace, Place
  <2>. QED
    BY <2>1, <2>2, PlainDenotes
<1>. QED
  BY <1>4, <1>5, <1>6

(* A field that a step adds is of the kind of its class. *)
LEMMA FieldsFitStep ==
  ASSUME Inv, Enums, \A c \in DOMAIN classes : FieldsFit(classes[c]), [Next]_vars
  PROVE  \A c \in DOMAIN classes' : FieldsFit(classes'[c])
<1>1. ASSUME ChangesOpenClass, FieldsFit(classes'[class_])
      PROVE  \A c \in DOMAIN classes' : FieldsFit(classes'[c])
  BY <1>1 DEF ChangesOpenClass
<1>2. ASSUME ChangesOpenClass, class_ \in DOMAIN classes,
             SameFields(classes'[class_], classes[class_]),
             SameKind(classes'[class_], classes[class_])
      PROVE  \A c \in DOMAIN classes' : FieldsFit(classes'[c])
  BY <1>1, <1>2 DEF FieldsFit, SameFields, SameKind, IsFinal
<1>3. ASSUME ChangesOpenClass, class_ \in DOMAIN classes, NEW mods,
             OneMoreField(classes'[class_], classes[class_], mods),
             SameKind(classes'[class_], classes[class_]),
             ("static" \in mods) = IsFinal(classes[class_])
      PROVE  \A c \in DOMAIN classes' : FieldsFit(classes'[c])
  <2>1. PICK n \in Nat : n = Len(classes[class_].fields) /\ DOMAIN classes[class_].fields = 1 .. n
    BY <1>3, ClassTyped
  <2>2. PICK new : new = classes'[class_]
    OBVIOUS
  <2>3. /\ DOMAIN new.fields = 1 .. n + 1 /\ new.fields[n + 1].mods = mods
        /\ \A i \in 1 .. n : new.fields[i] = classes[class_].fields[i]
    BY <1>3, <2>1, <2>2 DEF OneMoreField
  <2>4. IsFinal(new) = IsFinal(classes[class_])
    BY <1>3, <2>2 DEF SameKind, IsFinal
  <2>5. ASSUME NEW i \in DOMAIN new.fields PROVE IsStatic(new.fields[i]) = IsFinal(new)
    <3>1. CASE i = n + 1
      BY <1>3, <2>3, <2>4, <3>1 DEF IsStatic
    <3>2. CASE i # n + 1
      <4>1. i \in 1 .. n
        BY <2>3, <3>2
      <4>2. IsStatic(classes[class_].fields[i]) = IsFinal(classes[class_])
        BY <1>3, <2>1, <4>1 DEF FieldsFit
      <4>. QED
        BY <2>3, <2>4, <4>1, <4>2
    <3>. QED
      BY <3>1, <3>2
  <2>. QED
    BY <1>1, <1>3, <2>2, <2>5 DEF FieldsFit
<1>4. ASSUME NEW name, NEW super, OpensClass(name, super)
      PROVE  \A c \in DOMAIN classes' : FieldsFit(classes'[c])
  <2>1. PICK n : n = Len(classes) + 1
    OBVIOUS
  <2>2. /\ DOMAIN classes' = DOMAIN classes \cup {n} /\ classes'[n].fields = <<>>
        /\ \A c \in DOMAIN classes : classes'[c] = classes[c]
    BY <1>4, <2>1, OpensClassEffect
  <2>3. FieldsFit(classes'[n])
    BY <2>2 DEF FieldsFit
  <2>. QED
    BY <2>2, <2>3
<1>5. ASSUME NEW name \in Names, NamesFunction(name)
      PROVE  \A c \in DOMAIN classes' : FieldsFit(classes'[c])
  BY <1>2, <1>5, NamesFunctionEffect
<1>6. ASSUME NEW f, AddsStatement(f) PROVE \A c \in DOMAIN classes' : FieldsFit(classes'[c])
  BY <1>2, <1>6, AddsStatementEffect
<1>7. ASSUME NEW type, AddsField(type) PROVE \A c \in DOMAIN classes' : FieldsFit(classes'[c])
  <2>1. ("static" \in FieldMods(classes[class_], private_)) = IsFinal(classes[class_])
    BY DEF FieldMods, Privacy, IsFinal
  <2>. QED
    BY <1>3, <1>7, <2>1, AddsFieldEffect
<1>8. ASSUME NEW name \in Names, AddsConstant(name)
      PROVE  \A c \in DOMAIN classes' : FieldsFit(classes'[c])
  <2>1. /\ ChangesOpenClass /\ class_ \in DOMAIN classes
        /\ OneMoreField(classes'[class_], classes[class_], {"static"})
        /\ SameKind(classes'[class_], classes[class_])
    BY <1>8, AddsConstantEffect
  <2>2. classes[class_].type = "enum"
    BY <1>8 DEF AddsConstant, Inv, UnderConstruction
  <2>3. "final" \in classes[class_].mods
    BY <2>1, <2>2 DEF Enums, EnumFilled, IsFinal
  <2>4. ("static" \in {"static"}) = IsFinal(classes[class_])
    BY <2>3 DEF IsFinal
  <2>. QED
    BY <1>3, <2>1, <2>4
<1>9. ASSUME \/ vars' = vars \/ Moves \/ Begins \/ Leaves \/ ClosesFunction
             \/ \E type : AddsLocal(type)
      PROVE  \A c \in DOMAIN classes' : FieldsFit(classes'[c])
  BY <1>9 DEF vars, Moves, Begins, Leaves, ClosesFunction, AddsLocal
<1>. QED
  BY <1>4, <1>5, <1>6, <1>7, <1>8, <1>9, StepKinds DEF Builds

(* There is a class under construction wherever an expression is parsed. *)
LEMMA ExpressionClass ==
  ASSUME Inv, pc \in ExpressionSites
  PROVE  class_ \in DOMAIN classes /\ scope_ \in DOMAIN scopes
<1>1. Site \in OpenSites
  BY ExpressionSite
<1>. QED
  BY <1>1, OpenTyped DEF Inv, TypeOK

LEMMA FieldPlacesKept ==
  ASSUME Inv, Enums, NoneHeld, LastField, FieldPlaces, [Next]_vars
  PROVE  FieldPlaces'
<1>1. \A c \in DOMAIN classes' : FieldsFit(classes'[c])
  BY FieldsFitStep DEF FieldPlaces
<1>2. pc \in ExpressionSites \/ Site \in {"FieldNext", "LocalNext"} => class_ \in DOMAIN classes
  <2>1. pc \in ExpressionSites \/ Site \in {"FieldNext", "LocalNext"} => Site \in OpenSites
    BY ExpressionSite DEF OpenSites, BodySites, FieldSites, FunctionSites
  <2>. QED
    BY <2>1, OpenTyped DEF Inv, TypeOK
<1>3. ASSUME NEW c \in DOMAIN classes', NEW f \in DOMAIN classes'[c].functions,
             NEW p \in PlacesIn(classes'[c].functions[f])
      PROVE  DenotesField(p, classes'[c], c)
  <2>1. CASE Refers(c, f, p)
    <3>1. DenotesField(p, classes[c], c) /\ GrownFrom(classes'[c], classes[c])
      BY <2>1, ClassesGrow DEF Refers, FieldPlaces
    <3>. QED
      BY <3>1, StillDenotes
  <2>2. CASE c = class_ /\ p \in Held /\ AddsStatement(f)
    <3>1. pc \in ExpressionSites /\ c \in DOMAIN classes
      BY <1>2, <2>2 DEF AddsStatement, ExpressionSites
    <3>2. DenotesField(p, classes[c], c) /\ GrownFrom(classes'[c], classes[c])
      BY <2>2, <3>1, ClassesGrow DEF FieldPlaces
    <3>. QED
      BY <3>2, StillDenotes
  <2>3. CASE c = class_ /\ ConstantPlace(p) /\ \E name \in Names : AddsConstant(name)
    <3>1. PICK n : n = Len(classes[class_].fields) + 1
      OBVIOUS
    <3>2. PICK name \in Names : AddsConstant(name)
      BY <2>3
    <3>3. /\ class_ \in DOMAIN classes /\ SameKind(classes'[c], classes[c])
          /\ DOMAIN classes'[c].fields = 1 .. n /\ Len(classes[class_].fields) \in Nat
      BY <2>3, <3>1, <3>2, AddsConstantEffect, ClassTyped DEF OneMoreField
    <3>4. IsFinal(classes'[c])
      <4>1. classes[class_].type = "enum"
        BY <3>2 DEF AddsConstant, Inv, UnderConstruction
      <4>. QED
        BY <2>3, <3>3, <4>1 DEF Enums, EnumFilled, IsFinal, SameKind
    <3>5. CASE p.on = "Literal"
      BY <3>5, PlainDenotes DEF Plain
    <3>6. CASE p.on = "StaticField"
      <4>1. p = Place("StaticField", class_, n)
        BY <2>3, <3>1, <3>6 DEF ConstantPlace
      <4>2. n \in 1 .. n
        BY <3>1, <3>3
      <4>. QED
        BY <2>3, <3>3, <3>4, <4>1, <4>2 DEF Place, DenotesField
    <3>. QED
      BY <2>3, <3>5, <3>6 DEF ConstantPlace
  <2>. QED
    BY <2>1, <2>2, <2>3, PlacesStep
<1>4. ASSUME Next, pc' \in ExpressionSites, NEW p \in Held'
      PROVE  DenotesField(p, classes'[class_'], class_')
  <2>1. /\ UNCHANGED <<class_, classes>>
        /\ \/ pc \in ExpressionSites /\ p \in Held
           \/ Plain(p)
           \/ \E name : p = Resolve(name)
           \/ /\ Site = "FieldNext"
              /\ p = FieldPlace(classes, class_, Len(classes[class_].fields))
           \/ /\ Site = "LocalNext"
              /\ p = Place("Local", scope_, Len(scopes[scope_].vars))
    BY <1>4, HeldStep
  <2>2. DenotesField(p, classes[class_], class_)
    <3>1. CASE pc \in ExpressionSites /\ p \in Held
      BY <3>1 DEF FieldPlaces
    <3>2. CASE Plain(p)
      BY <3>2, PlainDenotes
    <3>3. CASE \E name : p = Resolve(name)
      <4>1. class_ \in DOMAIN classes
        <5>1. (Inv /\ pc \in ExpressionSites => class_ \in DOMAIN classes)'
          BY ExpressionClass, PTL
        <5>. QED
          BY <1>4, <2>1, <5>1, NextTyped
      <4>. QED
        BY <3>3, <4>1, ResolveDenotes
    <3>4. CASE Site = "FieldNext" /\ p = FieldPlace(classes, class_, Len(classes[class_].fields))
      <4>1. class_ \in DOMAIN classes /\ Len(classes[class_].fields) > 0
        BY <1>2, <3>4 DEF LastField
      <4>2. PICK n \in Nat : n = Len(classes[class_].fields) /\ DOMAIN classes[class_].fields = 1 .. n
        BY <4>1, ClassTyped
      <4>3. n \in DOMAIN classes[class_].fields
        BY <4>1, <4>2
      <4>. QED
        BY <3>4, <4>1, <4>2, <4>3, FieldPlaceDenotes
    <3>5. CASE p = Place("Local", scope_, Len(scopes[scope_].vars))
      BY <3>5, PlainDenotes DEF Place
    <3>. QED
      BY <2>1, <3>1, <3>2, <3>3, <3>4, <3>5
  <2>. QED
    BY <2>1, <2>2
<1>5. ASSUME vars' = vars, pc' \in ExpressionSites, NEW p \in Held'
      PROVE  DenotesField(p, classes'[class_'], class_')
  BY <1>5 DEF vars, Held, FieldPlaces
<1>6. pc' \in ExpressionSites => \A p \in Held' : DenotesField(p, classes'[class_'], class_')
  BY <1>4, <1>5
<1>. QED
  BY <1>1, <1>3, <1>6 DEF FieldPlaces

LEMMA FieldPlacesHold == Spec => []FieldPlaces
<1>1. Init => FieldPlaces
  <2>1. SUFFICES ASSUME Init PROVE FieldPlaces
    OBVIOUS
  <2>2. DOMAIN classes = 1 .. 6 /\ pc \notin ExpressionSites
    BY <2>1, BuiltinKinds DEF Init, ExpressionSites
  <2>3. ASSUME NEW c \in 1 .. 6
        PROVE  /\ FieldsFit(classes[c])
               /\ \A f \in DOMAIN classes[c].functions : PlacesIn(classes[c].functions[f]) = {}
    <3>1. /\ classes[c].fields = <<>> /\ Len(classes[c].functions) = 1
          /\ classes[c].functions[1].ast = <<>>
      BY <2>1, BuiltinKinds DEF Init
    <3>2. DOMAIN classes[c].functions = 1 .. Len(classes[c].functions)
      BY <2>1, <2>2, InitInv, ClassTyped
    <3>3. \A f \in DOMAIN classes[c].functions : f = 1
      BY <3>1, <3>2
    <3>4. FieldsFit(classes[c])
      BY <3>1 DEF FieldsFit
    <3>5. PlacesIn(classes[c].functions[1]) = {}
      BY <3>1, NoPlaces
    <3>. QED
      BY <3>3, <3>4, <3>5
  <2>. QED
    BY <2>2, <2>3 DEF FieldPlaces
<1>2. Inv /\ Enums /\ NoneHeld /\ LastField /\ FieldPlaces /\ [Next]_vars => FieldPlaces'
  BY FieldPlacesKept
<1>. QED
  BY <1>1, <1>2, InvHolds, EnumsHold, NoneHeldHolds, LastFieldHolds, PTL DEF Spec

(* Every load or store of a field in a tree denotes a field that its class *)
(* has, by the node that fits its kind: Field::CreateLoad and CreateStore  *)
(* consult what Class::CreateField has decided.                            *)
THEOREM FieldNodesFit == Spec => []FieldNodesAgree
<1>1. FieldPlaces => FieldNodesAgree
  BY DEF FieldPlaces, FieldsFit, DenotesField, FieldKinds, FieldNodesAgree
<1>. QED
  BY <1>1, FieldPlacesHold, PTL

-----------------------------------------------------------------------------
(* Loads and stores of locals *)

(* After a declarator there is a local to initialise. *)
LastLocal == Site = "LocalNext" => Len(scopes[scope_].vars) > 0

LEMMA LastLocalKept ==
  ASSUME Inv, LastLocal, [Next]_vars
  PROVE  LastLocal'
<1>1. CASE UNCHANGED vars
  BY <1>1 DEF LastLocal, vars, Site
<1>2. CASE Moves
  BY <1>2 DEF LastLocal, Moves
<1>3. ASSUME NEW type, AddsLocal(type) PROVE LastLocal'
  <2>1. PICK n \in Nat : Len(scopes'[scope_].vars) = n + 1
    BY <1>3, AddsLocalEffect DEF LocalAdded
  <2>2. scope_' = scope_
    BY <1>3 DEF AddsLocal
  <2>. QED
    BY <2>1, <2>2 DEF LastLocal
<1>4. CASE Builds
  <2>1. CASE Site' = "LocalNext"
    <3>1. (\E type : AddsLocal(type)) \/ \E f : AddsStatement(f)
      BY <1>4, <2>1 DEF Builds, Begins, Leaves, ClosesFunction, OpensClass, NamesFunction,
         AddsConstant, AddsField
    <3>2. ASSUME NEW f, AddsStatement(f) PROVE LastLocal'
      BY <2>1, <3>2 DEF AddsStatement, LastLocal
    <3>. QED
      BY <1>3, <3>1, <3>2
  <2>2. CASE Site' # "LocalNext"
    BY <2>2 DEF LastLocal
  <2>. QED
    BY <2>1, <2>2
<1>. QED
  BY <1>1, <1>2, <1>4, StepKinds

LEMMA LastLocalHolds == Spec => []LastLocal
<1>1. Init => LastLocal
  BY DEF Init, LastLocal, Site, ExpressionSites
<1>2. Inv /\ LastLocal /\ [Next]_vars => LastLocal'
  BY LastLocalKept
<1>. QED
  BY <1>1, <1>2, InvHolds, PTL DEF Spec

(* Scopes only grow: a scope keeps its parent and its variables. *)
ScopesGrown ==
  \A s \in DOMAIN scopes :
    /\ s \in DOMAIN scopes' /\ scopes'[s].parent = scopes[s].parent
    /\ DOMAIN scopes[s].vars \subseteq DOMAIN scopes'[s].vars

LEMMA ScopesGrow ==
  ASSUME Inv, [Next]_vars
  PROVE  ScopesGrown
<1>1. ASSUME UNCHANGED scopes PROVE ScopesGrown
  BY <1>1 DEF ScopesGrown
<1>2. ASSUME NEW p \in ScopeRef, PushScope(p) PROVE ScopesGrown
  BY <1>2, PushScopeEffect DEF ScopeAdded, ScopesGrown
<1>3. ASSUME NEW type, AddsLocal(type) PROVE ScopesGrown
  <2>1. LocalAdded
    BY <1>3, AddsLocalEffect
  <2>2. PICK n \in Nat : /\ DOMAIN scopes[scope_].vars = 1 .. n
                         /\ DOMAIN scopes'[scope_].vars = 1 .. n + 1
    BY <2>1 DEF LocalAdded
  <2>3. DOMAIN scopes[scope_].vars \subseteq DOMAIN scopes'[scope_].vars
    BY <2>2
  <2>. QED
    BY <2>1, <2>3 DEF LocalAdded, ScopesGrown
<1>4. scope_ \in ScopeRef /\ Nil \in ScopeRef
  BY DEF Inv, TypeOK, ScopeRef, Nil
<1>5. ASSUME NEW name, NamesFunction(name) PROVE ScopesGrown
  BY <1>1, <1>2, <1>4, <1>5 DEF NamesFunction
<1>6. CASE Begins
  BY <1>2, <1>4, <1>6 DEF Begins
<1>7. ASSUME \/ vars' = vars \/ Moves \/ Leaves \/ ClosesFunction
             \/ \E name : AddsConstant(name) \/ \E super : OpensClass(name, super)
             \/ \E type : AddsField(type)
             \/ \E f : AddsStatement(f)
      PROVE  ScopesGrown
  <2>1. UNCHANGED scopes
    BY <1>7 DEF vars, Moves, Leaves, ClosesFunction, AddsConstant, OpensClass, AddsField,
       AddsStatement
  <2>. QED
    BY <1>1, <2>1
<1>. QED
  BY <1>3, <1>5, <1>6, <1>7, StepKinds DEF Builds

ExistsLocal(p) == p.at[1] \in DOMAIN scopes /\ p.at[2] \in DOMAIN scopes[p.at[1]].vars

(* A local of a function is in the function's scope; of a function without *)
(* one, in a root.                                                         *)
OwnsLocal(p, own) == IF own # Nil THEN p.at[1] = own ELSE scopes[p.at[1]].parent = Nil

LocalsExist ==
  \A c, f, p : Refers(c, f, p) /\ p.on = "Local" =>
    ExistsLocal(p) /\ OwnsLocal(p, classes[c].functions[f].scope)

Constructed(cls) ==
  HasConstructor(cls) =>
    Constructor \in DOMAIN cls.functions /\ cls.functions[Constructor].scope = Nil

Constructors == \A c \in DOMAIN classes : Constructed(classes[c])

HeldLocals ==
  pc \in ExpressionSites =>
    \A p \in Held : p.on = "Local" => p.at[1] = scope_ /\ ExistsLocal(p)

LEMMA ConstructorsKept ==
  ASSUME Inv, Constructors, [Next]_vars
  PROVE  Constructors'
<1>1. ASSUME NEW c \in DOMAIN classes PROVE Constructed(classes'[c])
  <2>1. GrownFrom(classes'[c], classes[c]) /\ Constructed(classes[c])
    BY ClassesGrow DEF Constructors
  <2>. QED
    BY <2>1 DEF GrownFrom, SameKind, Constructed, HasConstructor
<1>2. ASSUME DOMAIN classes' = DOMAIN classes PROVE Constructors'
  BY <1>1, <1>2 DEF Constructors
<1>3. ASSUME NEW name, NEW super, OpensClass(name, super) PROVE Constructors'
  <2>1. PICK n : n = Len(classes) + 1
    OBVIOUS
  <2>2. PICK new : new = classes'[n]
    OBVIOUS
  <2>3. PICK func : func = NewFunction(name, {}, VoidClass)
    OBVIOUS
  <2>4. /\ DOMAIN classes' = DOMAIN classes \cup {n} /\ new.type = loc.kw
        /\ IF loc.kw = "proto" THEN new.functions = <<>> ELSE new.functions = <<func>>
    BY <1>3, <2>1, <2>2, <2>3, OpensClassEffect
  <2>5. func.scope = Nil
    BY <2>3 DEF NewFunction
  <2>6. Constructed(new)
    BY <2>4, <2>5 DEF Constructed, HasConstructor, Constructor
  <2>. QED
    BY <1>1, <2>2, <2>4, <2>6 DEF Constructors
<1>4. ASSUME NEW name \in Names, NamesFunction(name) \/ AddsConstant(name)
      PROVE  DOMAIN classes' = DOMAIN classes
  BY <1>4, NamesFunctionEffect, AddsConstantEffect DEF ChangesOpenClass
<1>5. ASSUME NEW type, AddsField(type) \/ AddsLocal(type)
      PROVE  DOMAIN classes' = DOMAIN classes
  BY <1>5, AddsFieldEffect DEF ChangesOpenClass, AddsLocal
<1>6. ASSUME NEW f, AddsStatement(f) PROVE DOMAIN classes' = DOMAIN classes
  BY <1>6, AddsStatementEffect DEF ChangesOpenClass
<1>7. ASSUME vars' = vars \/ Moves \/ Begins \/ Leaves \/ ClosesFunction
      PROVE  DOMAIN classes' = DOMAIN classes
  BY <1>7 DEF vars, Moves, Begins, Leaves, ClosesFunction
<1>. QED
  BY <1>2, <1>3, <1>4, <1>5, <1>6, <1>7, StepKinds DEF Builds

LEMMA LocalsExistKept ==
  ASSUME Inv, ScopeFits, LocalsExist, Constructors, HeldLocals, [Next]_vars
  PROVE  LocalsExist'
<1>1. ASSUME NEW p, NEW own, ExistsLocal(p), OwnsLocal(p, own)
      PROVE  (ExistsLocal(p) /\ OwnsLocal(p, own))'
  BY <1>1, ScopesGrow DEF ScopesGrown, ExistsLocal, OwnsLocal
<1>2. ASSUME NEW c, NEW f, NEW p, Refers(c, f, p)', p.on = "Local"
      PROVE  (ExistsLocal(p) /\ OwnsLocal(p, classes[c].functions[f].scope))'
  <2>1. /\ c \in DOMAIN classes' /\ f \in DOMAIN classes'[c].functions
        /\ p \in PlacesIn(classes'[c].functions[f])
    BY <1>2 DEF Refers
  <2>2. CASE Refers(c, f, p)
    <3>1. classes'[c].functions[f].scope = classes[c].functions[f].scope
      BY <2>2, ClassesGrow DEF Refers, GrownFrom
    <3>2. ExistsLocal(p) /\ OwnsLocal(p, classes[c].functions[f].scope)
      BY <1>2, <2>2 DEF LocalsExist
    <3>. QED
      BY <1>1, <3>1, <3>2
  <2>3. CASE c = class_ /\ p \in Held /\ AddsStatement(f)
    <3>1. pc \in ExpressionSites /\ c \in DOMAIN classes /\ Site \in OpenSites
      BY <2>3, ExpressionClass, ExpressionSite DEF AddsStatement, ExpressionSites
    <3>2. p.at[1] = scope_ /\ ExistsLocal(p)
      BY <1>2, <2>3, <3>1 DEF HeldLocals
    <3>3. f \in DOMAIN classes[c].functions /\ OwnsLocal(p, classes[c].functions[f].scope)
      <4>1. CASE Site = "FieldNext"
        <5>1. f = Constructor /\ HasConstructor(classes[c])
          BY <2>3, <4>1 DEF AddsStatement
        <5>2. f \in DOMAIN classes[c].functions /\ classes[c].functions[f].scope = Nil
          BY <3>1, <5>1 DEF Constructors, Constructed
        <5>3. IsRoot(scope_)
          BY <4>1 DEF ScopeFits, BodySites, FieldSites
        <5>. QED
          BY <3>2, <5>2, <5>3 DEF OwnsLocal, IsRoot
      <4>2. CASE Site # "FieldNext"
        <5>1. Site \in FunctionSites /\ f = CurrentFunction
          BY <2>3, <4>2 DEF AddsStatement, FunctionSites
        <5>2. CurrentFunction > 0
          BY <5>1 DEF Inv, UnderConstruction, OwnScopeNested
        <5>3. f \in DOMAIN classes[c].functions
          BY <2>3, <3>1, <5>1, <5>2, ClassTyped DEF CurrentFunction
        <5>4. classes[c].functions[f].scope = OwnScope
          BY <2>3, <5>1 DEF OwnScope
        <5>5. OwnsLocal(p, OwnScope)
          BY <3>2, <5>1 DEF ScopeFits, OwnsLocal, IsRoot
        <5>. QED
          BY <5>3, <5>4, <5>5
      <4>. QED
        BY <4>1, <4>2
    <3>4. classes'[c].functions[f].scope = classes[c].functions[f].scope
      BY <3>1, <3>3, ClassesGrow DEF GrownFrom
    <3>. QED
      BY <1>1, <3>2, <3>3, <3>4
  <2>4. CASE ConstantPlace(p)
    BY <1>2, <2>4 DEF ConstantPlace
  <2>. QED
    BY <2>1, <2>2, <2>3, <2>4, PlacesStep
<1>. QED
  BY <1>2 DEF LocalsExist

LEMMA VarsTyped ==
  ASSUME Inv, NEW s \in DOMAIN scopes
  PROVE  scopes[s].vars \in Seq([name : Names, type : ClassRef])
<1>1. scopes[s] \in ScopeOf(ClassRef, ScopeRef)
  BY DEF Inv, TypeOK
<1>. QED
  BY <1>1 DEF ScopeOf

LEMMA ResolveLocalExists ==
  ASSUME Inv, scope_ \in DOMAIN scopes, NEW name, Resolve(name).on = "Local"
  PROVE  Resolve(name).at[1] = scope_ /\ ExistsLocal(Resolve(name))
<1>1. PICK v : v = Lookup(scopes[scope_], name)
  OBVIOUS
<1>2. v # Nil
  BY <1>1 DEF Resolve, FieldPlace, NoPlace, Place
<1>3. Resolve(name) = Place("Local", scope_, v)
  BY <1>1, <1>2 DEF Resolve
<1>4. scopes[scope_].vars \in Seq([name : Names, type : ClassRef])
  BY VarsTyped
<1>5. v \in 0 .. Len(scopes[scope_].vars)
  BY <1>1, <1>4, FirstNamedRange DEF Lookup
<1>6. v \in DOMAIN scopes[scope_].vars
  BY <1>2, <1>4, <1>5 DEF Nil
<1>. QED
  BY <1>3, <1>6 DEF Place, ExistsLocal

LEMMA HeldLocalsKept ==
  ASSUME Inv, NoneHeld, LastLocal, HeldLocals, [Next]_vars
  PROVE  HeldLocals'
<1>1. CASE vars' = vars
  BY <1>1 DEF vars, HeldLocals, Held, ExistsLocal
<1>2. ASSUME Next, pc' \in ExpressionSites, NEW p \in Held', p.on = "Local"
      PROVE  p.at[1] = scope_' /\ ExistsLocal(p)'
  <2>1. /\ UNCHANGED <<class_, classes, scope_, scopes>>
        /\ \/ pc \in ExpressionSites /\ p \in Held
           \/ Plain(p)
           \/ \E name : p = Resolve(name)
           \/ /\ Site = "FieldNext"
              /\ p = FieldPlace(classes, class_, Len(classes[class_].fields))
           \/ /\ Site = "LocalNext"
              /\ p = Place("Local", scope_, Len(scopes[scope_].vars))
    BY <1>2, HeldStep
  <2>2. scope_ \in DOMAIN scopes
    <3>1. (Inv /\ pc \in ExpressionSites => scope_ \in DOMAIN scopes)'
      BY ExpressionClass, PTL
    <3>. QED
      BY <1>2, <2>1, <3>1, NextTyped
  <2>3. p.at[1] = scope_ /\ ExistsLocal(p)
    <3>1. CASE pc \in ExpressionSites /\ p \in Held
      BY <1>2, <3>1 DEF HeldLocals
    <3>2. CASE \E name : p = Resolve(name)
      BY <1>2, <2>2, <3>2, ResolveLocalExists
    <3>3. CASE Site = "LocalNext" /\ p = Place("Local", scope_, Len(scopes[scope_].vars))
      <4>1. PICK n \in Nat : n = Len(scopes[scope_].vars) /\ DOMAIN scopes[scope_].vars = 1 .. n
        <5>1. scopes[scope_].vars \in Seq([name : Names, type : ClassRef])
          BY <2>2, VarsTyped
        <5>. QED
          BY <5>1
      <4>2. n \in 1 .. n
        BY <3>3, <4>1 DEF LastLocal
      <4>. QED
        BY <2>2, <3>3, <4>1, <4>2 DEF Place, ExistsLocal
    <3>4. ~Plain(p)
      BY <1>2 DEF Plain
    <3>5. p # FieldPlace(classes, class_, Len(classes[class_].fields))
      BY <1>2 DEF FieldPlace, Place
    <3>. QED
      BY <2>1, <3>1, <3>2, <3>3, <3>4, <3>5
  <2>. QED
    BY <2>1, <2>3 DEF ExistsLocal
<1>. QED
  BY <1>1, <1>2 DEF HeldLocals

-----------------------------------------------------------------------------
(* No two classes share a root *)

(* The locals of c are older than the definition in force. *)
RootsBelow(c) ==
  \A f, p : Refers(c, f, p) /\ p.on = "Local" => Root(p.at[1]) < Root(scope_)

(* The locals of c are those of the definition in force. *)
RootsHere(c) ==
  \A f, p : Refers(c, f, p) /\ p.on = "Local" => Root(p.at[1]) = Root(scope_)

RootsApart(c, d) ==
  \A f, g, p, q : Refers(c, f, p) /\ p.on = "Local" /\ Refers(d, g, q) /\ q.on = "Local" =>
    Root(p.at[1]) # Root(q.at[1])

LocalRoots ==
  /\ \A c, d : c # d => RootsApart(c, d)
  /\ Site \in HeadSites => \A c : RootsBelow(c)
  /\ Site \in OpenSites =>
       /\ \A c : c # class_ => RootsBelow(c)
       /\ RootsHere(class_)

LEMMA RootTyped ==
  ASSUME Inv, NEW s \in DOMAIN scopes
  PROVE  Root(s) \in 1 .. Len(scopes)
<1>1. scopes[s] \in ScopeOf(ClassRef, ScopeRef) /\ s \in 1 .. Len(scopes)
  BY DEF Inv, TypeOK
<1>2. scopes[s].parent \in 0 .. Len(scopes)
  BY <1>1 DEF ScopeOf, ScopeRef
<1>. QED
  BY <1>1, <1>2 DEF Root, Nil

(* A local that a tree holds keeps its root. *)
LEMMA RootKept ==
  ASSUME Inv, LocalsExist, [Next]_vars, NEW c, NEW f, NEW p, Refers(c, f, p), p.on = "Local"
  PROVE  /\ Root(p.at[1])' = Root(p.at[1]) /\ Root(p.at[1]) \in 1 .. Len(scopes)
         /\ p.at[1] \in DOMAIN scopes
<1>1. p.at[1] \in DOMAIN scopes
  BY DEF LocalsExist, ExistsLocal
<1>2. Root(p.at[1]) \in 1 .. Len(scopes)
  BY <1>1, RootTyped
<1>. QED
  BY <1>1, <1>2, ScopesGrow DEF ScopesGrown, Root

(* A local of a tree was there before, or it belongs to the expression of  *)
(* the class under construction that has just been completed, whose locals *)
(* are in the scope in force.                                              *)
LEMMA LocalsStep ==
  ASSUME Inv, HeldLocals, [Next]_vars, NEW c, NEW f, NEW p, Refers(c, f, p)', p.on = "Local"
  PROVE  \/ Refers(c, f, p)
         \/ c = class_ /\ AddsStatement(f) /\ p.at[1] = scope_ /\ scope_ \in DOMAIN scopes
<1>1. /\ c \in DOMAIN classes' /\ f \in DOMAIN classes'[c].functions
      /\ p \in PlacesIn(classes'[c].functions[f])
  BY DEF Refers
<1>2. ~ConstantPlace(p)
  BY DEF ConstantPlace
<1>3. ASSUME p \in Held, AddsStatement(f) PROVE p.at[1] = scope_ /\ scope_ \in DOMAIN scopes
  <2>1. pc \in ExpressionSites
    BY <1>3 DEF AddsStatement, ExpressionSites
  <2>. QED
    BY <1>3, <2>1, ExpressionClass DEF HeldLocals
<1>. QED
  BY <1>1, <1>2, <1>3, PlacesStep

LEMMA RootsApartKept ==
  ASSUME Inv, LocalsExist, HeldLocals, LocalRoots, [Next]_vars
  PROVE  \A c, d : c # d => RootsApart(c, d)'
<1>1. ASSUME NEW c, NEW d, NEW f, NEW g, NEW p, NEW q, c # d, AddsStatement(f), c = class_,
             p.at[1] = scope_, Refers(d, g, q), q.on = "Local", scope_ \in DOMAIN scopes
      PROVE  Root(p.at[1])' # Root(q.at[1])'
  <2>1. Site \in OpenSites /\ UNCHANGED scopes
    BY <1>1, ExpressionSite DEF AddsStatement, ExpressionSites
  <2>2. Root(q.at[1]) < Root(scope_) /\ Root(q.at[1])' = Root(q.at[1])
    BY <1>1, <2>1, RootKept DEF LocalRoots, RootsBelow
  <2>3. Root(p.at[1])' = Root(scope_) /\ Root(scope_) \in 1 .. Len(scopes)
    BY <1>1, <2>1, RootTyped DEF Root
  <2>4. Root(q.at[1]) \in 1 .. Len(scopes)
    BY <1>1, RootKept
  <2>. QED
    BY <2>2, <2>3, <2>4
<1>2. ASSUME NEW c, NEW d, NEW f, NEW g, NEW p, NEW q, c # d,
             Refers(c, f, p)', p.on = "Local", Refers(d, g, q)', q.on = "Local"
      PROVE  Root(p.at[1])' # Root(q.at[1])'
  <2>1. CASE Refers(c, f, p) /\ Refers(d, g, q)
    <3>1. Root(p.at[1]) # Root(q.at[1])
      BY <1>2, <2>1 DEF LocalRoots, RootsApart
    <3>. QED
      BY <1>2, <2>1, <3>1, RootKept
  <2>2. CASE ~Refers(c, f, p)
    <3>1. c = class_ /\ AddsStatement(f) /\ p.at[1] = scope_ /\ scope_ \in DOMAIN scopes
      BY <1>2, <2>2, LocalsStep
    <3>2. Refers(d, g, q)
      BY <1>2, <3>1, LocalsStep
    <3>. QED
      BY <1>1, <1>2, <3>1, <3>2
  <2>3. CASE ~Refers(d, g, q)
    <3>1. d = class_ /\ AddsStatement(g) /\ q.at[1] = scope_ /\ scope_ \in DOMAIN scopes
      BY <1>2, <2>3, LocalsStep
    <3>2. Refers(c, f, p)
      BY <1>2, <3>1, LocalsStep
    <3>. QED
      BY <1>1, <1>2, <3>1, <3>2
  <2>. QED
    BY <2>1, <2>2, <2>3
<1>. QED
  BY <1>2 DEF RootsApart

(* Within a definition the root in force stays, while the class under      *)
(* construction fills.                                                     *)
LEMMA RootsInDefinition ==
  ASSUME Inv, LocalsExist, HeldLocals, LocalRoots, [Next]_vars,
         Site \in OpenSites, class_' = class_, Root(scope_)' = Root(scope_)
  PROVE  (/\ \A c : c # class_ => RootsBelow(c)
          /\ RootsHere(class_))'
<1>1. ASSUME NEW c, NEW f, NEW p, c # class_, Refers(c, f, p)', p.on = "Local"
      PROVE  Root(p.at[1])' < Root(scope_)'
  <2>1. Refers(c, f, p)
    BY <1>1, LocalsStep
  <2>2. Root(p.at[1]) < Root(scope_) /\ Root(p.at[1])' = Root(p.at[1])
    BY <1>1, <2>1, RootKept DEF LocalRoots, RootsBelow
  <2>. QED
    BY <2>2
<1>2. ASSUME NEW c, NEW f, NEW p, c = class_, Refers(c, f, p)', p.on = "Local"
      PROVE  Root(p.at[1])' = Root(scope_)'
  <2>1. CASE Refers(c, f, p)
    BY <1>2, <2>1, RootKept DEF LocalRoots, RootsHere
  <2>2. CASE ~Refers(c, f, p)
    <3>1. AddsStatement(f) /\ p.at[1] = scope_ /\ scope_ \in DOMAIN scopes
      BY <1>2, <2>2, LocalsStep
    <3>2. Root(p.at[1])' = Root(scope_)
      BY <3>1 DEF AddsStatement, Root
    <3>. QED
      BY <3>2
  <2>. QED
    BY <2>1, <2>2
<1>. QED
  BY <1>1, <1>2 DEF RootsBelow, RootsHere

LEMMA RootsBelowKept ==
  ASSUME Inv, LocalsExist, HeldLocals, [Next]_vars, \A c : RootsBelow(c),
         Root(scope_)' = Root(scope_), Site \notin OpenSites,
         NEW c, NEW f, NEW p, Refers(c, f, p)', p.on = "Local"
  PROVE  Refers(c, f, p) /\ Root(p.at[1])' < Root(scope_)'
<1>1. ~AddsStatement(f)
  BY DEF AddsStatement, OpenSites, BodySites, FieldSites, FunctionSites
<1>2. Refers(c, f, p)
  BY <1>1, LocalsStep
<1>. QED
  BY <1>2, RootKept DEF RootsBelow

LEMMA LocalRootsKept ==
  ASSUME Inv, ScopeFits, LocalsExist, HeldLocals, LocalRoots, [Next]_vars
  PROVE  LocalRoots'
<1>. DEFINE Heads == Site \in HeadSites => \A c : RootsBelow(c)
            Inside == Site \in OpenSites => /\ \A c : c # class_ => RootsBelow(c)
                                            /\ RootsHere(class_)
<1>1. ASSUME Site \in OpenSites, Site' \notin HeadSites, class_' = class_,
             Root(scope_)' = Root(scope_)
      PROVE  Heads' /\ Inside'
  BY <1>1, RootsInDefinition
<1>2. ASSUME Site' \notin HeadSites \cup OpenSites PROVE Heads' /\ Inside'
  BY <1>2
<1>3. ASSUME Site \in HeadSites, Site' \in HeadSites, Root(scope_)' = Root(scope_)
      PROVE  Heads' /\ Inside'
  <2>1. Site \notin OpenSites /\ Site' \notin OpenSites
    BY <1>3, SitesDisjoint
  <2>2. \A c : RootsBelow(c)
    BY <1>3 DEF LocalRoots
  <2>3. \A c : RootsBelow(c)'
    BY <1>3, <2>1, <2>2, RootsBelowKept DEF RootsBelow
  <2>. QED
    BY <2>1, <2>3
<1>4. ASSUME Moves \/ vars' = vars PROVE Heads' /\ Inside'
  <2>1. UNCHANGED <<class_, scope_, scopes>>
    BY <1>4 DEF Moves, vars
  <2>2. Root(scope_)' = Root(scope_)
    BY <2>1 DEF Root
  <2>3. \/ Site' \notin HeadSites \cup OpenSites
        \/ Site \in HeadSites /\ Site' \in HeadSites
        \/ Site \in OpenSites /\ Site' \in OpenSites
    <3>1. CASE Moves
      <4>1. Site' \in Stopped => Site' \notin HeadSites \cup OpenSites
        BY DEF Stopped, HeadSites, OpenSites, BodySites, FieldSites, FunctionSites
      <4>2. \A g \in Regions : g = HeadSites \/ g \subseteq OpenSites
        BY SitesDisjoint DEF Regions
      <4>. QED
        BY <3>1, <4>1, <4>2 DEF Moves, StaysInRegion
    <3>2. CASE vars' = vars
      BY <3>2 DEF vars, Site
    <3>. QED
      BY <1>4, <3>1, <3>2
  <2>. QED
    BY <1>1, <1>2, <1>3, <2>1, <2>2, <2>3, SitesDisjoint
<1>5. ASSUME Begins PROVE Heads' /\ Inside'
  <2>1. ScopeAdded(Nil) /\ Site' = "Definition" /\ Site \notin OpenSites
    BY <1>5, PushScopeEffect DEF Begins, ScopeRef, Nil, Inv, TypeOK, OpenSites, BodySites,
       FieldSites, FunctionSites
  <2>2. PICK n \in Nat : n = Len(scopes) + 1
    BY DEF Inv, TypeOK
  <2>3. scope_' = n /\ scopes'[n].parent = Nil
    BY <2>1, <2>2 DEF ScopeAdded
  <2>4. Root(scope_)' = n
    BY <2>3 DEF Root
  <2>5. ASSUME NEW c, NEW f, NEW p, Refers(c, f, p)', p.on = "Local"
        PROVE  Root(p.at[1])' < Root(scope_)'
    <3>1. ~AddsStatement(f)
      BY <2>1 DEF AddsStatement, OpenSites, BodySites, FieldSites, FunctionSites
    <3>2. Refers(c, f, p)
      BY <2>5, <3>1, LocalsStep
    <3>3. Root(p.at[1])' \in 1 .. Len(scopes)
      BY <2>5, <3>2, RootKept
    <3>. QED
      BY <2>2, <2>4, <3>3
  <2>6. Site' \notin OpenSites
    BY <2>1 DEF OpenSites, BodySites, FieldSites, FunctionSites
  <2>. QED
    BY <2>5, <2>6 DEF RootsBelow
<1>6. ASSUME NEW name, NEW super, OpensClass(name, super) PROVE Heads' /\ Inside'
  <2>1. /\ Site \in HeadSites /\ Site \notin OpenSites /\ Site' \notin HeadSites
        /\ UNCHANGED <<scope_, scopes>>
    BY <1>6 DEF OpensClass, HeadSites, OpenSites, BodySites, FieldSites, FunctionSites
  <2>2. class_' \notin DOMAIN classes
    BY <1>6, OpensClassEffect
  <2>3. \A c : RootsBelow(c)
    BY <2>1 DEF LocalRoots
  <2>4. Root(scope_)' = Root(scope_)
    BY <2>1 DEF Root
  <2>5. \A c : RootsBelow(c)'
    BY <2>1, <2>3, <2>4, RootsBelowKept DEF RootsBelow
  <2>6. ASSUME NEW c, c = class_', NEW f, NEW p, Refers(c, f, p)', p.on = "Local" PROVE FALSE
    <3>1. Refers(c, f, p)
      BY <2>1, <2>3, <2>4, <2>6, RootsBelowKept
    <3>. QED
      BY <2>2, <2>6, <3>1 DEF Refers
  <2>7. RootsHere(class_)'
    BY <2>6 DEF RootsHere
  <2>. QED
    BY <2>1, <2>5, <2>7
<1>7. ASSUME NEW name, NamesFunction(name) PROVE Heads' /\ Inside'
  <2>1. /\ Site \in BodySites /\ Site \in OpenSites /\ Site' \notin HeadSites
        /\ class_' = class_
    BY <1>7 DEF NamesFunction, HeadSites, OpenSites, BodySites
  <2>2. IsRoot(scope_) /\ scope_ \in ScopeRef /\ scope_ \in DOMAIN scopes
    BY <2>1 DEF ScopeFits, IsRoot, Inv, TypeOK
  <2>3. Root(scope_) = scope_ /\ scope_ # Nil
    BY <2>2 DEF IsRoot, Root, Inv, TypeOK, Nil
  <2>4. CASE UNCHANGED <<scopes, scope_>>
    BY <1>1, <2>1, <2>4 DEF Root
  <2>5. CASE PushScope(scope_)
    <3>1. ScopeAdded(scope_)
      BY <2>2, <2>5, PushScopeEffect
    <3>2. scopes'[scope_'].parent = scope_
      BY <3>1 DEF ScopeAdded
    <3>3. Root(scope_)' = scope_
      BY <2>3, <3>2 DEF Root
    <3>. QED
      BY <1>1, <2>1, <2>3, <3>3
  <2>. QED
    BY <1>7, <2>4, <2>5 DEF NamesFunction
<1>8. ASSUME ClosesFunction PROVE Heads' /\ Inside'
  <2>1. /\ Site \in FunctionSites /\ Site \in OpenSites /\ Site' \notin HeadSites
        /\ UNCHANGED <<scopes, class_>>
    BY <1>8 DEF ClosesFunction, HeadSites, OpenSites
  <2>2. scope_' = IF OwnScope # Nil THEN scopes[scope_].parent ELSE scope_
    BY <1>8 DEF ClosesFunction, RestoreScope, OwnScope
  <2>3. Nil \notin DOMAIN scopes
    BY DEF Inv, TypeOK, Nil
  <2>4. Root(scope_') = Root(scope_)
    BY <2>1, <2>2, <2>3 DEF ScopeFits, IsRoot, Root
  <2>5. Root(scope_)' = Root(scope_)
    BY <2>1, <2>4 DEF Root
  <2>. QED
    BY <1>1, <2>1, <2>5
<1>9. ASSUME \/ \E name : AddsConstant(name)
             \/ \E type : AddsField(type) \/ AddsLocal(type)
             \/ \E f : AddsStatement(f)
      PROVE  Heads' /\ Inside'
  <2>1. UNCHANGED <<class_, scope_>>
    BY <1>9 DEF AddsConstant, AddsField, AddsLocal, AddsStatement
  <2>2. Site \in OpenSites /\ Site' \notin HeadSites
    BY <1>9 DEF AddsConstant, AddsField, AddsLocal, AddsStatement, OpenSites, BodySites,
       FieldSites, FunctionSites, HeadSites
  <2>3. scope_ \in DOMAIN scopes
    BY <2>2, OpenTyped DEF Inv, TypeOK
  <2>4. Root(scope_)' = Root(scope_)
    BY <2>1, <2>3, ScopesGrow DEF ScopesGrown, Root
  <2>. QED
    BY <1>1, <2>1, <2>2, <2>4
<1>10. ASSUME Leaves PROVE Heads' /\ Inside'
  BY <1>2, <1>10 DEF Leaves, HeadSites, OpenSites, BodySites, FieldSites, FunctionSites
<1>. HIDE DEF Heads, Inside
<1>11. Heads' /\ Inside'
  BY <1>4, <1>5, <1>6, <1>7, <1>8, <1>9, <1>10, StepKinds DEF Builds
<1>12. \A c, d : c # d => RootsApart(c, d)'
  BY RootsApartKept
<1>. QED
  BY <1>11, <1>12 DEF Heads, Inside, LocalRoots

-----------------------------------------------------------------------------
LEMMA LocalsInit == Init => LocalsExist /\ Constructors /\ HeldLocals /\ LocalRoots
<1>. SUFFICES ASSUME Init PROVE LocalsExist /\ Constructors /\ HeldLocals /\ LocalRoots
  OBVIOUS
<1>1. DOMAIN classes = 1 .. 6 /\ pc \notin ExpressionSites /\ Inv /\ Site = "Parse"
  BY BuiltinKinds, InitInv DEF Init, ExpressionSites, Site
<1>2. ASSUME NEW c \in DOMAIN classes
      PROVE  /\ Constructed(classes[c])
             /\ \A f \in DOMAIN classes[c].functions : PlacesIn(classes[c].functions[f]) = {}
  <2>1. /\ Len(classes[c].functions) = 1 /\ classes[c].functions[1].ast = <<>>
        /\ classes[c].functions[1].scope = Nil
    BY <1>1, BuiltinKinds DEF Init
  <2>2. DOMAIN classes[c].functions = 1 .. Len(classes[c].functions)
    BY <1>1, ClassTyped
  <2>3. PlacesIn(classes[c].functions[1]) = {}
    BY <2>1, NoPlaces
  <2>4. \A f \in DOMAIN classes[c].functions : f = 1
    BY <2>1, <2>2
  <2>5. Constructed(classes[c])
    BY <2>1, <2>2 DEF Constructed, Constructor
  <2>. QED
    BY <2>3, <2>4, <2>5
<1>3. \A c, f, p : ~Refers(c, f, p)
  BY <1>2 DEF Refers
<1>4. Site \notin HeadSites \cup OpenSites
  BY <1>1 DEF HeadSites, OpenSites, BodySites, FieldSites, FunctionSites
<1>. QED
  BY <1>1, <1>2, <1>3, <1>4 DEF LocalsExist, Constructors, HeldLocals, LocalRoots, RootsApart

LEMMA LocalsHold == Spec => [](LocalsExist /\ LocalRoots)
<1>. DEFINE Locals == LocalsExist /\ Constructors /\ HeldLocals /\ LocalRoots
<1>1. Init => Locals
  BY LocalsInit
<1>2. Inv /\ ScopeFits /\ NoneHeld /\ LastLocal /\ Locals /\ [Next]_vars => Locals'
  BY LocalsExistKept, ConstructorsKept, HeldLocalsKept, LocalRootsKept
<1>3. Spec => []Locals
  <2>. HIDE DEF Locals
  <2>. QED
    BY <1>1, <1>2, InvHolds, ScopeFitsHolds, NoneHeldHolds, LastLocalHolds, PTL DEF Spec
<1>4. Locals => LocalsExist /\ LocalRoots
  OBVIOUS
<1>. QED
  BY <1>3, <1>4, PTL

(* A load or store of a local denotes a variable that exists, in the scope *)
(* of its own function or in the definition's root, and no two classes     *)
(* refer to locals below one root: LocalScope::Lookup never leads out of   *)
(* the definition that is being parsed.                                    *)
THEOREM LocalsStayHome == Spec => []LocalsStayInDefinition
<1>1. ASSUME LocalsExist, LocalRoots PROVE LocalsStayInDefinition
  <2>1. ASSUME NEW c \in DOMAIN classes, NEW f \in DOMAIN classes[c].functions
        PROVE  LET func == classes[c].functions[f]
               IN  /\ \A p \in PlacesIn(func) :
                        p.on = "Local" => p.at[2] \in DOMAIN scopes[p.at[1]].vars
                   /\ IF func.scope # Nil THEN LocalScopes(func) \subseteq {func.scope}
                      ELSE \A s \in LocalScopes(func) : scopes[s].parent = Nil
    <3>. DEFINE func == classes[c].functions[f]
    <3>1. \A p \in PlacesIn(func) : p.on = "Local" => ExistsLocal(p) /\ OwnsLocal(p, func.scope)
      BY <1>1 DEF LocalsExist, Refers
    <3>2. \A s \in LocalScopes(func) : \E p \in PlacesIn(func) : p.on = "Local" /\ s = p.at[1]
      BY DEF LocalScopes
    <3>. QED
      BY <3>1, <3>2 DEF ExistsLocal, OwnsLocal
  <2>2. ASSUME NEW c \in DOMAIN classes, NEW d \in DOMAIN classes, c # d
        PROVE  LET RootsOf(e) == { Root(s) : s \in UNION { LocalScopes(classes[e].functions[f]) :
                                                            f \in DOMAIN classes[e].functions } }
               IN  RootsOf(c) \cap RootsOf(d) = {}
    <3>. DEFINE RootsOf(e) == { Root(s) : s \in UNION { LocalScopes(classes[e].functions[f]) :
                                                        f \in DOMAIN classes[e].functions } }
    <3>1. ASSUME NEW e \in DOMAIN classes, NEW r \in RootsOf(e)
          PROVE  \E f, p : Refers(e, f, p) /\ p.on = "Local" /\ r = Root(p.at[1])
      <4>1. PICK f \in DOMAIN classes[e].functions :
              \E s \in LocalScopes(classes[e].functions[f]) : r = Root(s)
        BY <3>1
      <4>2. PICK p \in PlacesIn(classes[e].functions[f]) : p.on = "Local" /\ r = Root(p.at[1])
        BY <4>1 DEF LocalScopes
      <4>. QED
        BY <4>1, <4>2 DEF Refers
    <3>. HIDE DEF RootsOf
    <3>2. RootsApart(c, d)
      BY <1>1, <2>2 DEF LocalRoots
    <3>3. ASSUME NEW r \in RootsOf(c), r \in RootsOf(d) PROVE FALSE
      BY <3>1, <3>2, <3>3 DEF RootsApart
    <3>4. RootsOf(c) \cap RootsOf(d) = {}
      BY <3>3
    <3>. QED
      BY <3>4 DEF RootsOf
  <2>. QED
    BY <2>1, <2>2 DEF LocalsStayInDefinition
<1>2. LocalsExist /\ LocalRoots => LocalsStayInDefinition
  BY <1>1
<1>. QED
  BY <1>2, LocalsHold, PTL
=============================================================================
