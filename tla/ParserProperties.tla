-------------------------- MODULE ParserProperties ---------------------------
(***************************************************************************)
(* What Parser must guarantee: its type invariant, how the scope in force  *)
(* and a pending `private' follow the grammar, what the syntax trees refer *)
(* to, the CodeUnit that it implements, and termination.                   *)
(***************************************************************************)
EXTENDS Parser

-----------------------------------------------------------------------------
(* Where the parser stands.  An expression belongs to the construct it     *)
(* returns to; the expression of a parameter default belongs to Params.    *)

ExpressionSites == {"Unary", "Binary"}

Site == IF pc \notin ExpressionSites THEN pc
        ELSE IF loc.back = "Aborted" THEN "Params" ELSE loc.back

(* Between a definition's first token and its opening brace. *)
HeadSites == {"Definition", "DefinitionName", "Head", "Extends"}

FieldSites == {"Fields", "FieldColon", "FieldType", "FieldNext"}

(* Inside the braces of a definition, outside its functions. *)
BodySites == {"Body", "EnumOpen", "EnumBody", "FuncName", "MethodName"} \cup FieldSites

(* From a function's name to its closing brace. *)
FunctionSites == {"ParamOpen", "Params", "ParamColon", "ParamType", "ParamDefault",
                  "FuncOpen", "Statement", "StatementEnd", "Locals", "LocalColon",
                  "LocalType", "LocalNext", "Assign", "FuncClose", "ProtoFuncEnd"}

Sites == {"Parse"} \cup HeadSites \cup BodySites \cup FunctionSites \cup Stopped

-----------------------------------------------------------------------------
(* Types *)

PlaceType == [on : {"Literal", "Local", "StaticField", "InstanceField", "Return", "None"},
              at : Nat \X Nat]
ExprType  == [leaves : Seq(PlaceType), ops : Seq(Operators)]
StmtType  == [dest : PlaceType, value : ExprType]
Modifier  == {"private", "static", "final"}
Names     == Idents \cup {"Object", "String", "Bool", "Int", "Double", "Void"}

(* Objects whose pointers lead to the classes R and the scopes S. *)
FieldOf(R) == [name : Names, type : R, mods : SUBSET Modifier]
FunctionOf(R, S) ==
  [name : Names, mods : SUBSET Modifier, ret : R, scope : S, ast : Seq(StmtType)]
ClassOf(R, S) ==
  [name : Names, mods : SUBSET Modifier, super : R,
   type : {"class", "object", "proto", "enum"},
   fields : Seq(FieldOf(R)), functions : Seq(FunctionOf(R, S))]
ScopeOf(R, S) ==
  [parent : S, child : S, sibling : S, vars : Seq([name : Names, type : R])]

LocalsOf(R) ==
  [kw : {"", "class", "object", "proto", "enum"}, name : Idents \cup {""}, ref : R,
   done : BOOLEAN, expr : ExprType, dest : PlaceType,
   back : {"", "FieldNext", "LocalNext", "StatementEnd", "Aborted"}]

ClassRef == 0 .. Len(classes)
ScopeRef == 0 .. Len(scopes)

(* Types of the parser's members and of the objects it builds: every       *)
(* pointer it keeps is null or leads to an object that exists.             *)
TypeOK ==
  /\ Site \in Sites
  /\ pos \in 0 .. MaxTokens
  /\ peek_ \in Readable \cup {NoToken}
  /\ private_ \in BOOLEAN
  /\ class_ \in ClassRef
  /\ code_ \in Seq(ClassRef \ {Nil})
  /\ scope_ \in ScopeRef
  /\ classes \in Seq(ClassOf(ClassRef, ScopeRef))
  /\ scopes \in Seq(ScopeOf(ClassRef, ScopeRef))
  /\ loc \in LocalsOf(ClassRef)

-----------------------------------------------------------------------------
(* Scopes *)

Root(s) == IF scopes[s].parent = Nil THEN s ELSE scopes[s].parent

(* The scope in force fits the construct being parsed: outside functions   *)
(* the root that ParseDefinition opened last, inside a `func' the scope    *)
(* attached to it, a child of that root; a typed method stays in the root. *)
(* Parser::scope_ against the nesting of ParseDefinition (parser.cc).      *)
ScopeFollowsGrammar ==
  LET roots == { s \in DOMAIN scopes : scopes[s].parent = Nil }
      own   == classes[class_].functions[CurrentFunction].scope
  IN  /\ Site \in HeadSites \cup BodySites => scope_ \in roots
      /\ Site \in FunctionSites =>
           IF own # Nil THEN scope_ = own /\ scopes[own].parent \in roots
                        ELSE scope_ \in roots
      /\ Site \in HeadSites \cup BodySites \cup FunctionSites =>
           \A r \in roots : r <= Root(scope_)

Places(stmt) == {stmt.dest} \cup Range(stmt.value.leaves)
PlacesIn(func) == UNION { Places(func.ast[i]) : i \in DOMAIN func.ast }
LocalScopes(func) == { p.at[1] : p \in { q \in PlacesIn(func) : q.on = "Local" } }

(* A load or store of a local denotes a variable that exists; in a `func'  *)
(* it is one of that function's own, in any other function one of the      *)
(* definition's root scope; and no two classes share a root, so that no    *)
(* local is reachable from another definition.  LocalScope::Lookup as      *)
(* ParseUnaryExpr and ParseStatement use it.                               *)
LocalsStayInDefinition ==
  /\ \A c \in DOMAIN classes : \A f \in DOMAIN classes[c].functions :
       LET func == classes[c].functions[f]
       IN  /\ \A p \in PlacesIn(func) :
                p.on = "Local" => p.at[2] \in DOMAIN scopes[p.at[1]].vars
           /\ IF func.scope # Nil THEN LocalScopes(func) \subseteq {func.scope}
              ELSE \A s \in LocalScopes(func) : scopes[s].parent = Nil
  /\ \A c, d \in DOMAIN classes :
       LET RootsOf(e) == { Root(s) : s \in UNION { LocalScopes(classes[e].functions[f]) :
                                                    f \in DOMAIN classes[e].functions } }
       IN  c # d => RootsOf(c) \cap RootsOf(d) = {}

-----------------------------------------------------------------------------
(* `private' *)

(* A pending `private' is spent before the parameters and the body of the  *)
(* declaration it qualifies: it never reaches a function or an enum body,  *)
(* where ParseLocals would drop it.                                        *)
PrivateConfined ==
  private_ => Site \notin FunctionSites \cup {"EnumOpen", "EnumBody"}

LastMods(seq) == seq[Len(seq)].mods

(* What a step declares is private exactly when a `private' was pending,   *)
(* and a pending `private' disappears only onto the declaration it         *)
(* qualified.  private_ across ParseDefinition and ParseFields.            *)
PrivateQualifies ==
  [][LET new    == Len(classes') > Len(classes)
         mine   == classes[class_]
         mine_  == classes'[class_]
         method == class_ # Nil /\ Len(mine_.functions) > Len(mine.functions)
         field  == class_ # Nil /\ Len(mine_.fields) > Len(mine.fields)
     IN  /\ new => private_ = ("private" \in LastMods(classes'))
         /\ method => private_ = ("private" \in LastMods(mine_.functions))
         /\ field => private_ = ("private" \in LastMods(mine_.fields))
         /\ private_ /\ ~private_' =>
              \/ new \/ method
              \/ pc = "FieldNext" /\ "private" \in LastMods(mine.fields)]_vars

-----------------------------------------------------------------------------
(* Syntax trees and fields *)

(* Every load or store of a field denotes a field that its class has, by   *)
(* the node that fits the field's kind: static in an object or an enum, of *)
(* the instance elsewhere.  Class::CreateField with Field::CreateLoad and  *)
(* CreateStore.                                                            *)
FieldNodesAgree ==
  \A c \in DOMAIN classes : \A f \in DOMAIN classes[c].functions :
    \A p \in PlacesIn(classes[c].functions[f]) :
      p.on \in {"StaticField", "InstanceField"} =>
        /\ p.at[1] = c
        /\ p.at[2] \in DOMAIN classes[c].fields
        /\ p.on = IF IsFinal(classes[c]) THEN "StaticField" ELSE "InstanceField"
        /\ IsStatic(classes[c].fields[p.at[2]]) = IsFinal(classes[c])

(* The constructor of an enum stores into its k-th constant the ordinal k, *)
(* once and in order.  EnumConstant of ParseDefinition (parser.cc:511).    *)
EnumOrdinals ==
  \A c \in DOMAIN classes : classes[c].type = "enum" =>
    classes[c].functions[Constructor].ast =
      [k \in DOMAIN classes[c].fields |->
         [dest |-> Place("StaticField", c, k), value |-> Literal(IntClass, k)]]

-----------------------------------------------------------------------------
(* The code unit *)

CU == INSTANCE CodeUnit WITH
        unit   <- [i \in DOMAIN code_ |-> [id |-> code_[i], class |-> classes[code_[i]]]],
        status <- IF pc \notin Stopped THEN "open"
                  ELSE IF pc = "Done" THEN "closed" ELSE "failed"

(* Parser implements CodeUnit: a class that was handed over is never       *)
(* changed again, names only classes handed over before it, and nothing    *)
(* moves once Parse has returned.                                          *)
ImplementsCodeUnit == CU!Spec

(* The classes that the class under construction may name. *)
Nameable ==
  Range(code_) \cup {Nil, ObjectClass, VoidClass}
    \cup (IF classes[class_].type = "enum" THEN {class_} ELSE {})

(* The class under construction is the newest one, it is not registered    *)
(* yet, and it names only classes that are.                                *)
OpenClassOK ==
  /\ class_ = Len(classes)
  /\ class_ \notin Range(code_)
  /\ classes[class_] \in ClassOf(Nameable, ScopeRef)
  /\ classes[class_].super \in Range(code_) \cup {Nil, ObjectClass}

(* Where loc holds the name of what is being declared. *)
NamedSites == {"Head", "Extends", "FieldColon", "FieldType", "LocalColon", "LocalType",
               "ParamColon", "ParamType", "ParamDefault"}

(* There is a current function, and if it has a scope of its own, the      *)
(* scope in force has a parent to go back to.                              *)
OwnScopeNested ==
  /\ CurrentFunction > 0
  /\ classes[class_].functions[CurrentFunction].scope # Nil
       => scopes[scope_].parent # Nil

(* What makes each step of Parser a step of CodeUnit.  Before a definition *)
(* opens, class_ is null or the class registered last; once it is open,    *)
(* OpenClassOK holds; a class that the parser has looked up is registered; *)
(* the scope in force exists.                                              *)
UnderConstruction ==
  /\ Len(classes) >= VoidClass
  /\ Site \in {"Parse"} \cup HeadSites /\ class_ # Nil =>
       Len(code_) > 0 /\ class_ = code_[Len(code_)]
  /\ Site \in HeadSites \cup BodySites \cup FunctionSites => scope_ # Nil
  /\ Site \in BodySites \cup FunctionSites => OpenClassOK
  /\ Site \in FunctionSites => OwnScopeNested
  /\ Site \in HeadSites \ {"Definition"} =>
       loc.kw # "" /\ loc.ref \in Range(code_) \cup {Nil, ObjectClass}
  /\ Site \in NamedSites => loc.name \in Idents
  /\ Site \in {"FuncName", "MethodName"} =>
       loc.ref \in Range(code_) \cup {Nil, VoidClass}
  /\ Site \in {"EnumOpen", "EnumBody"} => classes[class_].type = "enum"

(* A class is added at most twice, the second time right after the first,  *)
(* and only by a kEOF behind a dangling `private', where ParseDefinition   *)
(* returns the previous class_ (parser.cc:535).  That `private' qualifies  *)
(* what follows: it is pending, or it is a modifier of the next class,     *)
(* which is read when the kEOF came from a byte 0xFF.                      *)
RegisteredOnce ==
  \A i, j \in DOMAIN code_ : i < j /\ code_[i] = code_[j] =>
    /\ i = j - 1
    /\ IF j < Len(code_) THEN "private" \in classes[code_[j + 1]].mods
       ELSE IF class_ = code_[j] THEN private_
       ELSE "private" \in classes[class_].mods

-----------------------------------------------------------------------------
(* Parse reaches its end on every file whose tokens the lexer delivers: it *)
(* returns, or the process dies.  The loops of ParseDefinition, ParseLocals*)
(* and ParseBinaryExpr all consume.                                        *)
ParseTerminates == <>(pc \in Stopped)
=============================================================================
