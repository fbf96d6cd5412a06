------------------------------- MODULE Parser --------------------------------
(***************************************************************************)
(* Parser of Sources/parser.h and parser.cc as a state machine over        *)
(* tokens: one step reads one token (CONSUME, EXPECT or PeekToken) and     *)
(* performs everything the code does up to the next read.  pc names the    *)
(* read that comes next.  The recursive-descent calls nest to a fixed      *)
(* depth, except for ParseBinaryExpr; its recursion is a right comb, which *)
(* loc.expr accumulates.                                                   *)
(*                                                                         *)
(* A file is any sequence of at most MaxTokens tokens that starts with     *)
(* Prefix and goes on with tokens of Free, chosen while they are read.     *)
(* After Prefix a byte 0xFF may stand where a token would begin, which the *)
(* lexer cannot tell from the end of the file.                             *)
(***************************************************************************)
EXTENDS Objects, Tokens

CONSTANTS
  Idents,      \* the identifiers a file may use
  Kinds,       \* the other token kinds a file may use
  Prefix,      \* the tokens every file starts with
  Free,        \* the tokens that may follow it
  MaxTokens    \* the longest file

Token == [kind : {"kIDENTIFIER"}, text : Idents] \cup [kind : Kinds, text : {""}]
EndOfFile == [kind |-> "kEOF", text |-> ""]
NoToken   == [kind |-> "none", text |-> ""]

ASSUME ConstantsAssumption ==
  /\ Idents \subseteq STRING
  /\ Kinds \subseteq PlainKinds
  /\ Prefix \in Seq(Token)
  /\ Free \subseteq Token
  /\ MaxTokens \in Nat
  /\ Len(Prefix) <= MaxTokens

VARIABLES
  pc,        \* the read that comes next, or how the process ended
  pos,       \* how many tokens the lexer has produced
  peek_,     \* the token that was read and given back
  private_,  \* a kPRIVATE waits for the declaration it qualifies
  class_,    \* the class being defined, later the one defined last
  code_,     \* the classes of the CodeUnit, in order
  scope_,    \* the scope in force
  classes,   \* every Class there is
  scopes,    \* every LocalScope there is
  loc        \* the C++ locals of the handlers that are active

vars == <<pc, pos, peek_, private_, class_, code_, scope_, classes, scopes, loc>>

(* kw: keyword of the definition; name: identifier kept; ref: class kept   *)
(* (parent, declared type or return type); done: defs_done; expr: the      *)
(* expression so far; dest: the place it is for; back: where it returns.   *)
NoLocals == [kw |-> "", name |-> "", ref |-> Nil, done |-> FALSE,
             expr |-> NoExpr, dest |-> NoPlace, back |-> ""]

Init ==
  /\ pc = "Parse"
  /\ pos = 0
  /\ peek_ = NoToken
  /\ private_ = FALSE
  /\ class_ = Nil
  /\ code_ = <<StringClass, IntClass, DoubleClass, BoolClass>>
  /\ scope_ = Nil
  /\ classes = BuiltinClasses
  /\ scopes = <<>>
  /\ loc = NoLocals

Stopped == {"Done", "Aborted", "Crashed"}

-----------------------------------------------------------------------------
(* Reading tokens *)

(* The lexer's next token: one of the file, a byte 0xFF, for which it      *)
(* yields kEOF and behind which it reads on when it is asked again, or the *)
(* end of the file, where it yields kEOF for ever.                         *)
Lex(t) ==
  \/ /\ pos < MaxTokens
     /\ IF pos < Len(Prefix) THEN t = Prefix[pos + 1] ELSE t \in Free \cup {EndOfFile}
     /\ pos' = pos + 1
  \/ /\ pos >= Len(Prefix)
     /\ t = EndOfFile
     /\ pos' = MaxTokens

NextToken(t) ==
  \/ peek_ # NoToken /\ t = peek_ /\ UNCHANGED pos
  \/ peek_ = NoToken /\ Lex(t)

Consume(t) == NextToken(t) /\ peek_' = NoToken
PeekToken(t) == NextToken(t) /\ peek_' = t

Readable == Token \cup {EndOfFile}

(* The kinds each read accepts; any other token is UNEXPECTED and aborts.  *)
Expects ==
  CASE pc = "Definition" -> {"kPRIVATE", "kOBJECT", "kPROTO", "kCLASS", "kENUM", "kEOF"}
    [] pc = "Head" -> {"kLBRACE"} \cup (IF loc.kw = "proto" THEN {} ELSE {"kEXTENDS"})
    [] pc = "Body" -> {"kVAR", "kIDENTIFIER", "kFUNC", "kRBRACE"}
                        \cup (IF loc.kw = "proto" THEN {} ELSE {"kPRIVATE"})
    [] pc = "EnumBody" -> {"kIDENTIFIER", "kCOMMA", "kSEMICOLON", "kRBRACE"}
    [] pc = "Params" -> {"kIDENTIFIER", "kRPAREN"}
    [] pc = "Statement" -> {"kSEMICOLON", "kVAR", "kRETURN", "kIDENTIFIER"}
    [] pc \in {"FieldNext", "LocalNext"} -> {"kCOMMA", "kSEMICOLON", "kEQUALS"}
    [] pc = "Unary" -> Literals \cup {"kIDENTIFIER"}
    [] pc \in {"FieldColon", "LocalColon", "ParamColon"} -> {"kCOLON"}
    [] pc = "ParamOpen" -> {"kLPAREN"}
    [] pc \in {"EnumOpen", "FuncOpen"} -> {"kLBRACE"}
    [] pc = "FuncClose" -> {"kRBRACE"}
    [] pc = "ProtoFuncEnd" -> {"kSEMICOLON"}
    [] pc = "Assign" -> {"kEQUALS"}
    [] OTHER -> {"kIDENTIFIER"}

(* Read p consumes t, of the accepted kind k.                              *)
Reads(p, k, t) ==
  /\ pc = p
  /\ t.kind = k
  /\ k \in Expects
  /\ Consume(t)

(* Reads that leave the token to the code that follows, whatever it is.    *)
Lookaheads == {"Parse", "StatementEnd", "ParamDefault", "Binary"}

Unexpected ==
  /\ pc \notin Stopped \cup Lookaheads
  /\ \E t \in Readable : Consume(t) /\ t.kind \notin Expects
  /\ pc' = "Aborted"
  /\ UNCHANGED <<private_, class_, code_, scope_, classes, scopes, loc>>

(* EXPECTs whose token carries nothing. *)
ExpectSymbol ==
  \E t \in Readable :
    /\ \/ Reads("FieldColon", "kCOLON", t) /\ pc' = "FieldType"
       \/ Reads("LocalColon", "kCOLON", t) /\ pc' = "LocalType"
       \/ Reads("ParamColon", "kCOLON", t) /\ pc' = "ParamType"
       \/ Reads("ParamOpen", "kLPAREN", t) /\ pc' = "Params"
       \/ Reads("EnumOpen", "kLBRACE", t) /\ pc' = "EnumBody"
       \/ Reads("FuncOpen", "kLBRACE", t) /\ pc' = "Statement"
    /\ UNCHANGED <<private_, class_, code_, scope_, classes, scopes, loc>>

-----------------------------------------------------------------------------
(* Helpers of the handlers *)

(* Mutants: a search that runs past the end; one that sees classes before  *)
(* they are finished.                                                      *)
FindClassPastEnd(name) ==
  LET i == SelectInSeq(code_, LAMBDA c : classes[c].name = name)
  IN  IF i = 0 THEN Len(classes) + 1 ELSE code_[i]

FindClassUnfinished(name) == FirstNamed(classes, name)

FindClass(name) ==
  LET i == SelectInSeq(code_, LAMBDA c : classes[c].name = name)
  IN  IF i = 0 THEN Nil ELSE code_[i]

(* Mutant: one root scope for all the definitions of a file. *)
PushScopeShared(parent) ==
  IF parent = Nil /\ scopes # <<>>
  THEN scope_' = 1 /\ UNCHANGED scopes
  ELSE scopes' = AddScope(scopes, parent) /\ scope_' = Len(scopes) + 1

PushScope(parent) ==
  /\ scopes' = AddScope(scopes, parent)
  /\ scope_' = Len(scopes) + 1

(* The function whose signature or body is being parsed: the last defined. *)
CurrentFunction == Len(classes[class_].functions)

(* Mutant: the scope of a function outlives it. *)
RestoreScopeForgotten == UNCHANGED scope_

(* scope_ = scope_->GetParent() after a function that opened a scope of    *)
(* its own: the form `func f(...)', not the form `Type f(...)'.            *)
RestoreScope ==
  scope_' = IF classes[class_].functions[CurrentFunction].scope # Nil
            THEN scopes[scope_].parent ELSE scope_

(* Mutant: fields are not looked up. *)
ResolveLocal(name) ==
  LET v == Lookup(scopes[scope_], name)
  IN  IF v # Nil THEN Place("Local", scope_, v) ELSE NoPlace

(* What an identifier stands for: a local of the scope in force, else a    *)
(* field of the class being defined, else nothing.                         *)
Resolve(name) ==
  LET v == Lookup(scopes[scope_], name)
      f == GetField(classes[class_], name)
  IN  IF v # Nil THEN Place("Local", scope_, v)
      ELSE IF f # Nil THEN FieldPlace(classes, class_, f)
      ELSE NoPlace
-----------------------------------------------------------------------------
(* Parse: the definitions of a file, up to kEOF *)

(* Mutant: the end of the file is left to ParseDefinition. *)
ParseNextUnchecked ==
  \E t \in Readable :
    /\ pc = "Parse"
    /\ PeekToken(t)
    /\ pc' = "Definition"
    /\ PushScope(Nil)
    /\ UNCHANGED <<private_, class_, code_, classes, loc>>

(* Parse peeks; ParseDefinition opens the scope of the definition.         *)
ParseNext ==
  \E t \in Readable :
    /\ pc = "Parse"
    /\ PeekToken(t)
    /\ IF t = EndOfFile
       THEN pc' = "Done" /\ UNCHANGED <<scopes, scope_>>
       ELSE pc' = "Definition" /\ PushScope(Nil)
    /\ UNCHANGED <<private_, class_, code_, classes, loc>>

(* ParseDefinition returns class_ to Parse, which adds it to the unit.     *)
ReturnDefinition ==
  /\ code_' = IF class_ # Nil THEN Append(code_, class_) ELSE code_
  /\ pc' = "Parse"
  /\ loc' = NoLocals

(* A second `private' aborts.  After the first, the do-while of            *)
(* ParseDefinition goes on while class_ # nullptr; before any class exists *)
(* it falls off the end of the function without a value: it may return     *)
(* what the register holds (class_, nullptr), run on as if the condition   *)
(* were true, or trap.                                                     *)
DefinitionPrivate ==
  \E t \in Readable :
    /\ Reads("Definition", "kPRIVATE", t)
    /\ IF private_
       THEN pc' = "Aborted" /\ UNCHANGED private_
       ELSE /\ private_' = TRUE
            /\ pc' \in IF class_ # Nil THEN {"Definition"}
                                       ELSE {"Definition", "Parse", "Crashed"}
    /\ UNCHANGED <<class_, code_, scope_, classes, scopes, loc>>

Opens(keyword, kw, t) ==
  /\ Reads("Definition", keyword, t)
  /\ loc' = [loc EXCEPT !.kw = kw, !.ref = ObjectClass]

DefinitionKeyword ==
  \E t \in Readable :
    /\ \/ Opens("kOBJECT", "object", t) \/ Opens("kPROTO", "proto", t)
       \/ Opens("kCLASS", "class", t)   \/ Opens("kENUM", "enum", t)
    /\ pc' = "DefinitionName"
    /\ UNCHANGED <<private_, class_, code_, scope_, classes, scopes>>

DefinitionEof ==
  \E t \in Readable :
    /\ Reads("Definition", "kEOF", t)
    /\ ReturnDefinition
    /\ UNCHANGED <<private_, class_, scope_, classes, scopes>>

(* Mutant: private_ is not reset. *)
OpenClassStaysPrivate(name, super) ==
  LET mods == Privacy(private_) \cup
                (IF loc.kw \in {"object", "enum"} THEN {"final"} ELSE {})
  IN  /\ classes' = Append(classes, NewClass(name, mods, super, loc.kw))
      /\ class_' = Len(classes) + 1
      /\ UNCHANGED private_

(* new Class(...), and the pending `private' is spent on it.               *)
OpenClass(name, super) ==
  LET mods == Privacy(private_) \cup
                (IF loc.kw \in {"object", "enum"} THEN {"final"} ELSE {})
  IN  /\ classes' = Append(classes, NewClass(name, mods, super, loc.kw))
      /\ class_' = Len(classes) + 1
      /\ private_' = FALSE

DefinitionName ==
  \E t \in Readable :
    /\ Reads("DefinitionName", "kIDENTIFIER", t)
    /\ IF loc.kw = "enum"
       THEN OpenClass(t.text, ObjectClass) /\ pc' = "EnumOpen" /\ UNCHANGED loc
       ELSE /\ loc' = [loc EXCEPT !.name = t.text]
            /\ pc' = "Head"
            /\ UNCHANGED <<private_, class_, classes>>
    /\ UNCHANGED <<code_, scope_, scopes>>

HeadExtends ==
  \E t \in Readable :
    /\ Reads("Head", "kEXTENDS", t)
    /\ pc' = "Extends"
    /\ UNCHANGED <<private_, class_, code_, scope_, classes, scopes, loc>>

HeadParent ==
  \E t \in Readable :
    /\ Reads("Extends", "kIDENTIFIER", t)
    /\ loc' = [loc EXCEPT !.ref = FindClass(t.text)]
    /\ pc' = "Head"
    /\ UNCHANGED <<private_, class_, code_, scope_, classes, scopes>>

HeadOpen ==
  \E t \in Readable :
    /\ Reads("Head", "kLBRACE", t)
    /\ OpenClass(loc.name, loc.ref)
    /\ loc' = [NoLocals EXCEPT !.kw = loc.kw]
    /\ pc' = "Body"
    /\ UNCHANGED <<code_, scope_, scopes>>

-----------------------------------------------------------------------------
(* Bodies of object, proto and class *)

(* Only a class rejects a repeated `private'. *)
BodyPrivate ==
  \E t \in Readable :
    /\ Reads("Body", "kPRIVATE", t)
    /\ IF private_ /\ loc.kw = "class"
       THEN pc' = "Aborted" /\ UNCHANGED private_
       ELSE private_' = TRUE /\ UNCHANGED pc
    /\ UNCHANGED <<class_, code_, scope_, classes, scopes, loc>>

BodyVar ==
  \E t \in Readable :
    /\ Reads("Body", "kVAR", t)
    /\ pc' = "Fields"
    /\ UNCHANGED <<private_, class_, code_, scope_, classes, scopes, loc>>

(* `func name' and `Type name'; code_ does not change before the type is   *)
(* looked up.                                                              *)
BodyFunction ==
  \E t \in Readable :
    /\ \/ /\ Reads("Body", "kFUNC", t)
          /\ pc' = "FuncName"
          /\ loc' = [loc EXCEPT !.ref = VoidClass]
       \/ /\ Reads("Body", "kIDENTIFIER", t)
          /\ pc' = "MethodName"
          /\ loc' = [loc EXCEPT !.ref = FindClass(t.text)]
    /\ UNCHANGED <<private_, class_, code_, scope_, classes, scopes>>

BodyClose ==
  \E t \in Readable :
    /\ Reads("Body", "kRBRACE", t) \/ Reads("EnumBody", "kRBRACE", t)
    /\ ReturnDefinition
    /\ UNCHANGED <<private_, class_, scope_, classes, scopes>>

(* DefineFunction, or DefineStaticFunction in an object; the pending       *)
(* `private' is spent on it.                                               *)
Declare(name) ==
  IF loc.kw = "object"
  THEN DefineStaticFunction(classes[class_], name, loc.ref, private_)
  ELSE DefineFunction(classes[class_], name, loc.ref, private_)

(* func->AttachScope(scope_ = new LocalScope(scope_)) for `func'; a typed  *)
(* method keeps the scope of the definition.                               *)
FunctionName ==
  \E t \in Readable :
    /\ \/ /\ Reads("FuncName", "kIDENTIFIER", t)
          /\ PushScope(scope_)
          /\ classes' = [classes EXCEPT ![class_] =
                           AttachScope(Declare(t.text), Len(scopes) + 1)]
       \/ /\ Reads("MethodName", "kIDENTIFIER", t)
          /\ classes' = [classes EXCEPT ![class_] = Declare(t.text)]
          /\ UNCHANGED <<scopes, scope_>>
    /\ private_' = FALSE
    /\ loc' = [NoLocals EXCEPT !.kw = loc.kw]
    /\ pc' = "ParamOpen"
    /\ UNCHANGED <<class_, code_>>

FunctionClose ==
  \E t \in Readable :
    /\ Reads("FuncClose", "kRBRACE", t) \/ Reads("ProtoFuncEnd", "kSEMICOLON", t)
    /\ RestoreScope
    /\ pc' = "Body"
    /\ UNCHANGED <<private_, class_, code_, classes, scopes, loc>>

(* Mutant: ordinals from zero. *)
OrdinalFromZero(cls) == Len(cls.fields) - 1

(* The Int that EnumConstant stores: the number of fields, once the new    *)
(* one is defined.                                                         *)
Ordinal(cls) == Len(cls.fields)

(* An enumerator is a static field of the enum's own type.                 *)
EnumConstant ==
  \E t \in Readable :
    /\ Reads("EnumBody", "kIDENTIFIER", t)
    /\ IF loc.done
       THEN pc' = "Aborted" /\ UNCHANGED classes
       ELSE LET defined == DefineStaticField(classes[class_], t.text, class_, FALSE)
                place   == Place("StaticField", class_, Len(defined.fields))
                ordinal == Literal(IntClass, Ordinal(defined))
            IN  /\ classes' = [classes EXCEPT ![class_] =
                                 AddAst(defined, Constructor, place, ordinal)]
                /\ UNCHANGED pc
    /\ UNCHANGED <<private_, class_, code_, scope_, scopes, loc>>

(* Commas separate nothing: any number is skipped.  A semicolon ends the   *)
(* list of enumerators.                                                    *)
EnumSeparator ==
  \E t \in Readable :
    /\ \/ Reads("EnumBody", "kCOMMA", t) /\ UNCHANGED loc
       \/ Reads("EnumBody", "kSEMICOLON", t) /\ loc' = [loc EXCEPT !.done = TRUE]
    /\ UNCHANGED <<pc, private_, class_, code_, scope_, classes, scopes>>

-----------------------------------------------------------------------------
(* ParseFields, ParseLocals, ParseParameters *)

(* EXPECT(kIDENTIFIER) of a declarator: its name.                          *)
DeclaratorName ==
  \E t \in Readable :
    /\ \/ Reads("Fields", "kIDENTIFIER", t) /\ pc' = "FieldColon"
       \/ Reads("Locals", "kIDENTIFIER", t) /\ pc' = "LocalColon"
       \/ Reads("Params", "kIDENTIFIER", t) /\ pc' = "ParamColon"
    /\ loc' = [loc EXCEPT !.name = t.text]
    /\ UNCHANGED <<private_, class_, code_, scope_, classes, scopes>>

FieldType ==
  \E t \in Readable :
    /\ Reads("FieldType", "kIDENTIFIER", t)
    /\ classes' = [classes EXCEPT ![class_] =
                     CreateField(@, loc.name, FindClass(t.text), private_)]
    /\ loc' = [loc EXCEPT !.name = ""]
    /\ pc' = "FieldNext"
    /\ UNCHANGED <<private_, class_, code_, scope_, scopes>>

(* scope_->AddLocal, and the abort when the scope has the name already.    *)
DeclareLocal(type, next) ==
  IF HasLocal(scopes[scope_], loc.name)
  THEN pc' = "Aborted" /\ UNCHANGED scopes
  ELSE pc' = next /\ scopes' = AddLocal(scopes, scope_, loc.name, type)

LocalType ==
  \E t \in Readable :
    /\ Reads("LocalType", "kIDENTIFIER", t)
    /\ DeclareLocal(FindClass(t.text), "LocalNext")
    /\ loc' = [loc EXCEPT !.name = ""]
    /\ UNCHANGED <<private_, class_, code_, scope_, classes>>

ParamType ==
  \E t \in Readable :
    /\ Reads("ParamType", "kIDENTIFIER", t)
    /\ loc' = [loc EXCEPT !.ref = FindClass(t.text)]
    /\ pc' = "ParamDefault"
    /\ UNCHANGED <<private_, class_, code_, scope_, classes, scopes>>

(* After a parameter's type: `= expr' is parsed and then always rejected,  *)
(* because no node overrides IsConstantExpr; any other token is given back *)
(* and the parameter joins the scope in force.                             *)
ParamDefault ==
  /\ pc = "ParamDefault"
  /\ \E t \in Readable :
       \/ /\ t.kind = "kEQUALS"
          /\ Consume(t)
          /\ pc' = "Unary"
          /\ loc' = [loc EXCEPT !.back = "Aborted"]
          /\ UNCHANGED scopes
       \/ /\ t.kind # "kEQUALS"
          /\ PeekToken(t)
          /\ DeclareLocal(loc.ref, "Params")
          /\ loc' = [NoLocals EXCEPT !.kw = loc.kw]
  /\ UNCHANGED <<private_, class_, code_, scope_, classes>>

ParamsClose ==
  \E t \in Readable :
    /\ Reads("Params", "kRPAREN", t)
    /\ pc' = IF loc.kw = "proto" THEN "ProtoFuncEnd" ELSE "FuncOpen"
    /\ UNCHANGED <<private_, class_, code_, scope_, classes, scopes, loc>>

(* What follows a field or a local: the next declarator, or the end of the *)
(* declaration, which also clears private_, in ParseLocals too.            *)
DeclarationNext ==
  \E t \in Readable :
    /\ \/ Reads("FieldNext", "kCOMMA", t) /\ pc' = "Fields" /\ UNCHANGED private_
       \/ Reads("LocalNext", "kCOMMA", t) /\ pc' = "Locals" /\ UNCHANGED private_
       \/ Reads("FieldNext", "kSEMICOLON", t) /\ pc' = "Body" /\ private_' = FALSE
       \/ Reads("LocalNext", "kSEMICOLON", t) /\ pc' = "StatementEnd" /\ private_' = FALSE
    /\ UNCHANGED <<class_, code_, scope_, classes, scopes, loc>>

-----------------------------------------------------------------------------
(* Statements and expressions *)

(* An expression for place is parsed, then control returns to back.        *)
BeginExpression(place, back) ==
  /\ loc' = [loc EXCEPT !.dest = place, !.back = back, !.name = ""]
  /\ pc' = "Unary"

(* `= expr' after a field or a local initialises the one declared last.    *)
Initialiser ==
  \E t \in Readable :
    /\ \/ /\ Reads("FieldNext", "kEQUALS", t)
          /\ BeginExpression(FieldPlace(classes, class_, Len(classes[class_].fields)),
                             "FieldNext")
       \/ /\ Reads("LocalNext", "kEQUALS", t)
          /\ BeginExpression(Place("Local", scope_, Len(scopes[scope_].vars)), "LocalNext")
    /\ UNCHANGED <<private_, class_, code_, scope_, classes, scopes>>

(* Mutant: an empty statement is peeked at and left.                       *)
StatementPeeking ==
  \E t \in Readable :
    /\ \/ /\ pc = "Statement" /\ t.kind = "kSEMICOLON" /\ PeekToken(t)
          /\ pc' = "StatementEnd" /\ UNCHANGED loc
       \/ Reads("Statement", "kVAR", t) /\ pc' = "Locals" /\ UNCHANGED loc
       \/ Reads("Statement", "kRETURN", t) /\ BeginExpression(ReturnPlace, "StatementEnd")
       \/ /\ Reads("Statement", "kIDENTIFIER", t)
          /\ pc' = "Assign"
          /\ loc' = [loc EXCEPT !.name = t.text]
    /\ UNCHANGED <<private_, class_, code_, scope_, classes, scopes>>

Statement ==
  \E t \in Readable :
    /\ \/ Reads("Statement", "kSEMICOLON", t) /\ pc' = "StatementEnd" /\ UNCHANGED loc
       \/ Reads("Statement", "kVAR", t) /\ pc' = "Locals" /\ UNCHANGED loc
       \/ Reads("Statement", "kRETURN", t) /\ BeginExpression(ReturnPlace, "StatementEnd")
       \/ /\ Reads("Statement", "kIDENTIFIER", t)
          /\ pc' = "Assign"
          /\ loc' = [loc EXCEPT !.name = t.text]
    /\ UNCHANGED <<private_, class_, code_, scope_, classes, scopes>>

(* The target of an assignment is resolved before its value is parsed.     *)
Assign ==
  \E t \in Readable :
    /\ Reads("Assign", "kEQUALS", t)
    /\ IF Resolve(loc.name) = NoPlace
       THEN pc' = "Aborted" /\ UNCHANGED loc
       ELSE BeginExpression(Resolve(loc.name), "StatementEnd")
    /\ UNCHANGED <<private_, class_, code_, scope_, classes, scopes>>

(* do { ParseStatement } while(PeekToken()->GetKind() != kRBRACE)          *)
StatementEnd ==
  \E t \in Readable :
    /\ pc = "StatementEnd"
    /\ PeekToken(t)
    /\ pc' = IF t.kind = "kRBRACE" THEN "FuncClose" ELSE "Statement"
    /\ UNCHANGED <<private_, class_, code_, scope_, classes, scopes, loc>>

(* Every number becomes a Double: find('.') yields npos, which is positive *)
(* too, when there is no point.                                            *)
LiteralClass == [kLIT_NUMBER |-> DoubleClass, kLIT_STRING |-> StringClass,
                 kTRUE |-> BoolClass, kFALSE |-> BoolClass]

(* A leaf of the expression; an undeclared identifier aborts.              *)
ParseUnaryExpr ==
  \E t \in Readable :
    /\ Reads("Unary", t.kind, t)
    /\ LET leaf == IF t.kind = "kIDENTIFIER" THEN Resolve(t.text)
                   ELSE Place("Literal", LiteralClass[t.kind], 0)
       IN  IF leaf = NoPlace
           THEN pc' = "Aborted" /\ UNCHANGED loc
           ELSE pc' = "Binary" /\ loc' = [loc EXCEPT !.expr.leaves = Append(@, leaf)]
    /\ UNCHANGED <<private_, class_, code_, scope_, classes, scopes>>

(* Mutant: the operator is not kept. *)
BinaryOperatorLost ==
  \E t \in Readable :
    /\ pc = "Binary"
    /\ t.kind \in Operators
    /\ Consume(t)
    /\ pc' = "Unary"
    /\ UNCHANGED <<private_, class_, code_, scope_, classes, scopes, loc>>

(* while(IsExpr(...)) left = new BinaryOpNode(left, ParseBinaryExpr(), op) *)
BinaryOperator ==
  \E t \in Readable :
    /\ pc = "Binary"
    /\ t.kind \in Operators
    /\ Consume(t)
    /\ loc' = [loc EXCEPT !.expr.ops = Append(@, t.kind)]
    /\ pc' = "Unary"
    /\ UNCHANGED <<private_, class_, code_, scope_, classes, scopes>>

(* The token after the expression is given back by every level of the      *)
(* recursion in turn, and the finished node is added: a field initialiser  *)
(* to the constructor, any other statement to the current function.  A     *)
(* proto's constructor pointer is indeterminate: following it traps, or    *)
(* writes the node where no function holds it.                             *)
EndExpression ==
  \E t \in Readable :
    LET owner == IF loc.back = "FieldNext" THEN Constructor ELSE CurrentFunction
        wild  == loc.back = "FieldNext" /\ ~HasConstructor(classes[class_])
    IN  /\ pc = "Binary"
        /\ t.kind \notin Operators
        /\ PeekToken(t)
        /\ IF wild \/ loc.back = "Aborted" THEN UNCHANGED classes
           ELSE classes' = [classes EXCEPT ![class_] =
                              AddAst(@, owner, loc.dest, loc.expr)]
        /\ pc' \in {loc.back} \cup (IF wild THEN {"Crashed"} ELSE {})
        /\ loc' = [NoLocals EXCEPT !.kw = loc.kw]
        /\ UNCHANGED <<private_, class_, code_, scope_, scopes>>

-----------------------------------------------------------------------------
(* Parsing is one thread; it stops only where the process ends.            *)
Terminated == pc \in Stopped /\ UNCHANGED vars

Next ==
  \/ Unexpected \/ ExpectSymbol
  \/ ParseNext \/ DefinitionPrivate \/ DefinitionKeyword \/ DefinitionEof
  \/ DefinitionName \/ HeadExtends \/ HeadParent \/ HeadOpen
  \/ BodyPrivate \/ BodyVar \/ BodyFunction \/ BodyClose
  \/ FunctionName \/ FunctionClose \/ EnumConstant \/ EnumSeparator
  \/ DeclaratorName \/ FieldType \/ LocalType \/ ParamType \/ ParamDefault
  \/ ParamsClose \/ DeclarationNext \/ Initialiser
  \/ Statement \/ Assign \/ StatementEnd
  \/ ParseUnaryExpr \/ BinaryOperator \/ EndExpression
  \/ Terminated

Spec == Init /\ [][Next]_vars
FairSpec == Spec /\ WF_vars(Next)
=============================================================================
