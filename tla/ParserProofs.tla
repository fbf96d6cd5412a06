---------------------------- MODULE ParserProofs -----------------------------
(***************************************************************************)
(* Theorems about Parser, for every choice of its constants.               *)
(***************************************************************************)
EXTENDS ParserProperties, SequenceTheorems, WellFoundedInduction, TLAPS

-----------------------------------------------------------------------------
(* Lookups *)

(* Every set of natural numbers that is not empty has its minimum. *)
LEMMA MinIsMember ==
  ASSUME NEW I \in SUBSET Nat, I # {}
  PROVE  Min(I) \in I
<1>. DEFINE less == { ss \in Nat \X Nat : ss[1] < ss[2] }
<1>1. IsWellFoundedOn(less, Nat)
  BY NatLessThanWellFounded DEF OpToRel
<1>. HIDE DEF less
<1>2. PICK m \in I : \A n \in I : <<n, m>> \notin less
  BY <1>1, WFMin
<1>3. ASSUME NEW n \in I PROVE m <= n
  <2>1. <<n, m>> \in Nat \X Nat
    BY <1>2
  <2>2. <<n, m>>[1] = n /\ <<n, m>>[2] = m
    OBVIOUS
  <2>3. ~(n < m)
    BY <1>2, <2>1, <2>2 DEF less
  <2>. QED
    BY <2>1, <2>3
<1>. QED
  BY <1>2, <1>3 DEF Min

(* A search by name returns 0 or a position of the sequence. *)
LEMMA FirstNamedRange ==
  ASSUME NEW S, NEW seq \in Seq(S), NEW name
  PROVE  FirstNamed(seq, name) \in 0 .. Len(seq)
<1>. DEFINE I == { i \in 1 .. Len(seq) : seq[i].name = name }
<1>1. I \in SUBSET Nat
  OBVIOUS
<1>2. FirstNamed(seq, name) = IF I # {} THEN Min(I) ELSE 0
  BY DEF FirstNamed, SelectInSeq
<1>3. I # {} => Min(I) \in I
  BY <1>1, MinIsMember
<1>4. Len(seq) \in Nat
  OBVIOUS
<1>. QED
  BY <1>2, <1>3, <1>4

(* FindClass returns null or a class of the unit. *)
LEMMA FindClassRange ==
  ASSUME NEW S, code_ \in Seq(S), NEW name
  PROVE  FindClass(name) \in Range(code_) \cup {Nil}
<1>. DEFINE I == { i \in 1 .. Len(code_) : classes[code_[i]].name = name }
            found == SelectInSeq(code_, LAMBDA c : classes[c].name = name)
<1>1. I \in SUBSET Nat
  OBVIOUS
<1>2. found = IF I # {} THEN Min(I) ELSE 0
  BY DEF SelectInSeq
<1>3. I # {} => Min(I) \in I
  BY <1>1, MinIsMember
<1>4. found # 0 => found \in DOMAIN code_
  BY <1>2, <1>3
<1>. QED
  BY <1>4 DEF FindClass, Range, Nil
-----------------------------------------------------------------------------
(* Types of what the operators of Objects build *)

(* Objects stay well typed when more classes and scopes exist. *)
LEMMA ClassOfMonotonic ==
  ASSUME NEW R, NEW S, NEW R2, NEW S2, R \subseteq R2, S \subseteq S2,
         NEW cls \in ClassOf(R, S)
  PROVE  cls \in ClassOf(R2, S2)
<1>1. cls.fields \in Seq(FieldOf(R2))
  <2>1. FieldOf(R) \subseteq FieldOf(R2)
    BY DEF FieldOf
  <2>. QED
    BY <2>1, SeqMonotonic DEF ClassOf
<1>2. cls.functions \in Seq(FunctionOf(R2, S2))
  <2>1. FunctionOf(R, S) \subseteq FunctionOf(R2, S2)
    BY DEF FunctionOf
  <2>. QED
    BY <2>1, SeqMonotonic DEF ClassOf
<1>. QED
  BY <1>1, <1>2 DEF ClassOf

LEMMA ScopeOfMonotonic ==
  ASSUME NEW R, NEW S, NEW R2, NEW S2, R \subseteq R2, S \subseteq S2,
         NEW scope \in ScopeOf(R, S)
  PROVE  scope \in ScopeOf(R2, S2)
<1>1. [name : Names, type : R] \subseteq [name : Names, type : R2]
  OBVIOUS
<1>2. scope.vars \in Seq([name : Names, type : R2])
  BY <1>1, SeqMonotonic DEF ScopeOf
<1>. QED
  BY <1>2 DEF ScopeOf

(* Appending a function or a field, in each of its forms. *)
LEMMA DefineFunctionTyped ==
  ASSUME NEW R, NEW S, Nil \in S, NEW cls \in ClassOf(R, S),
         NEW name \in Names, NEW ret \in R, NEW priv \in BOOLEAN
  PROVE  /\ DefineFunction(cls, name, ret, priv) \in ClassOf(R, S)
         /\ DefineStaticFunction(cls, name, ret, priv) \in ClassOf(R, S)
         /\ DefineFunction(cls, name, ret, priv).super = cls.super
         /\ DefineStaticFunction(cls, name, ret, priv).super = cls.super
         /\ DefineFunction(cls, name, ret, priv).type = cls.type
         /\ DefineStaticFunction(cls, name, ret, priv).type = cls.type
<1>. DEFINE Defined(mods) ==
              [cls EXCEPT !.functions = Append(@, NewFunction(name, mods, ret))]
<1>1. ASSUME NEW mods \in SUBSET Modifier
      PROVE  /\ Defined(mods) \in ClassOf(R, S)
             /\ Defined(mods).super = cls.super
             /\ Defined(mods).type = cls.type
  <2>1. NewFunction(name, mods, ret) \in FunctionOf(R, S)
    BY DEF NewFunction, FunctionOf, Nil
  <2>2. Append(cls.functions, NewFunction(name, mods, ret)) \in Seq(FunctionOf(R, S))
    BY <2>1 DEF ClassOf
  <2>. QED
    BY <2>2 DEF ClassOf
<1>2. Privacy(priv) \in SUBSET Modifier /\ Privacy(priv) \cup {"static"} \in SUBSET Modifier
  BY DEF Privacy, Modifier
<1>3. /\ DefineFunction(cls, name, ret, priv) = Defined(Privacy(priv))
      /\ DefineStaticFunction(cls, name, ret, priv) = Defined(Privacy(priv) \cup {"static"})
  BY DEF DefineFunction, DefineStaticFunction
<1>. HIDE DEF Defined
<1>. QED
  BY <1>1, <1>2, <1>3

LEMMA CreateFieldTyped ==
  ASSUME NEW R, NEW S, NEW cls \in ClassOf(R, S),
         NEW name \in Names, NEW type \in R, NEW priv \in BOOLEAN
  PROVE  /\ CreateField(cls, name, type, priv) \in ClassOf(R, S)
         /\ DefineStaticField(cls, name, type, priv) \in ClassOf(R, S)
         /\ CreateField(cls, name, type, priv).super = cls.super
         /\ CreateField(cls, name, type, priv).type = cls.type
         /\ DefineStaticField(cls, name, type, priv).super = cls.super
         /\ DefineStaticField(cls, name, type, priv).type = cls.type
<1>. DEFINE Defined(mods) ==
              [cls EXCEPT !.fields = Append(@, [name |-> name, type |-> type, mods |-> mods])]
<1>1. ASSUME NEW mods \in SUBSET Modifier
      PROVE  /\ Defined(mods) \in ClassOf(R, S)
             /\ Defined(mods).super = cls.super
             /\ Defined(mods).type = cls.type
  <2>. DEFINE field == [name |-> name, type |-> type, mods |-> mods]
  <2>1. field \in FieldOf(R)
    BY DEF FieldOf
  <2>2. Append(cls.fields, field) \in Seq(FieldOf(R))
    BY <2>1 DEF ClassOf
  <2>. QED
    BY <2>2 DEF ClassOf
<1>2. Privacy(priv) \in SUBSET Modifier /\ Privacy(priv) \cup {"static"} \in SUBSET Modifier
  BY DEF Privacy, Modifier
<1>3. /\ DefineField(cls, name, type, priv) = Defined(Privacy(priv))
      /\ DefineStaticField(cls, name, type, priv) = Defined(Privacy(priv) \cup {"static"})
  BY DEF DefineField, DefineStaticField
<1>. HIDE DEF Defined
<1>. QED
  BY <1>1, <1>2, <1>3 DEF CreateField

(* Replacing one function: an index that is none changes nothing. *)
ReplaceFunction(cls, i, func) ==
  [cls EXCEPT !.functions = [@ EXCEPT ![i] = func]]

LEMMA WithFunction ==
  ASSUME NEW R, NEW S, NEW cls \in ClassOf(R, S), NEW i \in Nat, NEW func,
         i \in 1 .. Len(cls.functions) => func \in FunctionOf(R, S)
  PROVE  /\ ReplaceFunction(cls, i, func) \in ClassOf(R, S)
         /\ ReplaceFunction(cls, i, func).super = cls.super
         /\ ReplaceFunction(cls, i, func).type = cls.type
<1>. DEFINE funcs == [cls.functions EXCEPT ![i] = func]
<1>1. cls.functions \in Seq(FunctionOf(R, S))
  BY DEF ClassOf
<1>2. funcs \in Seq(FunctionOf(R, S))
  <2>1. CASE i \in 1 .. Len(cls.functions)
    BY <1>1, <2>1, ExceptSeq
  <2>2. CASE i \notin 1 .. Len(cls.functions)
    <3>1. DOMAIN cls.functions = 1 .. Len(cls.functions)
      BY <1>1, LenProperties
    <3>2. cls.functions = [j \in DOMAIN cls.functions |-> cls.functions[j]]
      BY <1>1, LenProperties
    <3>3. funcs = cls.functions
      BY <2>2, <3>1, <3>2
    <3>. QED
      BY <1>1, <3>3
  <2>. QED
    BY <2>1, <2>2
<1>. HIDE DEF funcs
<1>3. [cls EXCEPT !.functions = funcs] \in ClassOf(R, S)
  BY <1>2 DEF ClassOf
<1>4. /\ [cls EXCEPT !.functions = funcs].super = cls.super
      /\ [cls EXCEPT !.functions = funcs].type = cls.type
  BY DEF ClassOf
<1>. QED
  BY <1>3, <1>4 DEF funcs, ReplaceFunction

LEMMA AttachScopeTyped ==
  ASSUME NEW R, NEW S, NEW cls \in ClassOf(R, S), NEW s \in S
  PROVE  /\ AttachScope(cls, s) \in ClassOf(R, S)
         /\ AttachScope(cls, s).super = cls.super
         /\ AttachScope(cls, s).type = cls.type
<1>. DEFINE i == Len(cls.functions)
            func == [cls.functions[i] EXCEPT !.scope = s]
<1>1. cls.functions \in Seq(FunctionOf(R, S))
  BY DEF ClassOf
<1>2. i \in Nat
  BY <1>1
<1>3. ASSUME i \in 1 .. Len(cls.functions) PROVE func \in FunctionOf(R, S)
  <2>1. cls.functions[i] \in FunctionOf(R, S)
    BY <1>1, <1>3
  <2>. QED
    BY <2>1 DEF FunctionOf
<1>4. AttachScope(cls, s) = ReplaceFunction(cls, i, func)
  BY DEF AttachScope, ReplaceFunction
<1>. HIDE DEF i, func
<1>. QED
  BY <1>2, <1>3, <1>4, WithFunction

LEMMA AddAstTyped ==
  ASSUME NEW R, NEW S, NEW cls \in ClassOf(R, S), NEW f \in Nat,
         NEW place \in PlaceType, NEW value \in ExprType
  PROVE  /\ AddAst(cls, f, place, value) \in ClassOf(R, S)
         /\ AddAst(cls, f, place, value).super = cls.super
         /\ AddAst(cls, f, place, value).type = cls.type
<1>. DEFINE stmt == [dest |-> place, value |-> value]
            ast  == Append(cls.functions[f].ast, stmt)
            func == [cls.functions[f] EXCEPT !.ast = ast]
<1>1. ASSUME f \in 1 .. Len(cls.functions) PROVE func \in FunctionOf(R, S)
  <2>1. cls.functions[f] \in FunctionOf(R, S)
    BY <1>1 DEF ClassOf
  <2>2. stmt \in StmtType
    BY DEF StmtType
  <2>3. ast \in Seq(StmtType)
    BY <2>1, <2>2 DEF FunctionOf
  <2>. HIDE DEF ast
  <2>. QED
    BY <2>1, <2>3 DEF FunctionOf
<1>2. AddAst(cls, f, place, value) = ReplaceFunction(cls, f, func)
  BY DEF AddAst, ReplaceFunction
<1>. HIDE DEF stmt, ast, func
<1>3. f \in 1 .. Len(cls.functions) => func \in FunctionOf(R, S)
  BY <1>1
<1>. QED
  BY <1>2, <1>3, WithFunction

(* AddAst touches no scope. *)
LEMMA AddAstKeepsScopes ==
  ASSUME NEW R, NEW S, NEW cls \in ClassOf(R, S), NEW f, NEW place, NEW value
  PROVE  /\ Len(AddAst(cls, f, place, value).functions) = Len(cls.functions)
         /\ \A i \in 1 .. Len(cls.functions) :
              AddAst(cls, f, place, value).functions[i].scope = cls.functions[i].scope
<1>. DEFINE ast  == Append(cls.functions[f].ast, [dest |-> place, value |-> value])
            func == [cls.functions[f] EXCEPT !.ast = ast]
            funcs == [cls.functions EXCEPT ![f] = func]
<1>1. cls.functions \in Seq(FunctionOf(R, S))
  BY DEF ClassOf
<1>. HIDE DEF ast
<1>2. f \in 1 .. Len(cls.functions) => func.scope = cls.functions[f].scope
  BY <1>1 DEF FunctionOf
<1>. HIDE DEF func
<1>3. DOMAIN funcs = 1 .. Len(cls.functions)
  BY <1>1, LenProperties
<1>4. Len(funcs) = Len(cls.functions)
  BY <1>1, <1>3, LenProperties
<1>5. \A i \in 1 .. Len(cls.functions) : funcs[i].scope = cls.functions[i].scope
  BY <1>1, <1>2, LenProperties
<1>6. AddAst(cls, f, place, value) = [cls EXCEPT !.functions = funcs]
  BY DEF AddAst, ast, func
<1>. HIDE DEF funcs
<1>7. AddAst(cls, f, place, value).functions = funcs
  BY <1>6 DEF ClassOf
<1>. QED
  BY <1>4, <1>5, <1>7

(* The function defined last has no scope until one is attached. *)
LEMMA DefineFunctionScope ==
  ASSUME NEW R, NEW S, NEW cls \in ClassOf(R, S), NEW name, NEW ret, NEW priv,
         NEW d \in {DefineFunction(cls, name, ret, priv),
                    DefineStaticFunction(cls, name, ret, priv)}
  PROVE  Len(d.functions) > 0 /\ d.functions[Len(d.functions)].scope = Nil
<1>1. cls.functions \in Seq(FunctionOf(R, S)) /\ Len(cls.functions) \in Nat
  BY DEF ClassOf
<1>2. ASSUME NEW mods
      PROVE  LET funcs == Append(cls.functions, NewFunction(name, mods, ret))
             IN  Len(funcs) > 0 /\ funcs[Len(funcs)].scope = Nil
  BY <1>1 DEF NewFunction
<1>3. PICK mods : d = [cls EXCEPT !.functions = Append(@, NewFunction(name, mods, ret))]
  BY DEF DefineFunction, DefineStaticFunction
<1>4. d.functions = Append(cls.functions, NewFunction(name, mods, ret))
  BY <1>3 DEF ClassOf
<1>. QED
  BY <1>2, <1>4

LEMMA AttachScopeFunctions ==
  ASSUME NEW R, NEW S, NEW cls \in ClassOf(R, S), NEW s
  PROVE  Len(AttachScope(cls, s).functions) = Len(cls.functions)
<1>. DEFINE func == [cls.functions[Len(cls.functions)] EXCEPT !.scope = s]
            funcs == [cls.functions EXCEPT ![Len(cls.functions)] = func]
<1>1. cls.functions \in Seq(FunctionOf(R, S))
  BY DEF ClassOf
<1>. HIDE DEF func
<1>2. DOMAIN funcs = 1 .. Len(cls.functions)
  BY <1>1, LenProperties
<1>3. Len(funcs) = Len(cls.functions)
  BY <1>1, <1>2, LenProperties
<1>4. AttachScope(cls, s) = [cls EXCEPT !.functions = funcs]
  BY DEF AttachScope, func
<1>. HIDE DEF funcs
<1>. QED
  BY <1>3, <1>4 DEF ClassOf

(* A class is born well typed. *)
LEMMA NewClassTyped ==
  ASSUME NEW R, NEW S, Nil \in S, VoidClass \in R,
         NEW name \in Names, NEW mods \in SUBSET Modifier, NEW super \in R,
         NEW type \in {"class", "object", "proto", "enum"}
  PROVE  /\ NewClass(name, mods, super, type) \in ClassOf(R, S)
         /\ NewClass(name, mods, super, type).super = super
         /\ NewClass(name, mods, super, type).type = type
<1>. DEFINE bare == [name |-> name, mods |-> mods, super |-> super, type |-> type,
                     fields |-> <<>>, functions |-> <<>>]
<1>1. bare \in ClassOf(R, S) /\ bare.super = super /\ bare.type = type
  BY DEF ClassOf
<1>. DEFINE ctor  == NewFunction(name, {}, VoidClass)
            funcs == Append(bare.functions, ctor)
<1>2. NewClass(name, mods, super, type) \in {bare, [bare EXCEPT !.functions = funcs]}
  BY DEF NewClass, DefineFunction, Privacy
<1>3. ctor \in FunctionOf(R, S)
  BY DEF NewFunction, FunctionOf, Nil
<1>. HIDE DEF bare, ctor
<1>4. funcs \in Seq(FunctionOf(R, S))
  BY <1>1, <1>3 DEF ClassOf
<1>. HIDE DEF funcs
<1>. QED
  BY <1>1, <1>2, <1>4 DEF ClassOf

-----------------------------------------------------------------------------
(* Tokens *)

LEMMA ReadTyped ==
  ASSUME TypeOK, NEW t \in Readable, Consume(t) \/ PeekToken(t)
  PROVE  pos' \in 0 .. MaxTokens /\ peek_' \in Readable \cup {NoToken}
<1>1. pos' \in 0 .. MaxTokens
  BY ConstantsAssumption DEF TypeOK, Consume, PeekToken, NextToken, Lex
<1>. QED
  BY <1>1 DEF Consume, PeekToken

LEMMA IdentifierText ==
  ASSUME NEW t \in Readable, t.kind = "kIDENTIFIER"
  PROVE  t.text \in Idents
<1>1. "kIDENTIFIER" \notin Kinds
  BY ConstantsAssumption DEF PlainKinds, Operators, Literals, Symbols, Keywords
<1>2. t \notin [kind : Kinds, text : {""}]
  BY <1>1
<1>3. EndOfFile.kind = "kEOF"
  BY DEF EndOfFile
<1>4. t \in [kind : {"kIDENTIFIER"}, text : Idents]
  BY <1>2, <1>3 DEF Readable, Token
<1>. QED
  BY <1>4

-----------------------------------------------------------------------------
(* Heaps that grow *)

LEMMA ClassesMonotonic ==
  ASSUME NEW R, NEW S, NEW R2, NEW S2, R \subseteq R2, S \subseteq S2,
         NEW cs \in Seq(ClassOf(R, S))
  PROVE  cs \in Seq(ClassOf(R2, S2))
<1>1. ClassOf(R, S) \subseteq ClassOf(R2, S2)
  BY ClassOfMonotonic
<1>. QED
  BY <1>1, SeqMonotonic

LEMMA ScopesMonotonic ==
  ASSUME NEW R, NEW S, NEW R2, NEW S2, R \subseteq R2, S \subseteq S2,
         NEW ss \in Seq(ScopeOf(R, S))
  PROVE  ss \in Seq(ScopeOf(R2, S2))
<1>1. ScopeOf(R, S) \subseteq ScopeOf(R2, S2)
  BY ScopeOfMonotonic
<1>. QED
  BY <1>1, SeqMonotonic

(* new LocalScope(parent) is the newest scope, and parent is its parent.   *)
LEMMA AddScopeTyped ==
  ASSUME NEW R, NEW ss, ss \in Seq(ScopeOf(R, 0 .. Len(ss))), NEW parent \in 0 .. Len(ss)
  PROVE  /\ AddScope(ss, parent) \in Seq(ScopeOf(R, 0 .. Len(ss) + 1))
         /\ Len(AddScope(ss, parent)) = Len(ss) + 1
         /\ AddScope(ss, parent)[Len(ss) + 1].parent = parent
<1>. DEFINE S == 0 .. Len(ss) + 1
            new == Len(ss) + 1
            linked == [ss[parent] EXCEPT !.child = new]
            others == [ss EXCEPT ![parent] = linked]
            root == [parent |-> Nil, child |-> Nil, sibling |-> Nil, vars |-> <<>>]
            nested == [parent |-> parent, child |-> Nil,
                       sibling |-> ss[parent].child, vars |-> <<>>]
<1>1. new \in S /\ Nil \in S /\ parent \in S /\ new \in Nat
  BY DEF Nil
<1>2. ss \in Seq(ScopeOf(R, S))
  BY ScopesMonotonic
<1>3. CASE parent = Nil
  <2>1. root \in ScopeOf(R, S)
    BY <1>1 DEF ScopeOf
  <2>2. AddScope(ss, parent) = Append(ss, root)
    BY <1>3 DEF AddScope
  <2>. HIDE DEF root
  <2>3. Append(ss, root)[Len(ss) + 1] = root
    BY <1>2
  <2>. QED
    BY <1>2, <1>3, <2>1, <2>2, <2>3 DEF root
<1>4. CASE parent # Nil
  <2>1. ss[parent] \in ScopeOf(R, S) /\ parent \in 1 .. Len(ss)
    BY <1>2, <1>4 DEF Nil
  <2>2. linked \in ScopeOf(R, S) /\ nested \in ScopeOf(R, S)
    <3>. HIDE DEF S
    <3>1. linked \in ScopeOf(R, S)
      BY <1>1, <2>1 DEF ScopeOf
    <3>2. ss[parent].child \in S /\ <<>> \in Seq([name : Names, type : R])
      BY <2>1 DEF ScopeOf
    <3>3. nested \in ScopeOf(R, S)
      BY <1>1, <3>2 DEF ScopeOf
    <3>. QED
      BY <3>1, <3>3
  <2>3. AddScope(ss, parent) = Append(others, nested)
    BY <1>4 DEF AddScope
  <2>. HIDE DEF linked, nested, new
  <2>4. others \in Seq(ScopeOf(R, S)) /\ Len(others) = Len(ss)
    BY <1>2, <2>1, <2>2, ExceptSeq
  <2>. HIDE DEF others
  <2>5. Append(others, nested)[Len(ss) + 1] = nested
    BY <2>4
  <2>. QED
    BY <2>2, <2>3, <2>4, <2>5 DEF nested
<1>. QED
  BY <1>3, <1>4

(* AddLocal changes nothing but the variables of one scope. *)
LEMMA AddLocalTyped ==
  ASSUME NEW R, NEW S, NEW ss \in Seq(ScopeOf(R, S)), NEW s \in 1 .. Len(ss),
         NEW name \in Names, NEW type \in R
  PROVE  /\ AddLocal(ss, s, name, type) \in Seq(ScopeOf(R, S))
         /\ Len(AddLocal(ss, s, name, type)) = Len(ss)
         /\ AddLocal(ss, s, name, type)[s].parent = ss[s].parent
<1>. DEFINE var == [name |-> name, type |-> type]
            vs == Append(ss[s].vars, var)
            scope == [ss[s] EXCEPT !.vars = vs]
<1>1. ss[s] \in ScopeOf(R, S)
  OBVIOUS
<1>2. vs \in Seq([name : Names, type : R])
  BY <1>1 DEF ScopeOf
<1>. HIDE DEF vs
<1>3. scope \in ScopeOf(R, S) /\ scope.parent = ss[s].parent
  BY <1>1, <1>2 DEF ScopeOf
<1>4. AddLocal(ss, s, name, type) = [ss EXCEPT ![s] = scope]
  BY DEF AddLocal, vs
<1>. HIDE DEF scope
<1>. QED
  BY <1>3, <1>4, ExceptSeq

-----------------------------------------------------------------------------
(* The inductive invariant *)

Inv == TypeOK /\ UnderConstruction

OpenSites == BodySites \cup FunctionSites

(* A step that builds no object preserves the invariant when it does not   *)
(* enter a construct in the wrong state.                                   *)
LEMMA QuietStep ==
  ASSUME Inv,
         UNCHANGED <<class_, classes, scopes, code_>>,
         pos' \in 0 .. MaxTokens, peek_' \in Readable \cup {NoToken},
         private_' \in BOOLEAN, scope_' \in ScopeRef, loc' \in LocalsOf(ClassRef),
         Site' \in Sites,
         Site' \in {"Parse"} \cup HeadSites => Site \in {"Parse"} \cup HeadSites,
         Site' \in OpenSites => Site \in OpenSites,
         Site' \in FunctionSites => Site \in FunctionSites /\ UNCHANGED scope_,
         Site' \in HeadSites \cup OpenSites => scope_' # Nil,
         Site' \in HeadSites \ {"Definition"} =>
           loc'.kw # "" /\ loc'.ref \in Range(code_) \cup {Nil, ObjectClass},
         Site' \in NamedSites => loc'.name \in Idents,
         Site' \in {"FuncName", "MethodName"} =>
           loc'.ref \in Range(code_) \cup {Nil, VoidClass},
         Site' \in {"EnumOpen", "EnumBody"} => Site \in {"EnumOpen", "EnumBody"}
  PROVE  Inv'
<1>1. ClassRef' = ClassRef /\ ScopeRef' = ScopeRef
  BY DEF ClassRef, ScopeRef
<1>2. TypeOK'
  BY <1>1 DEF Inv, TypeOK
<1>3. OpenClassOK => OpenClassOK'
  BY <1>1 DEF OpenClassOK, Nameable
<1>4. UNCHANGED scope_ /\ OwnScopeNested => OwnScopeNested'
  BY DEF OwnScopeNested, CurrentFunction
<1>5. UnderConstruction'
  BY <1>3, <1>4 DEF Inv, UnderConstruction, OpenSites
<1>. QED
  BY <1>2, <1>5 DEF Inv

LEMMA NoLocalsTyped ==
  ASSUME NEW R, Nil \in R
  PROVE  NoLocals \in LocalsOf(R)
<1>1. NoExpr \in ExprType
  <2>1. <<>> \in Seq(PlaceType) /\ <<>> \in Seq(Operators)
    OBVIOUS
  <2>. QED
    BY <2>1 DEF NoExpr, ExprType
<1>2. NoPlace \in PlaceType
  BY DEF NoPlace, Place, PlaceType, Nil
<1>. QED
  BY <1>1, <1>2 DEF NoLocals, LocalsOf

LEMMA NameableRange ==
  ASSUME Inv
  PROVE  /\ Range(code_) \subseteq ClassRef \ {Nil}
         /\ Nameable \subseteq ClassRef
         /\ Nil \in Nameable /\ VoidClass \in Nameable
         /\ Nil \in ClassRef /\ ObjectClass \in ClassRef
         /\ Len(classes) \in Nat /\ Len(scopes) \in Nat
<1>1. Len(classes) \in Nat /\ Len(scopes) \in Nat
  BY DEF Inv, TypeOK
<1>2. Range(code_) \subseteq ClassRef \ {Nil}
  BY DEF Inv, TypeOK, Range
<1>3. Nil \in ClassRef /\ ObjectClass \in ClassRef /\ VoidClass \in ClassRef
  <2>1. Len(classes) >= VoidClass
    BY DEF Inv, UnderConstruction
  <2>. QED
    BY <1>1, <2>1 DEF ClassRef, Nil, ObjectClass, VoidClass
<1>4. class_ \in ClassRef
  BY DEF Inv, TypeOK
<1>5. Nameable \subseteq ClassRef
  BY <1>2, <1>3, <1>4 DEF Nameable
<1>. QED
  BY <1>1, <1>2, <1>3, <1>5 DEF Nameable

(* A step that changes the class under construction, or adds scopes and    *)
(* locals, and stays inside its definition.                                *)
LEMMA BuildingStep ==
  ASSUME Inv, Site \in OpenSites, UNCHANGED <<class_, code_>>,
         ScopeRef \subseteq ScopeRef',
         NEW cls, cls \in ClassOf(Nameable, ScopeRef'),
         cls.super = classes[class_].super, cls.type = classes[class_].type,
         classes' = [classes EXCEPT ![class_] = cls],
         scopes' \in Seq(ScopeOf(ClassRef, ScopeRef')),
         pos' \in 0 .. MaxTokens, peek_' \in Readable \cup {NoToken},
         private_' \in BOOLEAN, scope_' \in ScopeRef' \ {Nil}, loc' \in LocalsOf(ClassRef),
         Site' \in (OpenSites \ {"FuncName", "MethodName"}) \cup Stopped,
         Site' \in FunctionSites => OwnScopeNested', Site' \notin NamedSites,
         Site' \in {"EnumOpen", "EnumBody"} => Site \in {"EnumOpen", "EnumBody"}
  PROVE  Inv'
<1>1. OpenClassOK /\ Len(classes) >= VoidClass
  BY DEF Inv, UnderConstruction, OpenSites
<1>2. class_ \in 1 .. Len(classes) /\ class_ = Len(classes)
  BY <1>1, NameableRange DEF OpenClassOK, VoidClass
<1>3. classes \in Seq(ClassOf(ClassRef, ScopeRef'))
  BY ClassesMonotonic DEF Inv, TypeOK
<1>4. cls \in ClassOf(ClassRef, ScopeRef')
  BY ClassOfMonotonic, NameableRange
<1>5. /\ classes' \in Seq(ClassOf(ClassRef, ScopeRef'))
      /\ Len(classes') = Len(classes)
      /\ classes'[class_] = cls
  BY <1>2, <1>3, <1>4, ExceptSeq
<1>6. ClassRef' = ClassRef
  BY <1>5 DEF ClassRef
<1>7. TypeOK'
  <2>1. Site' \in Sites
    BY DEF Sites, OpenSites
  <2>. QED
    BY <1>5, <1>6, <2>1 DEF Inv, TypeOK
<1>8. Nameable' = Nameable
  BY <1>5 DEF Nameable
<1>9. OpenClassOK'
  BY <1>1, <1>5, <1>8 DEF OpenClassOK
<1>10. Site' \notin {"Parse", "FuncName", "MethodName"} \cup HeadSites
  BY DEF OpenSites, BodySites, FieldSites, FunctionSites, HeadSites, Stopped
<1>11. UnderConstruction'
  BY <1>1, <1>5, <1>9, <1>10 DEF Inv, UnderConstruction, OpenSites
<1>. QED
  BY <1>7, <1>11 DEF Inv

(* A definition opens: its class is new, and nobody has seen it yet. *)
LEMMA OpenClassStep ==
  ASSUME Inv, Site \in HeadSites \ {"Definition"},
         NEW name \in Names, NEW super \in Range(code_) \cup {Nil, ObjectClass},
         OpenClass(name, super), UNCHANGED <<code_, scope_, scopes>>,
         pos' \in 0 .. MaxTokens, peek_' \in Readable \cup {NoToken},
         loc' \in LocalsOf(ClassRef),
         \/ Site' = "Body" /\ pc' = "Body"
         \/ Site' = "EnumOpen" /\ pc' = "EnumOpen" /\ loc.kw = "enum"
  PROVE  Inv'
<1>. DEFINE mods == Privacy(private_) \cup
                      (IF loc.kw \in {"object", "enum"} THEN {"final"} ELSE {})
            new == NewClass(name, mods, super, loc.kw)
<1>1. /\ classes' = Append(classes, new) /\ class_' = Len(classes) + 1
      /\ private_' = FALSE
  BY DEF OpenClass
<1>2. mods \in SUBSET Modifier
  BY DEF Privacy, Modifier
<1>3. loc.kw \in {"class", "object", "proto", "enum"}
  BY DEF Inv, UnderConstruction, TypeOK, LocalsOf
<1>. HIDE DEF mods
<1>4. ASSUME NEW R, VoidClass \in R, super \in R
      PROVE  /\ new \in ClassOf(R, ScopeRef)
             /\ new.super = super
             /\ new.type = loc.kw
  <2>1. Nil \in ScopeRef
    BY NameableRange DEF ScopeRef, Nil
  <2>2. PICK kw \in {"class", "object", "proto", "enum"} : kw = loc.kw
    BY <1>3
  <2>3. PICK m \in SUBSET Modifier : m = mods
    BY <1>2
  <2>4. PICK sup \in R : sup = super
    BY <1>4
  <2>5. /\ NewClass(name, m, sup, kw) \in ClassOf(R, ScopeRef)
        /\ NewClass(name, m, sup, kw).super = sup
        /\ NewClass(name, m, sup, kw).type = kw
    BY <1>4, <2>1, NewClassTyped
  <2>. QED
    BY <2>2, <2>3, <2>4, <2>5
<1>. HIDE DEF new
<1>5. ClassRef \subseteq ClassRef' /\ class_' \in ClassRef' /\ Len(classes') = class_'
      /\ class_' \notin ClassRef /\ classes'[class_'] = new /\ Len(classes) \in Nat
  <2>1. classes \in Seq(ClassOf(ClassRef, ScopeRef))
    BY DEF Inv, TypeOK
  <2>. QED
    BY <1>1, <2>1 DEF ClassRef
<1>6. ScopeRef' = ScopeRef
  BY DEF ScopeRef
<1>7. super \in Nameable' /\ VoidClass \in Nameable' /\ super \in ClassRef'
      /\ VoidClass \in ClassRef'
  BY <1>5, NameableRange DEF Nameable
<1>8. new.super = super /\ new.type = loc.kw
  BY <1>4, <1>7
<1>9. TypeOK'
  <2>1. classes \in Seq(ClassOf(ClassRef', ScopeRef))
    BY <1>5, ClassesMonotonic DEF Inv, TypeOK
  <2>2. new \in ClassOf(ClassRef', ScopeRef)
    BY <1>4, <1>7
  <2>3. classes' \in Seq(ClassOf(ClassRef', ScopeRef'))
    BY <1>1, <1>6, <2>1, <2>2
  <2>4. scopes' \in Seq(ScopeOf(ClassRef', ScopeRef'))
    BY <1>5, <1>6, ScopesMonotonic DEF Inv, TypeOK
  <2>5. loc' \in LocalsOf(ClassRef')
    BY <1>5 DEF LocalsOf
  <2>6. code_' \in Seq(ClassRef' \ {Nil})
    <3>1. ClassRef \ {Nil} \subseteq ClassRef' \ {Nil}
      BY <1>5
    <3>. QED
      BY <3>1, SeqMonotonic DEF Inv, TypeOK
  <2>7. Site' \in Sites
    BY DEF Sites, BodySites
  <2>. QED
    BY <1>1, <1>5, <1>6, <2>3, <2>4, <2>5, <2>6, <2>7 DEF Inv, TypeOK
<1>10. OpenClassOK'
  <2>1. class_' \notin Range(code_')
    BY <1>5, NameableRange
  <2>2. classes'[class_'] \in ClassOf(Nameable', ScopeRef')
    BY <1>4, <1>5, <1>6, <1>7
  <2>. QED
    BY <1>8, <1>5, <2>1, <2>2 DEF OpenClassOK
<1>11. Len(classes') >= VoidClass
  <2>1. Len(classes) >= VoidClass
    BY DEF Inv, UnderConstruction
  <2>2. Len(classes') = Len(classes) + 1
    BY <1>1, <1>5
  <2>. QED
    BY <1>5, <2>1, <2>2 DEF VoidClass
<1>12. scope_' # Nil
  BY DEF Inv, UnderConstruction
<1>13. Site' \notin {"Parse"} \cup HeadSites \cup FunctionSites \cup NamedSites
                     \cup {"FuncName", "MethodName"}
  BY DEF HeadSites, FunctionSites, NamedSites
<1>14. Site' \in {"EnumOpen", "EnumBody"} => classes'[class_'].type = "enum"
  BY <1>8, <1>5
<1>15. UnderConstruction'
  BY <1>10, <1>11, <1>12, <1>13, <1>14 DEF UnderConstruction
<1>. QED
  BY <1>9, <1>15 DEF Inv

(* A definition ends: class_, if there is one, joins the unit. *)
LEMMA ReturnStep ==
  ASSUME Inv, ReturnDefinition,
         UNCHANGED <<class_, scope_, classes, scopes, private_>>,
         pos' \in 0 .. MaxTokens, peek_' \in Readable \cup {NoToken}
  PROVE  Inv'
<1>1. ClassRef' = ClassRef /\ ScopeRef' = ScopeRef
  BY DEF ClassRef, ScopeRef
<1>2. code_' \in Seq(ClassRef \ {Nil})
  BY DEF ReturnDefinition, Inv, TypeOK
<1>3. class_ # Nil => Len(code_') > 0 /\ class_ = code_'[Len(code_')]
  BY DEF ReturnDefinition, Inv, TypeOK
<1>4. loc' \in LocalsOf(ClassRef)
  BY NoLocalsTyped, NameableRange DEF ReturnDefinition
<1>5. Site' = "Parse" /\ Site' \in Sites
  BY DEF ReturnDefinition, Site, ExpressionSites, Sites
<1>6. TypeOK'
  BY <1>1, <1>2, <1>4, <1>5 DEF Inv, TypeOK
<1>7. UnderConstruction'
  BY <1>3, <1>5 DEF Inv, UnderConstruction, HeadSites, BodySites, FieldSites, FunctionSites,
     NamedSites
<1>. QED
  BY <1>6, <1>7 DEF Inv

(* The parts of a definition.  Most steps move within one of them. *)
EnumSites == {"EnumOpen", "EnumBody"}
Regions   == {HeadSites, BodySites \ EnumSites, EnumSites, FunctionSites}

StaysInRegion == Site' \in Stopped \/ \E g \in Regions : Site \in g /\ Site' \in g

LEMMA MoveStep ==
  ASSUME Inv, UNCHANGED <<class_, code_, scope_, classes, scopes>>,
         pos' \in 0 .. MaxTokens, peek_' \in Readable \cup {NoToken},
         private_' \in BOOLEAN, loc' \in LocalsOf(ClassRef),
         StaysInRegion,
         Site' \in HeadSites \ {"Definition"} =>
           loc'.kw # "" /\ loc'.ref \in Range(code_) \cup {Nil, ObjectClass},
         Site' \in NamedSites => loc'.name \in Idents,
         Site' \in {"FuncName", "MethodName"} =>
           loc'.ref \in Range(code_) \cup {Nil, VoidClass}
  PROVE  Inv'
<1>1. /\ Site' \in Stopped =>
           /\ Site' \notin {"Parse"} \cup HeadSites
           /\ Site' \notin OpenSites
           /\ Site' \notin FunctionSites
           /\ Site' \notin EnumSites
      /\ Site' \in HeadSites => Site' \notin OpenSites
      /\ Site' \in OpenSites => Site' \notin {"Parse"} \cup HeadSites
      /\ Site' \in FunctionSites => Site' \notin BodySites
      /\ EnumSites \subseteq BodySites
  BY DEF OpenSites, BodySites, FieldSites, FunctionSites, HeadSites, Stopped, EnumSites
<1>2. /\ Site' \in {"Parse"} \cup HeadSites => Site \in {"Parse"} \cup HeadSites
      /\ Site' \in OpenSites => Site \in OpenSites
      /\ Site' \in FunctionSites => Site \in FunctionSites
      /\ Site' \in EnumSites => Site \in EnumSites
  BY <1>1 DEF StaysInRegion, Regions, OpenSites
<1>3. Site' \in HeadSites \cup OpenSites => scope_ # Nil
  BY <1>1, <1>2 DEF StaysInRegion, Regions, OpenSites, Inv, UnderConstruction
<1>4. scope_ \in ScopeRef
  BY DEF Inv, TypeOK
<1>5. Site' \in Sites
  BY DEF StaysInRegion, Regions, Sites, BodySites, EnumSites
<1>. QED
  BY <1>2, <1>3, <1>4, <1>5, QuietStep DEF EnumSites

(* What the construct being parsed refers to. *)
LEMMA OpenTyped ==
  ASSUME Inv, Site \in OpenSites
  PROVE  /\ class_ \in 1 .. Len(classes)
         /\ classes[class_] \in ClassOf(Nameable, ScopeRef)
         /\ scope_ \in 1 .. Len(scopes)
         /\ scopes[scope_] \in ScopeOf(ClassRef, ScopeRef)
         /\ Len(classes[class_].fields) \in Nat
         /\ Len(classes[class_].functions) \in Nat
         /\ Len(scopes[scope_].vars) \in Nat
<1>1. OpenClassOK /\ Len(classes) >= VoidClass /\ scope_ # Nil
  BY DEF Inv, UnderConstruction, OpenSites
<1>2. class_ \in 1 .. Len(classes) /\ classes[class_] \in ClassOf(Nameable, ScopeRef)
  BY <1>1, NameableRange DEF OpenClassOK, VoidClass
<1>3. scope_ \in 1 .. Len(scopes)
  BY <1>1, NameableRange DEF Inv, TypeOK, ScopeRef, Nil
<1>4. scopes[scope_] \in ScopeOf(ClassRef, ScopeRef)
  BY <1>3 DEF Inv, TypeOK
<1>5. Len(scopes[scope_].vars) \in Nat
  BY <1>4 DEF ScopeOf
<1>6. Len(classes[class_].fields) \in Nat /\ Len(classes[class_].functions) \in Nat
  BY <1>2 DEF ClassOf
<1>. QED
  BY <1>2, <1>3, <1>4, <1>5, <1>6

LEMMA FieldPlaceTyped ==
  ASSUME NEW cs, NEW c \in Nat, NEW i \in Nat
  PROVE  FieldPlace(cs, c, i) \in PlaceType
BY DEF FieldPlace, Place, PlaceType

LEMMA ResolveTyped ==
  ASSUME Inv, Site \in OpenSites, NEW name
  PROVE  Resolve(name) \in PlaceType
<1>. DEFINE v == Lookup(scopes[scope_], name)
            f == GetField(classes[class_], name)
<1>1. v \in Nat
  <2>1. scopes[scope_].vars \in Seq([name : Names, type : ClassRef])
    BY OpenTyped DEF ScopeOf
  <2>. QED
    BY <2>1, FirstNamedRange, OpenTyped DEF Lookup
<1>2. f \in Nat
  <2>1. classes[class_].fields \in Seq(FieldOf(Nameable))
    BY OpenTyped DEF ClassOf
  <2>. QED
    BY <2>1, FirstNamedRange, OpenTyped DEF GetField
<1>3. Place("Local", scope_, v) \in PlaceType
  BY <1>1, OpenTyped DEF Place, PlaceType
<1>4. FieldPlace(classes, class_, f) \in PlaceType
  BY <1>2, OpenTyped, FieldPlaceTyped
<1>5. NoPlace \in PlaceType
  BY DEF NoPlace, Place, PlaceType, Nil
<1>. QED
  BY <1>3, <1>4, <1>5 DEF Resolve

LEMMA FindClassTyped ==
  ASSUME Inv, NEW name
  PROVE  FindClass(name) \in Range(code_) \cup {Nil} /\ FindClass(name) \in ClassRef
<1>1. FindClass(name) \in Range(code_) \cup {Nil}
  BY FindClassRange DEF Inv, TypeOK
<1>. QED
  BY <1>1, NameableRange

(* The locals of a handler that has finished, of the same definition. *)
LEMMA NoLocalsKeptTyped ==
  ASSUME Inv
  PROVE  [NoLocals EXCEPT !.kw = loc.kw] \in LocalsOf(ClassRef)
<1>1. NoLocals \in LocalsOf(ClassRef)
  BY NoLocalsTyped, NameableRange
<1>2. loc.kw \in {"", "class", "object", "proto", "enum"}
  BY DEF Inv, TypeOK, LocalsOf
<1>. QED
  BY <1>1, <1>2 DEF LocalsOf

-----------------------------------------------------------------------------
(* Every action preserves the invariant *)

LEMMA ReadsTyped ==
  ASSUME Inv, NEW p, NEW k, NEW t \in Readable, Reads(p, k, t)
  PROVE  pos' \in 0 .. MaxTokens /\ peek_' \in Readable \cup {NoToken}
BY ReadTyped DEF Reads, Inv

LEMMA UnexpectedStep ==
  ASSUME Inv, Unexpected
  PROVE  Inv'
<1>1. PICK t \in Readable : Consume(t)
  BY DEF Unexpected
<1>2. pos' \in 0 .. MaxTokens /\ peek_' \in Readable \cup {NoToken}
  BY <1>1, ReadTyped DEF Inv
<1>3. StaysInRegion /\ Site' = "Aborted"
  BY DEF Unexpected, StaysInRegion, Site, ExpressionSites, Sites, Stopped
<1>. QED
  BY <1>2, <1>3, MoveStep DEF Unexpected, Inv, TypeOK, HeadSites, NamedSites

LEMMA ExpectSymbolStep ==
  ASSUME Inv, ExpectSymbol
  PROVE  Inv'
<1>1. PICK t \in Readable : Consume(t)
  BY DEF ExpectSymbol, Reads
<1>2. pos' \in 0 .. MaxTokens /\ peek_' \in Readable \cup {NoToken}
  BY <1>1, ReadTyped DEF Inv
<1>3. /\ StaysInRegion
      /\ Site' \in FieldSites \cup EnumSites \cup FunctionSites
      /\ Site' \in NamedSites => Site \in NamedSites
  BY DEF ExpectSymbol, Reads, StaysInRegion, Regions, Site, ExpressionSites, Sites,
     BodySites, FieldSites, FunctionSites, EnumSites, NamedSites
<1>4. Site' \in NamedSites => loc'.name \in Idents
  BY <1>3 DEF ExpectSymbol, Inv, UnderConstruction
<1>. QED
  BY <1>2, <1>3, <1>4, MoveStep DEF ExpectSymbol, Inv, TypeOK, FieldSites, EnumSites,
     FunctionSites, HeadSites

LEMMA ParseNextStep ==
  ASSUME Inv, ParseNext
  PROVE  Inv'
<1>1. PICK t \in Readable :
        /\ pc = "Parse"
        /\ PeekToken(t)
        /\ IF t = EndOfFile
           THEN pc' = "Done" /\ UNCHANGED <<scopes, scope_>>
           ELSE pc' = "Definition" /\ PushScope(Nil)
        /\ UNCHANGED <<private_, class_, code_, classes, loc>>
  BY DEF ParseNext
<1>2. pos' \in 0 .. MaxTokens /\ peek_' \in Readable \cup {NoToken}
  BY <1>1, ReadTyped DEF Inv
<1>3. CASE t = EndOfFile
  <2>1. StaysInRegion /\ Site' = "Done"
    BY <1>1, <1>3 DEF StaysInRegion, Site, ExpressionSites, Sites, Stopped
  <2>. QED
    BY <1>1, <1>2, <1>3, <2>1, MoveStep DEF Inv, TypeOK, HeadSites, NamedSites
<1>4. CASE t # EndOfFile
  <2>1. scopes' = AddScope(scopes, Nil) /\ scope_' = Len(scopes) + 1
    BY <1>1, <1>4 DEF PushScope
  <2>2. Nil \in 0 .. Len(scopes) /\ Len(scopes) \in Nat
    BY NameableRange DEF Nil
  <2>3. scopes \in Seq(ScopeOf(ClassRef, 0 .. Len(scopes)))
    BY DEF Inv, TypeOK, ScopeRef
  <2>4. /\ scopes' \in Seq(ScopeOf(ClassRef, 0 .. Len(scopes) + 1))
        /\ Len(scopes') = Len(scopes) + 1
    BY <2>1, <2>2, <2>3, AddScopeTyped
  <2>5. ClassRef' = ClassRef /\ ScopeRef' = 0 .. Len(scopes) + 1 /\ ScopeRef \subseteq ScopeRef'
    BY <1>1, <2>2, <2>4 DEF ClassRef, ScopeRef
  <2>6. classes' \in Seq(ClassOf(ClassRef', ScopeRef'))
    <3>1. classes \in Seq(ClassOf(ClassRef, ScopeRef))
      BY DEF Inv, TypeOK
    <3>2. ScopeRef \subseteq ScopeRef'
      BY <2>5
    <3>3. classes \in Seq(ClassOf(ClassRef, ScopeRef'))
      BY <3>1, <3>2, ClassesMonotonic
    <3>. QED
      BY <1>1, <2>5, <3>3
  <2>7. scope_' \in ScopeRef' /\ scope_' # Nil
    BY <2>1, <2>2, <2>5 DEF Nil
  <2>8. Site' \in Sites /\ Site = "Parse" /\ Site' = "Definition"
    BY <1>1, <1>4 DEF Sites, HeadSites, Site, ExpressionSites
  <2>9. TypeOK'
    BY <1>1, <1>2, <2>4, <2>5, <2>6, <2>7, <2>8 DEF Inv, TypeOK
  <2>10. UnderConstruction'
    BY <1>1, <2>7, <2>8 DEF Inv, UnderConstruction, HeadSites, BodySites, FieldSites,
       FunctionSites, NamedSites
  <2>. QED
    BY <2>9, <2>10 DEF Inv
<1>. QED
  BY <1>3, <1>4

LEMMA DefinitionPrivateStep ==
  ASSUME Inv, DefinitionPrivate
  PROVE  Inv'
<1>1. PICK t \in Readable : Reads("Definition", "kPRIVATE", t)
  BY DEF DefinitionPrivate
<1>2. pos' \in 0 .. MaxTokens /\ peek_' \in Readable \cup {NoToken}
  BY <1>1, ReadsTyped
<1>3. pc' \in {"Definition", "Parse", "Crashed", "Aborted"} /\ Site = "Definition" /\ Site' = pc'
  BY <1>1 DEF DefinitionPrivate, Reads, Site, ExpressionSites
<1>4. private_' \in BOOLEAN /\ UNCHANGED <<class_, code_, scope_, classes, scopes, loc>>
  BY DEF DefinitionPrivate, Inv, TypeOK
<1>5. /\ "Definition" \in HeadSites /\ Site' \in Sites
      /\ Site' \notin OpenSites /\ Site' \notin HeadSites \ {"Definition"}
      /\ Site' \notin {"FuncName", "MethodName", "EnumOpen", "EnumBody"}
      /\ Site' \notin FunctionSites /\ Site' \notin NamedSites
  BY <1>3 DEF NamedSites, OpenSites, BodySites, FieldSites, FunctionSites, HeadSites, Sites, Stopped
<1>6. scope_ # Nil /\ scope_ \in ScopeRef /\ loc \in LocalsOf(ClassRef)
  BY <1>3, <1>5 DEF Inv, UnderConstruction, TypeOK
<1>. QED
  BY <1>2, <1>3, <1>4, <1>5, <1>6, QuietStep

LEMMA DefinitionKeywordStep ==
  ASSUME Inv, DefinitionKeyword
  PROVE  Inv'
<1>1. PICK t \in Readable, kw \in {"object", "proto", "class", "enum"},
          k \in {"kOBJECT", "kPROTO", "kCLASS", "kENUM"} :
        Reads("Definition", k, t) /\ loc' = [loc EXCEPT !.kw = kw, !.ref = ObjectClass]
  BY DEF DefinitionKeyword, Opens
<1>2. pos' \in 0 .. MaxTokens /\ peek_' \in Readable \cup {NoToken}
  BY <1>1, ReadsTyped
<1>3. ObjectClass \in ClassRef
  BY NameableRange
<1>4. loc' \in LocalsOf(ClassRef) /\ loc'.kw # "" /\ loc'.ref = ObjectClass
  BY <1>1, <1>3 DEF Inv, TypeOK, LocalsOf
<1>5. StaysInRegion /\ Site' = "DefinitionName"
  BY <1>1 DEF DefinitionKeyword, Reads, StaysInRegion, Regions, Site, ExpressionSites, Sites,
     HeadSites
<1>. QED
  BY <1>2, <1>4, <1>5, MoveStep DEF DefinitionKeyword, Inv, TypeOK, NamedSites

LEMMA DefinitionEofStep ==
  ASSUME Inv, DefinitionEof
  PROVE  Inv'
<1>1. PICK t \in Readable : Reads("Definition", "kEOF", t)
  BY DEF DefinitionEof
<1>. QED
  BY <1>1, ReadsTyped, ReturnStep DEF DefinitionEof

LEMMA DefinitionNameStep ==
  ASSUME Inv, DefinitionName
  PROVE  Inv'
<1>1. PICK t \in Readable :
        /\ Reads("DefinitionName", "kIDENTIFIER", t)
        /\ IF loc.kw = "enum"
           THEN OpenClass(t.text, ObjectClass) /\ pc' = "EnumOpen" /\ UNCHANGED loc
           ELSE /\ loc' = [loc EXCEPT !.name = t.text]
                /\ pc' = "Head"
                /\ UNCHANGED <<private_, class_, classes>>
        /\ UNCHANGED <<code_, scope_, scopes>>
  BY DEF DefinitionName
<1>2. pos' \in 0 .. MaxTokens /\ peek_' \in Readable \cup {NoToken}
  BY <1>1, ReadsTyped
<1>3. t.text \in Idents /\ t.text \in Names
  BY <1>1, IdentifierText DEF Reads, Names
<1>4. Site = "DefinitionName" /\ Site \in HeadSites \ {"Definition"}
  BY <1>1 DEF Reads, Site, ExpressionSites, HeadSites
<1>5. CASE loc.kw = "enum"
  <2>1. Site' = "EnumOpen" /\ pc' = "EnumOpen"
    BY <1>1, <1>5 DEF Site, ExpressionSites
  <2>2. loc' \in LocalsOf(ClassRef)
    BY <1>1, <1>5 DEF Inv, TypeOK
  <2>. QED
    BY <1>1, <1>2, <1>3, <1>4, <1>5, <2>1, <2>2, OpenClassStep
<1>6. CASE loc.kw # "enum"
  <2>1. loc' = [loc EXCEPT !.name = t.text] /\ loc \in LocalsOf(ClassRef)
    BY <1>1, <1>6 DEF Inv, TypeOK
  <2>2. /\ loc' \in LocalsOf(ClassRef) /\ loc'.kw = loc.kw /\ loc'.ref = loc.ref
        /\ loc'.name \in Idents
    BY <1>3, <2>1 DEF LocalsOf
  <2>3. loc.kw # "" /\ loc.ref \in Range(code_) \cup {Nil, ObjectClass}
    BY <1>4 DEF Inv, UnderConstruction
  <2>4. StaysInRegion /\ Site' = "Head"
    BY <1>1, <1>4, <1>6 DEF StaysInRegion, Regions, Site, ExpressionSites, Sites, HeadSites
  <2>. QED
    BY <1>1, <1>2, <1>6, <2>2, <2>3, <2>4, MoveStep DEF Inv, TypeOK
<1>. QED
  BY <1>5, <1>6

LEMMA HeadExtendsStep ==
  ASSUME Inv, HeadExtends
  PROVE  Inv'
<1>1. PICK t \in Readable : Reads("Head", "kEXTENDS", t)
  BY DEF HeadExtends
<1>2. pos' \in 0 .. MaxTokens /\ peek_' \in Readable \cup {NoToken}
  BY <1>1, ReadsTyped
<1>3. /\ StaysInRegion /\ Site' = "Extends"
      /\ Site \in HeadSites \ {"Definition"}
  BY <1>1 DEF HeadExtends, Reads, StaysInRegion, Regions, Site, ExpressionSites, Sites,
     HeadSites
<1>4. /\ loc.kw # "" /\ loc.ref \in Range(code_) \cup {Nil, ObjectClass}
      /\ loc.name \in Idents
  <2>1. Site \in NamedSites
    BY <1>1 DEF Reads, Site, ExpressionSites, NamedSites
  <2>. QED
    BY <1>3, <2>1 DEF Inv, UnderConstruction
<1>. QED
  BY <1>2, <1>3, <1>4, MoveStep DEF HeadExtends, Inv, TypeOK

LEMMA HeadParentStep ==
  ASSUME Inv, HeadParent
  PROVE  Inv'
<1>1. PICK t \in Readable :
        Reads("Extends", "kIDENTIFIER", t) /\ loc' = [loc EXCEPT !.ref = FindClass(t.text)]
  BY DEF HeadParent
<1>2. pos' \in 0 .. MaxTokens /\ peek_' \in Readable \cup {NoToken}
  BY <1>1, ReadsTyped
<1>3. /\ StaysInRegion /\ Site' = "Head"
      /\ Site \in HeadSites \ {"Definition"}
  BY <1>1 DEF HeadParent, Reads, StaysInRegion, Regions, Site, ExpressionSites, Sites,
     HeadSites
<1>4. FindClass(t.text) \in Range(code_) \cup {Nil} /\ FindClass(t.text) \in ClassRef
  BY FindClassTyped
<1>5. /\ loc' \in LocalsOf(ClassRef) /\ loc'.kw = loc.kw /\ loc'.name = loc.name
      /\ loc'.ref = FindClass(t.text)
  BY <1>1, <1>4 DEF Inv, TypeOK, LocalsOf
<1>6. loc.kw # "" /\ loc.name \in Idents
  <2>1. Site \in NamedSites
    BY <1>1 DEF Reads, Site, ExpressionSites, NamedSites
  <2>. QED
    BY <1>3, <2>1 DEF Inv, UnderConstruction
<1>. QED
  BY <1>2, <1>3, <1>4, <1>5, <1>6, MoveStep DEF HeadParent, Inv, TypeOK

LEMMA HeadOpenStep ==
  ASSUME Inv, HeadOpen
  PROVE  Inv'
<1>1. PICK t \in Readable : Reads("Head", "kLBRACE", t)
  BY DEF HeadOpen
<1>2. pos' \in 0 .. MaxTokens /\ peek_' \in Readable \cup {NoToken}
  BY <1>1, ReadsTyped
<1>3. /\ pc' = "Body" /\ Site' = "Body"
      /\ Site \in HeadSites \ {"Definition"}
  BY <1>1 DEF HeadOpen, Reads, Site, ExpressionSites, HeadSites
<1>4. loc.ref \in Range(code_) \cup {Nil, ObjectClass} /\ loc.name \in Names
  <2>1. Site \in NamedSites
    BY <1>1 DEF Reads, Site, ExpressionSites, NamedSites
  <2>. QED
    BY <1>3, <2>1 DEF Inv, UnderConstruction, Names
<1>5. /\ OpenClass(loc.name, loc.ref) /\ UNCHANGED <<code_, scope_, scopes>>
      /\ loc' \in LocalsOf(ClassRef)
  BY NoLocalsKeptTyped DEF HeadOpen
<1>. QED
  BY <1>2, <1>3, <1>4, <1>5, OpenClassStep

LEMMA BodyPrivateStep ==
  ASSUME Inv, BodyPrivate
  PROVE  Inv'
<1>1. PICK t \in Readable : Reads("Body", "kPRIVATE", t)
  BY DEF BodyPrivate
<1>2. pos' \in 0 .. MaxTokens /\ peek_' \in Readable \cup {NoToken}
  BY <1>1, ReadsTyped
<1>3. Site = "Body" /\ Site' = pc' /\ pc' \in {"Body", "Aborted"} /\ private_' \in BOOLEAN
  BY <1>1 DEF BodyPrivate, Reads, Site, ExpressionSites, Inv, TypeOK
<1>4. /\ StaysInRegion
      /\ Site' \notin HeadSites \cup NamedSites \cup {"FuncName", "MethodName"}
  BY <1>3 DEF StaysInRegion, Regions, Sites, Stopped, BodySites, EnumSites, HeadSites, NamedSites
<1>. QED
  BY <1>2, <1>3, <1>4, MoveStep DEF BodyPrivate, Inv, TypeOK

LEMMA BodyVarStep ==
  ASSUME Inv, BodyVar
  PROVE  Inv'
<1>1. PICK t \in Readable : Reads("Body", "kVAR", t)
  BY DEF BodyVar
<1>2. pos' \in 0 .. MaxTokens /\ peek_' \in Readable \cup {NoToken}
  BY <1>1, ReadsTyped
<1>3. /\ StaysInRegion
      /\ Site' \notin HeadSites \cup NamedSites \cup {"FuncName", "MethodName"}
  BY <1>1 DEF BodyVar, Reads, Site, ExpressionSites, StaysInRegion, Regions, Sites,
     BodySites, FieldSites, EnumSites, HeadSites, NamedSites
<1>. QED
  BY <1>2, <1>3, MoveStep DEF BodyVar, Inv, TypeOK

LEMMA BodyFunctionStep ==
  ASSUME Inv, BodyFunction
  PROVE  Inv'
<1>1. PICK t \in Readable, k \in {"kFUNC", "kIDENTIFIER"} : Reads("Body", k, t)
  BY DEF BodyFunction
<1>2. pos' \in 0 .. MaxTokens /\ peek_' \in Readable \cup {NoToken}
  BY <1>1, ReadsTyped
<1>3. PICK ref \in Range(code_) \cup {Nil, VoidClass} : loc' = [loc EXCEPT !.ref = ref]
  BY FindClassTyped DEF BodyFunction
<1>4. ref \in ClassRef
  BY NameableRange
<1>5. loc' \in LocalsOf(ClassRef) /\ loc'.ref = ref
  BY <1>3, <1>4 DEF Inv, TypeOK, LocalsOf
<1>6. /\ StaysInRegion
      /\ Site' \notin HeadSites \cup NamedSites
  BY <1>1 DEF BodyFunction, Reads, Site, ExpressionSites, StaysInRegion, Regions, Sites,
     BodySites, EnumSites, HeadSites, NamedSites
<1>. QED
  BY <1>2, <1>5, <1>6, MoveStep DEF BodyFunction, Inv, TypeOK

LEMMA BodyCloseStep ==
  ASSUME Inv, BodyClose
  PROVE  Inv'
<1>1. PICK t \in Readable, p \in {"Body", "EnumBody"} : Reads(p, "kRBRACE", t)
  BY DEF BodyClose
<1>. QED
  BY <1>1, ReadsTyped, ReturnStep DEF BodyClose

LEMMA DeclareTyped ==
  ASSUME Inv, Site \in {"FuncName", "MethodName"}, NEW name \in Names
  PROVE  /\ Declare(name) \in ClassOf(Nameable, ScopeRef)
         /\ Declare(name).super = classes[class_].super
         /\ Declare(name).type = classes[class_].type
         /\ Len(Declare(name).functions) > 0
         /\ Declare(name).functions[Len(Declare(name).functions)].scope = Nil
<1>. DEFINE cls == classes[class_]
<1>1. cls \in ClassOf(Nameable, ScopeRef)
  BY OpenTyped DEF OpenSites, BodySites
<1>2. loc.ref \in Nameable
  BY DEF Inv, UnderConstruction, Nameable
<1>3. Nil \in ScopeRef /\ private_ \in BOOLEAN
  BY NameableRange DEF ScopeRef, Nil, Inv, TypeOK
<1>4. Declare(name) \in {DefineFunction(cls, name, loc.ref, private_),
                         DefineStaticFunction(cls, name, loc.ref, private_)}
  BY DEF Declare
<1>. HIDE DEF cls
<1>5. /\ Declare(name) \in ClassOf(Nameable, ScopeRef)
      /\ Declare(name).super = cls.super
      /\ Declare(name).type = cls.type
  BY <1>1, <1>2, <1>3, <1>4, DefineFunctionTyped
<1>6. /\ Len(Declare(name).functions) > 0
      /\ Declare(name).functions[Len(Declare(name).functions)].scope = Nil
  BY <1>1, <1>4, DefineFunctionScope
<1>. QED
  BY <1>5, <1>6 DEF cls

LEMMA FunctionNameStep ==
  ASSUME Inv, FunctionName
  PROVE  Inv'
<1>1. PICK t \in Readable :
        \/ /\ Reads("FuncName", "kIDENTIFIER", t)
           /\ PushScope(scope_)
           /\ classes' = [classes EXCEPT ![class_] =
                            AttachScope(Declare(t.text), Len(scopes) + 1)]
        \/ /\ Reads("MethodName", "kIDENTIFIER", t)
           /\ classes' = [classes EXCEPT ![class_] = Declare(t.text)]
           /\ UNCHANGED <<scopes, scope_>>
  BY DEF FunctionName
<1>2. /\ private_' = FALSE /\ loc' \in LocalsOf(ClassRef)
      /\ UNCHANGED <<class_, code_>>
  BY NoLocalsKeptTyped DEF FunctionName
<1>3. pos' \in 0 .. MaxTokens /\ peek_' \in Readable \cup {NoToken}
  BY <1>1, ReadsTyped
<1>4. t.text \in Names
  BY <1>1, IdentifierText DEF Reads, Names
<1>5. /\ Site \in {"FuncName", "MethodName"} /\ Site \in OpenSites
      /\ Site' = "ParamOpen"
      /\ Site' \in OpenSites \ {"FuncName", "MethodName"}
      /\ Site' \notin NamedSites \cup {"EnumOpen", "EnumBody"}
  BY <1>1 DEF FunctionName, Reads, Site, ExpressionSites, Sites, OpenSites, BodySites,
     FunctionSites, NamedSites
<1>. DEFINE cls == Declare(t.text)
<1>6. /\ cls \in ClassOf(Nameable, ScopeRef)
      /\ cls.super = classes[class_].super
      /\ cls.type = classes[class_].type
      /\ Len(cls.functions) > 0
      /\ cls.functions[Len(cls.functions)].scope = Nil
  BY <1>4, <1>5, DeclareTyped
<1>. HIDE DEF cls
<1>7. /\ class_ \in 1 .. Len(classes) /\ scope_ \in 1 .. Len(scopes)
      /\ Len(scopes) \in Nat /\ scope_ \in ScopeRef /\ scope_ # Nil
  BY <1>5, OpenTyped, NameableRange DEF ScopeRef, Nil
<1>8. ASSUME NEW x, classes' = [classes EXCEPT ![class_] = x] PROVE classes'[class_] = x
  BY <1>7, <1>8 DEF Inv, TypeOK
<1>9. CASE /\ scopes' = AddScope(scopes, scope_) /\ scope_' = Len(scopes) + 1
           /\ classes' = [classes EXCEPT ![class_] = AttachScope(cls, Len(scopes) + 1)]
  <2>. DEFINE s == Len(scopes) + 1
              scoped == AttachScope(cls, s)
  <2>1. /\ scopes' \in Seq(ScopeOf(ClassRef, 0 .. s))
        /\ Len(scopes') = s
        /\ scopes'[s].parent = scope_
    <3>1. scopes \in Seq(ScopeOf(ClassRef, 0 .. Len(scopes))) /\ scope_ \in 0 .. Len(scopes)
      BY <1>7 DEF Inv, TypeOK, ScopeRef
    <3>. QED
      BY <1>9, <3>1, AddScopeTyped
  <2>2. ScopeRef' = 0 .. s
    BY <2>1 DEF ScopeRef
  <2>3. ScopeRef \subseteq ScopeRef' /\ s \in ScopeRef' /\ s # Nil
    BY <1>7, <2>2 DEF ScopeRef, Nil
  <2>. HIDE DEF s
  <2>4. cls \in ClassOf(Nameable, ScopeRef')
    BY <1>6, <2>3, ClassOfMonotonic
  <2>5. /\ scoped \in ClassOf(Nameable, ScopeRef')
        /\ scoped.super = classes[class_].super
        /\ scoped.type = classes[class_].type
    BY <1>6, <2>3, <2>4, AttachScopeTyped
  <2>6. Len(scoped.functions) > 0
    BY <1>6, AttachScopeFunctions
  <2>. HIDE DEF scoped
  <2>7. scope_' = s /\ classes' = [classes EXCEPT ![class_] = scoped]
    BY <1>9 DEF s, scoped
  <2>8. classes'[class_] = scoped
    BY <1>8, <2>7
  <2>9. OwnScopeNested'
    BY <1>2, <1>7, <2>1, <2>6, <2>7, <2>8 DEF OwnScopeNested, CurrentFunction
  <2>10. scopes' \in Seq(ScopeOf(ClassRef, ScopeRef'))
    BY <2>1, <2>2
  <2>. QED
    BY <1>2, <1>3, <1>5, <2>3, <2>5, <2>7, <2>9, <2>10, BuildingStep
<1>10. CASE classes' = [classes EXCEPT ![class_] = cls] /\ UNCHANGED <<scopes, scope_>>
  <2>1. ScopeRef' = ScopeRef
    BY <1>10 DEF ScopeRef
  <2>2. classes'[class_] = cls
    BY <1>8, <1>10
  <2>3. OwnScopeNested'
    BY <1>2, <1>6, <2>2 DEF OwnScopeNested, CurrentFunction
  <2>4. scopes' \in Seq(ScopeOf(ClassRef, ScopeRef'))
    BY <1>10, <2>1 DEF Inv, TypeOK
  <2>5. cls \in ClassOf(Nameable, ScopeRef') /\ scope_' \in ScopeRef' \ {Nil}
    BY <1>6, <1>7, <1>10, <2>1
  <2>. QED
    BY <1>2, <1>3, <1>5, <1>6, <1>10, <2>1, <2>3, <2>4, <2>5, BuildingStep
<1>. QED
  BY <1>1, <1>9, <1>10 DEF PushScope, cls

LEMMA FunctionCloseStep ==
  ASSUME Inv, FunctionClose
  PROVE  Inv'
<1>1. PICK t \in Readable, p \in {"FuncClose", "ProtoFuncEnd"}, k \in {"kRBRACE", "kSEMICOLON"} :
           Reads(p, k, t)
  BY DEF FunctionClose
<1>2. pos' \in 0 .. MaxTokens /\ peek_' \in Readable \cup {NoToken}
  BY <1>1, ReadsTyped
<1>3. /\ Site' \in Sites /\ Site' = "Body" /\ Site \in FunctionSites /\ Site \in OpenSites
      /\ Site' \notin HeadSites \cup FunctionSites \cup NamedSites \cup {"Parse"}
  BY <1>1 DEF FunctionClose, Reads, Site, ExpressionSites, Sites, OpenSites, BodySites,
     FunctionSites, HeadSites, NamedSites
<1>4. scope_' \in ScopeRef \ {Nil}
  <2>1. scopes[scope_].parent \in ScopeRef /\ scope_ \in ScopeRef /\ scope_ # Nil
    BY <1>3, OpenTyped DEF ScopeOf, Inv, TypeOK, Nil
  <2>2. OwnScopeNested
    BY <1>3 DEF Inv, UnderConstruction
  <2>. QED
    BY <2>1, <2>2 DEF FunctionClose, RestoreScope, OwnScopeNested
<1>. QED
  BY <1>2, <1>3, <1>4, QuietStep DEF FunctionClose, Inv, TypeOK

LEMMA EnumSeparatorStep ==
  ASSUME Inv, EnumSeparator
  PROVE  Inv'
<1>1. PICK t \in Readable, k \in {"kCOMMA", "kSEMICOLON"} : Reads("EnumBody", k, t)
  BY DEF EnumSeparator
<1>2. pos' \in 0 .. MaxTokens /\ peek_' \in Readable \cup {NoToken}
  BY <1>1, ReadsTyped
<1>3. loc' \in LocalsOf(ClassRef)
  BY DEF EnumSeparator, Inv, TypeOK, LocalsOf
<1>4. /\ StaysInRegion
      /\ Site' \notin HeadSites \cup NamedSites \cup {"FuncName", "MethodName"}
  BY <1>1 DEF EnumSeparator, Reads, Site, ExpressionSites, StaysInRegion, Regions, Sites,
     BodySites, EnumSites, HeadSites, NamedSites
<1>. QED
  BY <1>2, <1>3, <1>4, MoveStep DEF EnumSeparator, Inv, TypeOK

LEMMA DeclaratorNameStep ==
  ASSUME Inv, DeclaratorName
  PROVE  Inv'
<1>1. PICK t \in Readable :
        /\ \/ Reads("Fields", "kIDENTIFIER", t) /\ pc' = "FieldColon"
           \/ Reads("Locals", "kIDENTIFIER", t) /\ pc' = "LocalColon"
           \/ Reads("Params", "kIDENTIFIER", t) /\ pc' = "ParamColon"
        /\ loc' = [loc EXCEPT !.name = t.text]
        /\ UNCHANGED <<private_, class_, code_, scope_, classes, scopes>>
  BY DEF DeclaratorName
<1>2. pos' \in 0 .. MaxTokens /\ peek_' \in Readable \cup {NoToken}
  BY <1>1, ReadsTyped
<1>3. t.text \in Idents
  BY <1>1, IdentifierText DEF Reads
<1>4. loc' \in LocalsOf(ClassRef) /\ loc'.name \in Idents
  BY <1>1, <1>3 DEF Inv, TypeOK, LocalsOf
<1>5. /\ StaysInRegion
      /\ Site' \notin HeadSites \cup {"FuncName", "MethodName"}
  BY <1>1 DEF Reads, Site, ExpressionSites, StaysInRegion, Regions, Sites,
     BodySites, FieldSites, FunctionSites, EnumSites, HeadSites
<1>. QED
  BY <1>1, <1>2, <1>4, <1>5, MoveStep DEF Inv, TypeOK

LEMMA ParamTypeStep ==
  ASSUME Inv, ParamType
  PROVE  Inv'
<1>1. PICK t \in Readable :
        /\ Reads("ParamType", "kIDENTIFIER", t)
        /\ loc' = [loc EXCEPT !.ref = FindClass(t.text)]
  BY DEF ParamType
<1>2. pos' \in 0 .. MaxTokens /\ peek_' \in Readable \cup {NoToken}
  BY <1>1, ReadsTyped
<1>3. FindClass(t.text) \in ClassRef
  BY FindClassTyped
<1>4. loc' \in LocalsOf(ClassRef) /\ loc'.name = loc.name
  BY <1>1, <1>3 DEF Inv, TypeOK, LocalsOf
<1>5. /\ StaysInRegion /\ Site \in NamedSites
      /\ Site' \notin HeadSites \cup {"FuncName", "MethodName"}
  BY <1>1 DEF ParamType, Reads, Site, ExpressionSites, StaysInRegion, Regions, Sites,
     FunctionSites, HeadSites, NamedSites
<1>6. loc.name \in Idents
  BY <1>5 DEF Inv, UnderConstruction
<1>. QED
  BY <1>2, <1>4, <1>5, <1>6, MoveStep DEF ParamType, Inv, TypeOK

LEMMA ParamsCloseStep ==
  ASSUME Inv, ParamsClose
  PROVE  Inv'
<1>1. PICK t \in Readable : Reads("Params", "kRPAREN", t)
  BY DEF ParamsClose
<1>2. pos' \in 0 .. MaxTokens /\ peek_' \in Readable \cup {NoToken}
  BY <1>1, ReadsTyped
<1>3. /\ StaysInRegion
      /\ Site' \notin HeadSites \cup NamedSites \cup {"FuncName", "MethodName"}
  BY <1>1 DEF ParamsClose, Reads, Site, ExpressionSites, StaysInRegion, Regions, Sites,
     FunctionSites, HeadSites, NamedSites
<1>. QED
  BY <1>2, <1>3, MoveStep DEF ParamsClose, Inv, TypeOK

LEMMA DeclarationNextStep ==
  ASSUME Inv, DeclarationNext
  PROVE  Inv'
<1>1. PICK t \in Readable, p \in {"FieldNext", "LocalNext"}, k \in {"kCOMMA", "kSEMICOLON"} :
           Reads(p, k, t)
  BY DEF DeclarationNext
<1>2. pos' \in 0 .. MaxTokens /\ peek_' \in Readable \cup {NoToken}
  BY <1>1, ReadsTyped
<1>3. private_' \in BOOLEAN
  BY DEF DeclarationNext, Inv, TypeOK
<1>4. /\ StaysInRegion
      /\ Site' \notin HeadSites \cup NamedSites \cup {"FuncName", "MethodName"}
  BY DEF DeclarationNext, Reads, Site, ExpressionSites, StaysInRegion, Regions, Sites,
     BodySites, FieldSites, FunctionSites, EnumSites, HeadSites, NamedSites
<1>. QED
  BY <1>2, <1>3, <1>4, MoveStep DEF DeclarationNext, Inv, TypeOK

(* The class under construction changes, no scope does, and the construct  *)
(* stays the same or ends.                                                 *)
LEMMA ClassStep ==
  ASSUME Inv, Site \in OpenSites, UNCHANGED <<private_, class_, code_, scope_, scopes>>,
         NEW cls, cls \in ClassOf(Nameable, ScopeRef),
         cls.super = classes[class_].super, cls.type = classes[class_].type,
         Len(cls.functions) = Len(classes[class_].functions),
         \A i \in 1 .. Len(cls.functions) :
           cls.functions[i].scope = classes[class_].functions[i].scope,
         classes' = [classes EXCEPT ![class_] = cls],
         pos' \in 0 .. MaxTokens, peek_' \in Readable \cup {NoToken},
         loc' \in LocalsOf(ClassRef), StaysInRegion,
         Site' \notin NamedSites \cup {"FuncName", "MethodName"}
  PROVE  Inv'
<1>1. ScopeRef' = ScopeRef /\ private_' \in BOOLEAN /\ scope_' \in ScopeRef' \ {Nil}
  BY OpenTyped DEF ScopeRef, Inv, TypeOK, Nil
<1>2. classes'[class_] = cls
  BY OpenTyped DEF Inv, TypeOK
<1>3. /\ Site' \in (OpenSites \ {"FuncName", "MethodName"}) \cup Stopped
      /\ Site' \in FunctionSites => Site \in FunctionSites
      /\ Site' \in {"EnumOpen", "EnumBody"} => Site \in {"EnumOpen", "EnumBody"}
  BY DEF StaysInRegion, Regions, OpenSites, HeadSites, BodySites, FieldSites, FunctionSites,
     EnumSites, Stopped
<1>4. ASSUME Site' \in FunctionSites PROVE OwnScopeNested'
  <2>1. OwnScopeNested
    BY <1>3, <1>4 DEF Inv, UnderConstruction
  <2>2. CurrentFunction' = CurrentFunction /\ CurrentFunction = Len(cls.functions)
    BY <1>2 DEF CurrentFunction
  <2>3. CurrentFunction \in 1 .. Len(cls.functions)
    BY <2>1, <2>2, OpenTyped DEF OwnScopeNested, CurrentFunction
  <2>4. cls.functions[CurrentFunction].scope = classes[class_].functions[CurrentFunction].scope
    BY <2>3
  <2>. QED
    BY <1>2, <2>1, <2>2, <2>4 DEF OwnScopeNested
<1>5. scopes' \in Seq(ScopeOf(ClassRef, ScopeRef'))
  BY <1>1 DEF Inv, TypeOK
<1>. QED
  BY <1>1, <1>3, <1>4, <1>5, BuildingStep

LEMMA LiteralTyped ==
  ASSUME NEW c \in Nat, NEW n \in Nat
  PROVE  Literal(c, n) \in ExprType
<1>1. Place("Literal", c, n) \in PlaceType
  BY DEF Place, PlaceType
<1>2. <<Place("Literal", c, n)>> \in Seq(PlaceType) /\ <<>> \in Seq(Operators)
  BY <1>1
<1>. QED
  BY <1>2 DEF Literal, ExprType

LEMMA EnumConstantStep ==
  ASSUME Inv, EnumConstant
  PROVE  Inv'
<1>. DEFINE defined(name) == DefineStaticField(classes[class_], name, class_, FALSE)
            place(d)   == Place("StaticField", class_, Len(d.fields))
            ordinal(d) == Literal(IntClass, Ordinal(d))
<1>1. PICK t \in Readable :
        /\ Reads("EnumBody", "kIDENTIFIER", t)
        /\ \/ pc' = "Aborted" /\ UNCHANGED classes
           \/ /\ classes' = [classes EXCEPT ![class_] =
                                AddAst(defined(t.text), Constructor,
                                       place(defined(t.text)), ordinal(defined(t.text)))]
              /\ UNCHANGED pc
        /\ UNCHANGED <<private_, class_, code_, scope_, scopes, loc>>
  BY DEF EnumConstant
<1>2. pos' \in 0 .. MaxTokens /\ peek_' \in Readable \cup {NoToken}
  BY <1>1, ReadsTyped
<1>3. t.text \in Names
  BY <1>1, IdentifierText DEF Reads, Names
<1>4. Site = "EnumBody" /\ Site \in OpenSites /\ pc = "EnumBody"
  BY <1>1 DEF Reads, Site, ExpressionSites, OpenSites, BodySites
<1>5. loc \in LocalsOf(ClassRef) /\ private_ \in BOOLEAN
  BY DEF Inv, TypeOK
<1>6. CASE pc' = "Aborted" /\ UNCHANGED classes
  <2>1. StaysInRegion /\ Site' \notin HeadSites \cup NamedSites \cup {"FuncName", "MethodName"}
    BY <1>6 DEF StaysInRegion, Stopped, Site, ExpressionSites, HeadSites, NamedSites
  <2>. QED
    BY <1>1, <1>2, <1>5, <1>6, <2>1, MoveStep
<1>7. CASE /\ classes' = [classes EXCEPT ![class_] =
                            AddAst(defined(t.text), Constructor,
                                   place(defined(t.text)), ordinal(defined(t.text)))]
           /\ UNCHANGED pc
  <2>1. StaysInRegion /\ Site' \notin HeadSites \cup NamedSites \cup {"FuncName", "MethodName"}
    BY <1>4, <1>7 DEF StaysInRegion, Regions, EnumSites, Site, ExpressionSites, HeadSites, NamedSites
  <2>2. class_ \in Nameable /\ class_ \in Nat
    <3>1. classes[class_].type = "enum"
      BY <1>4 DEF Inv, UnderConstruction
    <3>. QED
      BY <1>4, <3>1, OpenTyped DEF Nameable
  <2>3. /\ classes[class_] \in ClassOf(Nameable, ScopeRef)
    BY <1>4, OpenTyped
  <2>4. PICK priv \in BOOLEAN : priv = FALSE
    OBVIOUS
  <2>5. PICK d : d = DefineStaticField(classes[class_], t.text, class_, priv)
    OBVIOUS
  <2>6. /\ d \in ClassOf(Nameable, ScopeRef)
        /\ d.super = classes[class_].super
        /\ d.type = classes[class_].type
    BY <1>3, <2>2, <2>3, <2>5, CreateFieldTyped
  <2>7. d.functions = classes[class_].functions
    BY <2>3, <2>5 DEF DefineStaticField, ClassOf
  <2>8. Len(d.fields) \in Nat /\ Ordinal(d) \in Nat
    BY <2>6 DEF ClassOf, Ordinal
  <2>9. place(d) \in PlaceType
    BY <2>2, <2>8 DEF Place, PlaceType
  <2>10. ordinal(d) \in ExprType
    BY <2>8, LiteralTyped DEF IntClass
  <2>. HIDE DEF place, ordinal
  <2>11. PICK cls : cls = AddAst(d, Constructor, place(d), ordinal(d))
    OBVIOUS
  <2>12. /\ cls \in ClassOf(Nameable, ScopeRef)
         /\ cls.super = d.super
         /\ cls.type = d.type
    BY <2>6, <2>9, <2>10, <2>11, AddAstTyped DEF Constructor
  <2>13. /\ Len(cls.functions) = Len(d.functions)
         /\ \A i \in 1 .. Len(d.functions) : cls.functions[i].scope = d.functions[i].scope
    BY <2>6, <2>11, AddAstKeepsScopes
  <2>14. classes' = [classes EXCEPT ![class_] = cls]
    BY <1>7, <2>4, <2>5, <2>11
  <2>. QED
    BY <1>1, <1>2, <1>4, <1>5, <2>1, <2>6, <2>7, <2>12, <2>13, <2>14, ClassStep
<1>. QED
  BY <1>1, <1>6, <1>7

LEMMA FieldTypeStep ==
  ASSUME Inv, FieldType
  PROVE  Inv'
<1>1. PICK t \in Readable : Reads("FieldType", "kIDENTIFIER", t) /\
        classes' = [classes EXCEPT ![class_] =
                      CreateField(@, loc.name, FindClass(t.text), private_)]
  BY DEF FieldType
<1>2. pos' \in 0 .. MaxTokens /\ peek_' \in Readable \cup {NoToken}
  BY <1>1, ReadsTyped
<1>3. Site = "FieldType" /\ Site \in OpenSites /\ Site \in NamedSites
  BY <1>1 DEF Reads, Site, ExpressionSites, OpenSites, BodySites, FieldSites, NamedSites
<1>4. StaysInRegion /\ Site' \notin NamedSites \cup {"FuncName", "MethodName"}
  BY <1>3 DEF FieldType, StaysInRegion, Regions, EnumSites, BodySites, FieldSites, Site,
     ExpressionSites, NamedSites
<1>5. loc' \in LocalsOf(ClassRef)
  BY DEF FieldType, Inv, TypeOK, LocalsOf
<1>6. loc.name \in Names /\ private_ \in BOOLEAN
  BY <1>3 DEF Inv, UnderConstruction, TypeOK, Names
<1>7. FindClass(t.text) \in Nameable
  BY FindClassTyped DEF Nameable
<1>8. classes[class_] \in ClassOf(Nameable, ScopeRef)
  BY <1>3, OpenTyped
<1>9. PICK cls : cls = CreateField(classes[class_], loc.name, FindClass(t.text), private_)
  OBVIOUS
<1>10. /\ cls \in ClassOf(Nameable, ScopeRef)
       /\ cls.super = classes[class_].super
       /\ cls.type = classes[class_].type
  BY <1>6, <1>7, <1>8, <1>9, CreateFieldTyped
<1>11. cls.functions = classes[class_].functions
  BY <1>8, <1>9 DEF CreateField, DefineField, DefineStaticField, ClassOf
<1>12. classes' = [classes EXCEPT ![class_] = cls]
  BY <1>1, <1>9
<1>13. UNCHANGED <<private_, class_, code_, scope_, scopes>>
  BY DEF FieldType
<1>. QED
  BY <1>2, <1>3, <1>4, <1>5, <1>10, <1>11, <1>12, <1>13, ClassStep

(* AddLocal of a parameter or a variable, or the abort of a second one. *)
LEMMA DeclareLocalStep ==
  ASSUME Inv, Site \in FunctionSites \cap NamedSites,
         NEW type \in ClassRef, NEW next \in {"LocalNext", "Params"},
         DeclareLocal(type, next), UNCHANGED <<private_, class_, code_, scope_, classes>>,
         pos' \in 0 .. MaxTokens, peek_' \in Readable \cup {NoToken},
         loc' \in LocalsOf(ClassRef)
  PROVE  Inv'
<1>1. Site \in OpenSites /\ private_ \in BOOLEAN
  BY DEF OpenSites, Inv, TypeOK
<1>2. loc.name \in Names
  BY DEF Inv, UnderConstruction, Names
<1>3. CASE pc' = "Aborted" /\ UNCHANGED scopes
  <2>1. StaysInRegion /\ Site' \notin HeadSites \cup NamedSites \cup {"FuncName", "MethodName"}
    BY <1>3 DEF StaysInRegion, Stopped, Site, ExpressionSites, HeadSites, NamedSites
  <2>. QED
    BY <1>1, <1>3, <2>1, MoveStep
<1>4. CASE pc' = next /\ scopes' = AddLocal(scopes, scope_, loc.name, type)
  <2>1. Site' = next /\ Site' \in FunctionSites
        /\ Site' \notin NamedSites \cup BodySites
    BY <1>4 DEF Site, ExpressionSites, FunctionSites, BodySites, FieldSites, NamedSites
  <2>2. scopes \in Seq(ScopeOf(ClassRef, ScopeRef)) /\ scope_ \in 1 .. Len(scopes)
    BY <1>1, OpenTyped DEF Inv, TypeOK
  <2>3. /\ scopes' \in Seq(ScopeOf(ClassRef, ScopeRef))
        /\ Len(scopes') = Len(scopes)
        /\ scopes'[scope_].parent = scopes[scope_].parent
    BY <1>2, <1>4, <2>2, AddLocalTyped
  <2>4. ScopeRef' = ScopeRef
    BY <2>3 DEF ScopeRef
  <2>5. OwnScopeNested
    BY DEF Inv, UnderConstruction
  <2>6. OwnScopeNested'
    BY <2>3, <2>5 DEF OwnScopeNested, CurrentFunction
  <2>7. PICK cls : cls = classes[class_]
    OBVIOUS
  <2>8. cls \in ClassOf(Nameable, ScopeRef')
    BY <1>1, <2>4, <2>7, OpenTyped
  <2>9. classes' = [classes EXCEPT ![class_] = cls]
    BY <1>1, <2>7, OpenTyped DEF Inv, TypeOK
  <2>10. scope_' \in ScopeRef' \ {Nil}
    BY <1>1, <2>4, OpenTyped DEF ScopeRef, Nil
  <2>11. Site' \in OpenSites \ {"FuncName", "MethodName"}
         /\ Site' \notin {"EnumOpen", "EnumBody"}
    BY <2>1 DEF OpenSites, BodySites
  <2>. QED
    BY <1>1, <2>1, <2>3, <2>4, <2>6, <2>7, <2>8, <2>9, <2>10, <2>11, BuildingStep
<1>. QED
  BY <1>3, <1>4 DEF DeclareLocal

LEMMA LocalTypeStep ==
  ASSUME Inv, LocalType
  PROVE  Inv'
<1>1. PICK t \in Readable :
        Reads("LocalType", "kIDENTIFIER", t) /\ DeclareLocal(FindClass(t.text), "LocalNext")
  BY DEF LocalType
<1>2. pos' \in 0 .. MaxTokens /\ peek_' \in Readable \cup {NoToken}
  BY <1>1, ReadsTyped
<1>3. Site \in FunctionSites \cap NamedSites
  BY <1>1 DEF Reads, Site, ExpressionSites, FunctionSites, NamedSites
<1>4. loc' \in LocalsOf(ClassRef) /\ UNCHANGED <<private_, class_, code_, scope_, classes>>
  BY DEF LocalType, Inv, TypeOK, LocalsOf
<1>5. FindClass(t.text) \in ClassRef
  BY FindClassTyped
<1>. QED
  BY <1>1, <1>2, <1>3, <1>4, <1>5, DeclareLocalStep

LEMMA ParamDefaultStep ==
  ASSUME Inv, ParamDefault
  PROVE  Inv'
<1>1. PICK t \in Readable :
        \/ /\ Consume(t)
           /\ pc' = "Unary"
           /\ loc' = [loc EXCEPT !.back = "Aborted"]
           /\ UNCHANGED scopes
        \/ /\ PeekToken(t)
           /\ DeclareLocal(loc.ref, "Params")
           /\ loc' = [NoLocals EXCEPT !.kw = loc.kw]
  BY DEF ParamDefault
<1>2. pos' \in 0 .. MaxTokens /\ peek_' \in Readable \cup {NoToken}
  BY <1>1, ReadTyped DEF Inv
<1>3. Site = "ParamDefault" /\ Site \in FunctionSites \cap NamedSites
  BY DEF ParamDefault, Site, ExpressionSites, FunctionSites, NamedSites
<1>4. UNCHANGED <<private_, class_, code_, scope_, classes>> /\ private_ \in BOOLEAN
  BY DEF ParamDefault, Inv, TypeOK
<1>5. loc.ref \in ClassRef
  BY DEF Inv, TypeOK, LocalsOf
<1>6. CASE /\ pc' = "Unary" /\ loc' = [loc EXCEPT !.back = "Aborted"]
           /\ UNCHANGED scopes
  <2>1. loc' \in LocalsOf(ClassRef) /\ loc'.back = "Aborted"
    BY <1>6 DEF Inv, TypeOK, LocalsOf
  <2>2. StaysInRegion /\ Site' \notin HeadSites \cup NamedSites \cup {"FuncName", "MethodName"}
    BY <1>3, <1>6, <2>1 DEF StaysInRegion, Regions, Site, ExpressionSites, FunctionSites,
       HeadSites, NamedSites
  <2>. QED
    BY <1>2, <1>4, <1>6, <2>1, <2>2, MoveStep
<1>7. CASE /\ DeclareLocal(loc.ref, "Params")
           /\ loc' = [NoLocals EXCEPT !.kw = loc.kw]
  BY <1>2, <1>3, <1>4, <1>5, <1>7, NoLocalsKeptTyped, DeclareLocalStep
<1>. QED
  BY <1>1, <1>6, <1>7

(* An expression begins where the place that takes it is known. *)
LEMMA BeginExpressionStep ==
  ASSUME Inv, NEW place \in PlaceType, NEW back \in {"FieldNext", "LocalNext", "StatementEnd"},
         BeginExpression(place, back),
         UNCHANGED <<private_, class_, code_, scope_, classes, scopes>>,
         pos' \in 0 .. MaxTokens, peek_' \in Readable \cup {NoToken},
         \E g \in {BodySites \ EnumSites, FunctionSites} : Site \in g /\ back \in g
  PROVE  Inv'
<1>1. loc' \in LocalsOf(ClassRef) /\ loc'.back = back
  BY DEF BeginExpression, Inv, TypeOK, LocalsOf
<1>2. Site' = back
  BY <1>1 DEF BeginExpression, Site, ExpressionSites
<1>3. StaysInRegion /\ Site' \notin HeadSites \cup NamedSites \cup {"FuncName", "MethodName"}
  BY <1>2 DEF StaysInRegion, Regions, HeadSites, NamedSites
<1>. QED
  BY <1>1, <1>3, MoveStep DEF Inv, TypeOK

LEMMA InitialiserStep ==
  ASSUME Inv, Initialiser
  PROVE  Inv'
<1>. DEFINE field == FieldPlace(classes, class_, Len(classes[class_].fields))
            local == Place("Local", scope_, Len(scopes[scope_].vars))
<1>1. PICK t \in Readable :
        /\ \/ /\ Reads("FieldNext", "kEQUALS", t)
              /\ BeginExpression(field, "FieldNext")
           \/ /\ Reads("LocalNext", "kEQUALS", t)
              /\ BeginExpression(local, "LocalNext")
        /\ UNCHANGED <<private_, class_, code_, scope_, classes, scopes>>
  BY DEF Initialiser
<1>2. pos' \in 0 .. MaxTokens /\ peek_' \in Readable \cup {NoToken}
  BY <1>1, ReadsTyped
<1>3. Site \in {"FieldNext", "LocalNext"} /\ Site = pc /\ Site \in OpenSites
  BY <1>1 DEF Reads, Site, ExpressionSites, OpenSites, BodySites, FieldSites, FunctionSites
<1>4. field \in PlaceType
  BY <1>3, OpenTyped, FieldPlaceTyped
<1>5. local \in PlaceType
  BY <1>3, OpenTyped DEF Place, PlaceType
<1>. HIDE DEF field, local
<1>6. "FieldNext" \in BodySites \ EnumSites /\ "LocalNext" \in FunctionSites
  BY DEF BodySites, FieldSites, EnumSites, FunctionSites
<1>7. CASE Reads("FieldNext", "kEQUALS", t) /\ BeginExpression(field, "FieldNext")
  BY <1>1, <1>2, <1>3, <1>4, <1>6, <1>7, BeginExpressionStep DEF Reads
<1>8. CASE Reads("LocalNext", "kEQUALS", t) /\ BeginExpression(local, "LocalNext")
  BY <1>1, <1>2, <1>3, <1>5, <1>6, <1>8, BeginExpressionStep DEF Reads
<1>. QED
  BY <1>1, <1>7, <1>8

LEMMA StatementStep ==
  ASSUME Inv, Statement
  PROVE  Inv'
<1>1. PICK t \in Readable, k \in {"kSEMICOLON", "kVAR", "kRETURN", "kIDENTIFIER"} :
        /\ Reads("Statement", k, t)
        /\ \/ pc' \in {"StatementEnd", "Locals"} /\ UNCHANGED loc
           \/ BeginExpression(ReturnPlace, "StatementEnd")
           \/ /\ k = "kIDENTIFIER"
              /\ pc' = "Assign"
              /\ loc' = [loc EXCEPT !.name = t.text]
  BY DEF Statement
<1>2. pos' \in 0 .. MaxTokens /\ peek_' \in Readable \cup {NoToken}
  BY <1>1, ReadsTyped
<1>3. Site = "Statement" /\ Site \in FunctionSites /\ "StatementEnd" \in FunctionSites
  BY <1>1 DEF Reads, Site, ExpressionSites, FunctionSites
<1>4. /\ UNCHANGED <<private_, class_, code_, scope_, classes, scopes>>
      /\ private_ \in BOOLEAN /\ loc \in LocalsOf(ClassRef)
  BY DEF Statement, Inv, TypeOK
<1>5. ASSUME pc' \in {"StatementEnd", "Locals", "Assign"}
      PROVE  StaysInRegion /\ Site' \notin HeadSites \cup NamedSites \cup {"FuncName", "MethodName"}
  BY <1>3, <1>5 DEF StaysInRegion, Regions, Site, ExpressionSites, FunctionSites, HeadSites,
     NamedSites
<1>6. CASE pc' \in {"StatementEnd", "Locals"} /\ UNCHANGED loc
  BY <1>2, <1>4, <1>5, <1>6, MoveStep
<1>7. CASE BeginExpression(ReturnPlace, "StatementEnd")
  <2>1. ReturnPlace \in PlaceType
    BY DEF ReturnPlace, Place, PlaceType, Nil
  <2>. QED
    BY <1>2, <1>3, <1>4, <1>7, <2>1, BeginExpressionStep
<1>8. CASE k = "kIDENTIFIER" /\ pc' = "Assign" /\ loc' = [loc EXCEPT !.name = t.text]
  <2>1. t.text \in Idents
    BY <1>1, <1>8, IdentifierText DEF Reads
  <2>2. loc' \in LocalsOf(ClassRef)
    BY <1>4, <1>8, <2>1 DEF LocalsOf
  <2>. QED
    BY <1>2, <1>4, <1>5, <1>8, <2>2, MoveStep
<1>. QED
  BY <1>1, <1>6, <1>7, <1>8

LEMMA AssignStep ==
  ASSUME Inv, Assign
  PROVE  Inv'
<1>1. PICK t \in Readable :
        /\ Reads("Assign", "kEQUALS", t)
        /\ \/ pc' = "Aborted" /\ UNCHANGED loc
           \/ BeginExpression(Resolve(loc.name), "StatementEnd")
  BY DEF Assign
<1>2. pos' \in 0 .. MaxTokens /\ peek_' \in Readable \cup {NoToken}
  BY <1>1, ReadsTyped
<1>3. Site \in FunctionSites /\ "StatementEnd" \in FunctionSites /\ Site \in OpenSites
  BY <1>1 DEF Reads, Site, ExpressionSites, FunctionSites, OpenSites
<1>4. /\ UNCHANGED <<private_, class_, code_, scope_, classes, scopes>>
      /\ private_ \in BOOLEAN /\ loc \in LocalsOf(ClassRef)
  BY DEF Assign, Inv, TypeOK
<1>5. CASE pc' = "Aborted" /\ UNCHANGED loc
  <2>1. StaysInRegion /\ Site' \notin HeadSites \cup NamedSites \cup {"FuncName", "MethodName"}
    BY <1>5 DEF StaysInRegion, Stopped, Site, ExpressionSites, HeadSites, NamedSites
  <2>. QED
    BY <1>2, <1>4, <1>5, <2>1, MoveStep
<1>6. CASE BeginExpression(Resolve(loc.name), "StatementEnd")
  <2>1. Resolve(loc.name) \in PlaceType
    BY <1>3, ResolveTyped
  <2>. QED
    BY <1>2, <1>3, <1>4, <1>6, <2>1, BeginExpressionStep
<1>. QED
  BY <1>1, <1>5, <1>6

LEMMA StatementEndStep ==
  ASSUME Inv, StatementEnd
  PROVE  Inv'
<1>1. PICK t \in Readable : PeekToken(t) /\ pc' \in {"FuncClose", "Statement"}
  BY DEF StatementEnd
<1>2. pos' \in 0 .. MaxTokens /\ peek_' \in Readable \cup {NoToken}
  BY <1>1, ReadTyped DEF Inv
<1>3. StaysInRegion /\ Site' \notin HeadSites \cup NamedSites \cup {"FuncName", "MethodName"}
  BY <1>1 DEF StatementEnd, StaysInRegion, Regions, Site, ExpressionSites, FunctionSites,
     HeadSites, NamedSites
<1>. QED
  BY <1>2, <1>3, MoveStep DEF StatementEnd, Inv, TypeOK

(* Inside an expression the site is that of the construct it belongs to. *)
LEMMA ExpressionSite ==
  ASSUME Inv, pc \in ExpressionSites
  PROVE  /\ Site \in {"Params", "FieldNext", "LocalNext", "StatementEnd"}
         /\ Site \in OpenSites
         /\ \E g \in Regions : Site \in g
         /\ Site \notin HeadSites \cup NamedSites \cup {"FuncName", "MethodName"}
         /\ loc.back = "Aborted" \/ Site = loc.back
<1>1. /\ loc.back \in {"", "FieldNext", "LocalNext", "StatementEnd", "Aborted"}
      /\ Site \in Sites
  BY DEF Inv, TypeOK, LocalsOf
<1>2. "" \notin Sites
  BY DEF Sites, HeadSites, BodySites, FieldSites, FunctionSites, Stopped
<1>3. /\ Site \in {"Params", "FieldNext", "LocalNext", "StatementEnd"}
      /\ loc.back = "Aborted" \/ Site = loc.back
  BY <1>1, <1>2 DEF Site
<1>. QED
  BY <1>3 DEF OpenSites, BodySites, FieldSites, FunctionSites, HeadSites, NamedSites, Regions,
     EnumSites

LEMMA ParseUnaryExprStep ==
  ASSUME Inv, ParseUnaryExpr
  PROVE  Inv'
<1>1. PICK t \in Readable :
        /\ Reads("Unary", t.kind, t)
        /\ LET leaf == IF t.kind = "kIDENTIFIER" THEN Resolve(t.text)
                       ELSE Place("Literal", LiteralClass[t.kind], 0)
           IN  \/ pc' = "Aborted" /\ UNCHANGED loc
               \/ pc' = "Binary" /\ loc' = [loc EXCEPT !.expr.leaves = Append(@, leaf)]
        /\ UNCHANGED <<private_, class_, code_, scope_, classes, scopes>>
  BY DEF ParseUnaryExpr
<1>2. pos' \in 0 .. MaxTokens /\ peek_' \in Readable \cup {NoToken}
  BY <1>1, ReadsTyped
<1>3. pc = "Unary" /\ pc \in ExpressionSites /\ Site \in OpenSites
  BY <1>1, ExpressionSite DEF Reads, ExpressionSites
<1>4. private_ \in BOOLEAN /\ loc \in LocalsOf(ClassRef)
  BY DEF Inv, TypeOK
<1>5. CASE pc' = "Aborted" /\ UNCHANGED loc
  <2>1. StaysInRegion /\ Site' \notin HeadSites \cup NamedSites \cup {"FuncName", "MethodName"}
    BY <1>5 DEF StaysInRegion, Stopped, Site, ExpressionSites, HeadSites, NamedSites
  <2>. QED
    BY <1>1, <1>2, <1>4, <1>5, <2>1, MoveStep
<1>. DEFINE leaf == IF t.kind = "kIDENTIFIER" THEN Resolve(t.text)
                    ELSE Place("Literal", LiteralClass[t.kind], 0)
            leaves == Append(loc.expr.leaves, leaf)
<1>6. CASE pc' = "Binary" /\ loc' = [loc EXCEPT !.expr.leaves = leaves]
  <2>1. leaf \in PlaceType
    <3>1. t.kind \in Literals \cup {"kIDENTIFIER"}
      BY <1>1, <1>3 DEF Reads, Expects
    <3>2. CASE t.kind = "kIDENTIFIER"
      BY <1>3, <3>2, ResolveTyped
    <3>3. CASE t.kind # "kIDENTIFIER"
      <4>1. LiteralClass[t.kind] \in Nat
        BY <3>1, <3>3 DEF Literals, LiteralClass, DoubleClass, StringClass, BoolClass
      <4>. QED
        BY <3>3, <4>1 DEF Place, PlaceType
    <3>. QED
      BY <3>2, <3>3
  <2>. HIDE DEF leaf
  <2>2. leaves \in Seq(PlaceType)
    <3>1. loc.expr.leaves \in Seq(PlaceType)
      BY <1>4 DEF LocalsOf, ExprType
    <3>. QED
      BY <2>1, <3>1, AppendProperties
  <2>. HIDE DEF leaves
  <2>3. [loc.expr EXCEPT !.leaves = leaves] \in ExprType
    BY <1>4, <2>2 DEF LocalsOf, ExprType
  <2>4. PICK e \in ExprType : e = [loc.expr EXCEPT !.leaves = leaves]
    BY <2>3
  <2>5. loc' = [loc EXCEPT !.expr = e]
    BY <1>6, <2>4
  <2>6. loc' \in LocalsOf(ClassRef) /\ loc'.back = loc.back
    BY <1>4, <2>5 DEF LocalsOf
  <2>7. Site' = Site
    BY <1>3, <1>6, <2>6 DEF Site, ExpressionSites
  <2>8. StaysInRegion /\ Site' \notin HeadSites \cup NamedSites \cup {"FuncName", "MethodName"}
    BY <1>3, <2>7, ExpressionSite DEF StaysInRegion
  <2>. QED
    BY <1>1, <1>2, <1>4, <2>6, <2>8, MoveStep
<1>. QED
  BY <1>1, <1>5, <1>6

LEMMA BinaryOperatorStep ==
  ASSUME Inv, BinaryOperator
  PROVE  Inv'
<1>1. PICK t \in Readable :
        /\ pc = "Binary"
        /\ t.kind \in Operators
        /\ Consume(t)
        /\ loc' = [loc EXCEPT !.expr.ops = Append(@, t.kind)]
        /\ pc' = "Unary"
        /\ UNCHANGED <<private_, class_, code_, scope_, classes, scopes>>
  BY DEF BinaryOperator
<1>2. pos' \in 0 .. MaxTokens /\ peek_' \in Readable \cup {NoToken}
  BY <1>1, ReadTyped DEF Inv
<1>3. pc \in ExpressionSites
  BY <1>1 DEF ExpressionSites
<1>4. private_ \in BOOLEAN /\ loc \in LocalsOf(ClassRef)
  BY DEF Inv, TypeOK
<1>. DEFINE ops == Append(loc.expr.ops, t.kind)
<1>5. ops \in Seq(Operators)
  <2>1. loc.expr.ops \in Seq(Operators)
    BY <1>4 DEF LocalsOf, ExprType
  <2>. QED
    BY <1>1, <2>1, AppendProperties
<1>6. loc' = [loc EXCEPT !.expr = [loc.expr EXCEPT !.ops = ops]]
  BY <1>1
<1>. HIDE DEF ops
<1>7. PICK e \in ExprType : e = [loc.expr EXCEPT !.ops = ops]
  BY <1>4, <1>5 DEF LocalsOf, ExprType
<1>8. loc' = [loc EXCEPT !.expr = e]
  BY <1>6, <1>7
<1>9. loc' \in LocalsOf(ClassRef) /\ loc'.back = loc.back
  BY <1>4, <1>8 DEF LocalsOf
<1>10. Site' = Site
  BY <1>1, <1>9 DEF Site, ExpressionSites
<1>11. StaysInRegion /\ Site' \notin HeadSites \cup NamedSites \cup {"FuncName", "MethodName"}
  BY <1>3, <1>10, ExpressionSite DEF StaysInRegion
<1>. QED
  BY <1>1, <1>2, <1>4, <1>9, <1>11, MoveStep

LEMMA EndExpressionStep ==
  ASSUME Inv, EndExpression
  PROVE  Inv'
<1>. DEFINE owner == IF loc.back = "FieldNext" THEN Constructor ELSE CurrentFunction
<1>1. PICK t \in Readable :
        /\ pc = "Binary"
        /\ PeekToken(t)
        /\ \/ UNCHANGED classes
           \/ classes' = [classes EXCEPT ![class_] = AddAst(@, owner, loc.dest, loc.expr)]
        /\ pc' \in {loc.back, "Crashed"}
        /\ loc' = [NoLocals EXCEPT !.kw = loc.kw]
        /\ UNCHANGED <<private_, class_, code_, scope_, scopes>>
  BY DEF EndExpression
<1>2. pos' \in 0 .. MaxTokens /\ peek_' \in Readable \cup {NoToken}
  BY <1>1, ReadTyped DEF Inv
<1>3. pc \in ExpressionSites /\ Site \in OpenSites
  BY <1>1, ExpressionSite DEF ExpressionSites
<1>4. private_ \in BOOLEAN /\ loc' \in LocalsOf(ClassRef)
  BY <1>1, NoLocalsKeptTyped DEF Inv, TypeOK
<1>5. Site' \in {"Aborted", "Crashed"} \/ Site' = Site
  BY <1>1, <1>3, ExpressionSite DEF Site, ExpressionSites
<1>6. StaysInRegion /\ Site' \notin HeadSites \cup NamedSites \cup {"FuncName", "MethodName"}
  BY <1>3, <1>5, ExpressionSite DEF StaysInRegion, Stopped, HeadSites, NamedSites
<1>7. CASE UNCHANGED classes
  BY <1>1, <1>2, <1>4, <1>6, <1>7, MoveStep
<1>8. CASE classes' = [classes EXCEPT ![class_] = AddAst(@, owner, loc.dest, loc.expr)]
  <2>1. classes[class_] \in ClassOf(Nameable, ScopeRef)
    BY <1>3, OpenTyped
  <2>2. owner \in Nat
    BY <1>3, OpenTyped DEF Constructor, CurrentFunction
  <2>3. loc.dest \in PlaceType /\ loc.expr \in ExprType
    BY DEF Inv, TypeOK, LocalsOf
  <2>. HIDE DEF owner
  <2>4. PICK cls : cls = AddAst(classes[class_], owner, loc.dest, loc.expr)
    OBVIOUS
  <2>5. /\ cls \in ClassOf(Nameable, ScopeRef)
        /\ cls.super = classes[class_].super
        /\ cls.type = classes[class_].type
    BY <2>1, <2>2, <2>3, <2>4, AddAstTyped
  <2>6. /\ Len(cls.functions) = Len(classes[class_].functions)
        /\ \A i \in 1 .. Len(classes[class_].functions) :
             cls.functions[i].scope = classes[class_].functions[i].scope
    BY <2>1, <2>4, AddAstKeepsScopes
  <2>7. classes' = [classes EXCEPT ![class_] = cls]
    BY <1>8, <2>4
  <2>. QED
    BY <1>1, <1>2, <1>3, <1>4, <1>6, <2>5, <2>6, <2>7, ClassStep
<1>. QED
  BY <1>1, <1>7, <1>8

-----------------------------------------------------------------------------
(* The theorems *)

LEMMA BuiltinTyped ==
  ASSUME NEW R, NEW S, Nil \in R, Nil \in S, VoidClass \in R,
         NEW name \in Names, NEW mods \in SUBSET Modifier, NEW super \in R
  PROVE  Builtin(name, mods, super) \in ClassOf(R, S)
<1>. DEFINE func(cls) == [cls.functions[Constructor] EXCEPT !.ret = Nil]
<1>1. PICK cls : cls = NewClass(name, mods, super, "class")
  OBVIOUS
<1>2. cls \in ClassOf(R, S)
  BY <1>1, NewClassTyped
<1>3. ASSUME Constructor \in 1 .. Len(cls.functions) PROVE func(cls) \in FunctionOf(R, S)
  <2>1. cls.functions[Constructor] \in FunctionOf(R, S)
    BY <1>2, <1>3 DEF ClassOf
  <2>. QED
    BY <2>1 DEF FunctionOf
<1>4. Builtin(name, mods, super) = ReplaceFunction(cls, Constructor, func(cls))
  BY <1>1 DEF Builtin, ReplaceFunction
<1>. HIDE DEF func
<1>5. Constructor \in 1 .. Len(cls.functions) => func(cls) \in FunctionOf(R, S)
  BY <1>3
<1>. QED
  BY <1>2, <1>4, <1>5, WithFunction DEF Constructor

LEMMA InitInv == Init => Inv
<1>. SUFFICES ASSUME Init PROVE Inv
  OBVIOUS
<1>1. /\ classes \in Seq(ClassOf(0 .. 6, {Nil}))
      /\ Len(classes) = 6
  <2>. DEFINE R == 0 .. 6
  <2>1. Nil \in R /\ VoidClass \in R /\ ObjectClass \in R /\ Nil \in {Nil}
    BY DEF Nil, VoidClass, ObjectClass
  <2>2. /\ {} \in SUBSET Modifier /\ {"final"} \in SUBSET Modifier
        /\ {"Object", "String", "Bool", "Int", "Double", "Void"} \subseteq Names
    BY DEF Modifier, Names
  <2>. HIDE DEF R
  <2>3. ASSUME NEW name \in {"Object", "String", "Bool", "Int", "Double", "Void"},
               NEW mods \in {{}, {"final"}}, NEW super \in {Nil, ObjectClass}
        PROVE  Builtin(name, mods, super) \in ClassOf(R, {Nil})
    BY <2>1, <2>2, BuiltinTyped
  <2>4. /\ Builtin("Object", {}, Nil) \in ClassOf(R, {Nil})
        /\ Builtin("String", {"final"}, ObjectClass) \in ClassOf(R, {Nil})
        /\ Builtin("Bool",   {"final"}, ObjectClass) \in ClassOf(R, {Nil})
        /\ Builtin("Int",    {"final"}, ObjectClass) \in ClassOf(R, {Nil})
        /\ Builtin("Double", {"final"}, ObjectClass) \in ClassOf(R, {Nil})
        /\ Builtin("Void",   {"final"}, Nil) \in ClassOf(R, {Nil})
    BY <2>3
  <2>. QED
    BY <2>4 DEF Init, BuiltinClasses, R
<1>2. ClassRef = 0 .. 6 /\ ScopeRef = {Nil}
  BY <1>1 DEF Init, ClassRef, ScopeRef, Nil
<1>3. code_ \in Seq(ClassRef \ {Nil})
  BY <1>2 DEF Init, StringClass, IntClass, DoubleClass, BoolClass, Nil
<1>4. loc \in LocalsOf(ClassRef)
  BY <1>2, NoLocalsTyped DEF Init, Nil
<1>5. Site = "Parse" /\ "Parse" \in Sites
  BY DEF Init, Site, ExpressionSites, Sites
<1>6. scopes \in Seq(ScopeOf(ClassRef, ScopeRef))
  BY DEF Init
<1>7. pos \in 0 .. MaxTokens /\ class_ \in ClassRef /\ scope_ \in ScopeRef
  BY <1>2, ConstantsAssumption DEF Init, Nil
<1>8. TypeOK
  BY <1>1, <1>2, <1>3, <1>4, <1>5, <1>6, <1>7 DEF Init, TypeOK
<1>9. UnderConstruction
  BY <1>1, <1>5 DEF Init, UnderConstruction, HeadSites, BodySites, FieldSites, FunctionSites,
     NamedSites, VoidClass
<1>. QED
  BY <1>8, <1>9 DEF Inv

LEMMA NextInv == Inv /\ [Next]_vars => Inv'
<1>. SUFFICES ASSUME Inv, [Next]_vars PROVE Inv'
  OBVIOUS
<1>1. CASE UNCHANGED vars
  <2>1. UNCHANGED <<pc, pos, peek_, private_, class_, code_, scope_, classes, scopes, loc>>
    BY <1>1 DEF vars
  <2>2. UNCHANGED <<Site, ClassRef, ScopeRef>>
    BY <2>1 DEF Site, ClassRef, ScopeRef
  <2>3. TypeOK => TypeOK'
    BY <2>1, <2>2 DEF TypeOK
  <2>4. (OpenClassOK => OpenClassOK') /\ (OwnScopeNested => OwnScopeNested')
    BY <2>1, <2>2 DEF OpenClassOK, Nameable, OwnScopeNested, CurrentFunction
  <2>5. UnderConstruction => UnderConstruction'
    BY <2>1, <2>2, <2>4 DEF UnderConstruction
  <2>. QED
    BY <2>3, <2>5 DEF Inv
<1>2. CASE Terminated
  BY <1>1, <1>2 DEF Terminated
<1>3. CASE Next /\ ~Terminated
  BY <1>3, UnexpectedStep, ExpectSymbolStep, ParseNextStep, DefinitionPrivateStep,
     DefinitionKeywordStep, DefinitionEofStep, DefinitionNameStep, HeadExtendsStep,
     HeadParentStep, HeadOpenStep, BodyPrivateStep, BodyVarStep, BodyFunctionStep,
     BodyCloseStep, FunctionNameStep, FunctionCloseStep, EnumConstantStep,
     EnumSeparatorStep, DeclaratorNameStep, FieldTypeStep, LocalTypeStep, ParamTypeStep,
     ParamDefaultStep, ParamsCloseStep, DeclarationNextStep, InitialiserStep,
     StatementStep, AssignStep, StatementEndStep, ParseUnaryExprStep,
     BinaryOperatorStep, EndExpressionStep DEF Next
<1>. QED
  BY <1>1, <1>2, <1>3

LEMMA InvHolds == Spec => []Inv
BY InitInv, NextInv, PTL DEF Spec

(* Whatever tokens a file has, every pointer the parser keeps is null or   *)
(* leads to an object that exists.                                         *)
THEOREM TypesHold == Spec => []TypeOK
<1>1. Inv => TypeOK
  BY DEF Inv
<1>. QED
  BY <1>1, InvHolds, PTL

(* Whatever tokens a file has, the class under construction is the newest  *)
(* one, is not in the CodeUnit yet, and names only classes that are; the   *)
(* scope that a function leaves has a parent to go back to.                *)
THEOREM ConstructionHolds == Spec => []UnderConstruction
<1>1. Inv => UnderConstruction
  BY DEF Inv
<1>. QED
  BY <1>1, InvHolds, PTL

-----------------------------------------------------------------------------
(* A pending `private' *)

Confined == FunctionSites \cup EnumSites

(* Each action spends the `private' or stays on the side of Confined where *)
(* it is.                                                                  *)
LEMMA PrivateStep ==
  ASSUME Inv, Next, private_'
  PROVE  Site' \in Confined => private_ /\ Site \in Confined
<1>. SUFFICES ASSUME Site' \in Confined PROVE private_ /\ Site \in Confined
  OBVIOUS
<1>. USE DEF Reads, Site, ExpressionSites, Confined, FunctionSites, EnumSites, Stopped
<1>1. loc.back \in {"", "FieldNext", "LocalNext", "StatementEnd", "Aborted"}
  BY DEF Inv, TypeOK, LocalsOf
<1>2. CASE Unexpected
  BY <1>1, <1>2 DEF Unexpected
<1>3. CASE ExpectSymbol
  BY <1>1, <1>3 DEF ExpectSymbol
<1>4. CASE ParseNext
  BY <1>1, <1>4 DEF ParseNext
<1>5. CASE DefinitionPrivate
  BY <1>1, <1>5 DEF DefinitionPrivate
<1>6. CASE DefinitionKeyword
  BY <1>1, <1>6 DEF DefinitionKeyword
<1>7. CASE DefinitionEof
  BY <1>1, <1>7 DEF DefinitionEof, ReturnDefinition
<1>8. CASE DefinitionName
  BY <1>1, <1>8 DEF DefinitionName, OpenClass
<1>9. CASE HeadExtends
  BY <1>1, <1>9 DEF HeadExtends
<1>10. CASE HeadParent
  BY <1>1, <1>10 DEF HeadParent
<1>11. CASE HeadOpen
  BY <1>1, <1>11 DEF HeadOpen, OpenClass
<1>12. CASE BodyPrivate
  BY <1>1, <1>12 DEF BodyPrivate
<1>13. CASE BodyVar
  BY <1>1, <1>13 DEF BodyVar
<1>14. CASE BodyFunction
  BY <1>1, <1>14 DEF BodyFunction
<1>15. CASE BodyClose
  BY <1>1, <1>15 DEF BodyClose, ReturnDefinition
<1>16. CASE FunctionName
  BY <1>1, <1>16 DEF FunctionName
<1>17. CASE FunctionClose
  BY <1>1, <1>17 DEF FunctionClose
<1>18. CASE EnumConstant
  BY <1>1, <1>18 DEF EnumConstant
<1>19. CASE EnumSeparator
  BY <1>1, <1>19 DEF EnumSeparator
<1>20. CASE DeclaratorName
  BY <1>1, <1>20 DEF DeclaratorName
<1>21. CASE FieldType
  BY <1>1, <1>21 DEF FieldType
<1>22. CASE LocalType
  BY <1>1, <1>22 DEF LocalType, DeclareLocal
<1>23. CASE ParamType
  BY <1>1, <1>23 DEF ParamType
<1>24. CASE ParamDefault
  BY <1>1, <1>24 DEF ParamDefault, DeclareLocal, NoLocals
<1>25. CASE ParamsClose
  BY <1>1, <1>25 DEF ParamsClose
<1>26. CASE DeclarationNext
  BY <1>1, <1>26 DEF DeclarationNext
<1>27. CASE Initialiser
  <2>1. loc \in LocalsOf(ClassRef)
    BY DEF Inv, TypeOK
  <2>2. PICK back \in {"FieldNext", "LocalNext"} : \E place :
          /\ pc = back /\ pc' = "Unary" /\ UNCHANGED private_
          /\ loc' = [loc EXCEPT !.dest = place, !.back = back, !.name = ""]
    BY <1>27 DEF Initialiser, BeginExpression
  <2>3. loc'.back = back
    BY <2>1, <2>2 DEF LocalsOf
  <2>. QED
    BY <2>2, <2>3
<1>28. CASE Statement
  BY <1>1, <1>28 DEF Statement, BeginExpression
<1>29. CASE Assign
  BY <1>1, <1>29 DEF Assign, BeginExpression
<1>30. CASE StatementEnd
  BY <1>1, <1>30 DEF StatementEnd
<1>31. CASE ParseUnaryExpr
  <2>1. loc \in LocalsOf(ClassRef)
    BY DEF Inv, TypeOK
  <2>2. loc'.back = loc.back \/ pc' = "Aborted"
    BY <1>31, <2>1 DEF ParseUnaryExpr, LocalsOf
  <2>. QED
    BY <1>31, <1>1, <2>2 DEF ParseUnaryExpr
<1>32. CASE BinaryOperator
  <2>1. loc \in LocalsOf(ClassRef)
    BY DEF Inv, TypeOK
  <2>2. loc'.back = loc.back \/ pc' = "Aborted"
    BY <1>32, <2>1 DEF BinaryOperator, LocalsOf
  <2>. QED
    BY <1>32, <1>1, <2>2 DEF BinaryOperator
<1>33. CASE EndExpression
  BY <1>1, <1>33 DEF EndExpression, NoLocals
<1>34. CASE Terminated
  BY <1>34 DEF Terminated, vars
<1>. QED
  BY <1>2, <1>3, <1>4, <1>5, <1>6, <1>7, <1>8, <1>9, <1>10, <1>11, <1>12, <1>13, <1>14, <1>15, <1>16, <1>17, <1>18, <1>19, <1>20, <1>21, <1>22, <1>23, <1>24, <1>25, <1>26, <1>27, <1>28, <1>29, <1>30, <1>31, <1>32, <1>33, <1>34 DEF Next

(* Whatever tokens a file has, a pending `private' is spent before the     *)
(* body of the declaration it qualifies.                                   *)
THEOREM PrivateStaysConfined == Spec => []PrivateConfined
<1>1. Init => PrivateConfined
  BY DEF Init, PrivateConfined
<1>2. Inv /\ Inv' /\ PrivateConfined /\ [Next]_vars => PrivateConfined'
  <2>. SUFFICES ASSUME Inv, Inv', PrivateConfined, [Next]_vars PROVE PrivateConfined'
    OBVIOUS
  <2>1. CASE UNCHANGED vars
    BY <2>1 DEF vars, PrivateConfined, Site
  <2>2. CASE Next
    BY <2>2, PrivateStep DEF PrivateConfined, Confined, EnumSites
  <2>. QED
    BY <2>1, <2>2
<1>. QED
  BY <1>1, <1>2, InvHolds, PTL DEF Spec

-----------------------------------------------------------------------------
(* Parser implements CodeUnit.  The argument: a step that does not return  *)
(* from ParseDefinition leaves code_ alone and changes at most the class   *)
(* under construction, which is not in the unit (UnderConstruction); a     *)
(* step that returns from it adds either that class, which names only      *)
(* classes of the unit, or the class registered last.                      *)

Returns == DefinitionEof \/ BodyClose

(* What the steps within a definition do to the heap of classes. *)
TouchesOpenClassOnly ==
  \/ UNCHANGED classes
  \/ \E cls : classes' = Append(classes, cls)
  \/ Site \in OpenSites /\ \E cls : classes' = [classes EXCEPT ![class_] = cls]

LEMMA WithinDefinition ==
  ASSUME Inv, Next, ~Returns, ~Terminated
  PROVE  pc \notin Stopped /\ UNCHANGED code_ /\ TouchesOpenClassOnly
<1>. USE DEF TouchesOpenClassOnly, Reads, Stopped
<1>1. CASE Unexpected
  BY <1>1 DEF Unexpected
<1>2. CASE ExpectSymbol
  BY <1>2 DEF ExpectSymbol
<1>3. CASE ParseNext
  BY <1>3 DEF ParseNext
<1>4. CASE DefinitionPrivate
  BY <1>4 DEF DefinitionPrivate
<1>5. CASE DefinitionKeyword
  BY <1>5 DEF DefinitionKeyword, Opens
<1>6. CASE DefinitionName
  BY <1>6 DEF DefinitionName, OpenClass
<1>7. CASE HeadExtends
  BY <1>7 DEF HeadExtends
<1>8. CASE HeadParent
  BY <1>8 DEF HeadParent
<1>9. CASE HeadOpen
  BY <1>9 DEF HeadOpen, OpenClass
<1>10. CASE BodyPrivate
  BY <1>10 DEF BodyPrivate
<1>11. CASE BodyVar
  BY <1>11 DEF BodyVar
<1>12. CASE BodyFunction
  BY <1>12 DEF BodyFunction
<1>13. CASE FunctionName
  BY <1>13 DEF FunctionName, Site, ExpressionSites, OpenSites, BodySites, FieldSites
<1>14. CASE FunctionClose
  BY <1>14 DEF FunctionClose
<1>15. CASE EnumConstant
  BY <1>15 DEF EnumConstant, Site, ExpressionSites, OpenSites, BodySites, FieldSites
<1>16. CASE EnumSeparator
  BY <1>16 DEF EnumSeparator
<1>17. CASE DeclaratorName
  BY <1>17 DEF DeclaratorName
<1>18. CASE FieldType
  BY <1>18 DEF FieldType, Site, ExpressionSites, OpenSites, BodySites, FieldSites
<1>19. CASE LocalType
  BY <1>19 DEF LocalType
<1>20. CASE ParamType
  BY <1>20 DEF ParamType
<1>21. CASE ParamDefault
  BY <1>21 DEF ParamDefault
<1>22. CASE ParamsClose
  BY <1>22 DEF ParamsClose
<1>23. CASE DeclarationNext
  BY <1>23 DEF DeclarationNext
<1>24. CASE Initialiser
  BY <1>24 DEF Initialiser
<1>25. CASE Statement
  BY <1>25 DEF Statement
<1>26. CASE Assign
  BY <1>26 DEF Assign
<1>27. CASE StatementEnd
  BY <1>27 DEF StatementEnd
<1>28. CASE ParseUnaryExpr
  BY <1>28 DEF ParseUnaryExpr
<1>29. CASE BinaryOperator
  BY <1>29 DEF BinaryOperator
<1>30. CASE EndExpression
  BY <1>30, ExpressionSite DEF EndExpression, ExpressionSites
<1>. QED
  BY <1>1, <1>2, <1>3, <1>4, <1>5, <1>6, <1>7, <1>8, <1>9, <1>10, <1>11, <1>12, <1>13, <1>14, <1>15, <1>16, <1>17, <1>18, <1>19, <1>20, <1>21, <1>22, <1>23, <1>24, <1>25, <1>26, <1>27, <1>28, <1>29, <1>30 DEF Next, Returns

-----------------------------------------------------------------------------
(* The refinement mapping *)

EntryOf(c) == [id |-> c, class |-> classes[c]]
Unit   == [i \in DOMAIN code_ |-> [id |-> code_[i], class |-> classes[code_[i]]]]
Status == IF pc \notin Stopped THEN "open" ELSE IF pc = "Done" THEN "closed" ELSE "failed"

(* The instance brings its own copy of Objects. *)
LEMMA SameObjects ==
  /\ CU!Nil = Nil /\ CU!ObjectClass = ObjectClass /\ CU!VoidClass = VoidClass
  /\ CU!StringClass = StringClass /\ CU!IntClass = IntClass
  /\ CU!DoubleClass = DoubleClass /\ CU!BoolClass = BoolClass
  /\ CU!BuiltinClasses = BuiltinClasses
<1>1. /\ CU!Nil = Nil /\ CU!ObjectClass = ObjectClass /\ CU!VoidClass = VoidClass
      /\ CU!StringClass = StringClass /\ CU!IntClass = IntClass
      /\ CU!DoubleClass = DoubleClass /\ CU!BoolClass = BoolClass
  BY DEF CU!Nil, CU!ObjectClass, CU!VoidClass, CU!StringClass, CU!IntClass, CU!DoubleClass,
     CU!BoolClass, Nil, ObjectClass, VoidClass, StringClass, IntClass, DoubleClass, BoolClass
<1>2. \A cls, name, ret, priv :
        CU!DefineFunction(cls, name, ret, priv) = DefineFunction(cls, name, ret, priv)
  BY <1>1 DEF CU!DefineFunction, DefineFunction, CU!NewFunction, NewFunction, CU!Privacy, Privacy
<1>3. \A name, mods, super, type :
        CU!NewClass(name, mods, super, type) = NewClass(name, mods, super, type)
  BY ZenonT(30), <1>1, <1>2 DEF CU!NewClass, NewClass, CU!HasConstructor, HasConstructor
<1>4. \A name, mods, super : CU!Builtin(name, mods, super) = Builtin(name, mods, super)
  BY <1>1, <1>3 DEF CU!Builtin, Builtin, CU!Constructor, Constructor
<1>. QED
  BY <1>1, <1>4 DEF CU!BuiltinClasses, BuiltinClasses

LEMMA UnitShape ==
  ASSUME Inv
  PROVE  /\ Len(Unit) = Len(code_) /\ DOMAIN Unit = DOMAIN code_
         /\ \A i \in DOMAIN code_ : Unit[i] = EntryOf(code_[i])
         /\ CU!Ids = Range(code_)
<1>1. code_ \in Seq(ClassRef \ {Nil})
  BY DEF Inv, TypeOK
<1>2. DOMAIN Unit = 1 .. Len(code_) /\ Len(code_) \in Nat /\ DOMAIN code_ = 1 .. Len(code_)
  BY <1>1, LenProperties DEF Unit
<1>3. Len(Unit) = Len(code_)
  BY <1>2
<1>4. \A i \in DOMAIN code_ : Unit[i] = EntryOf(code_[i])
  BY DEF Unit, EntryOf
<1>5. CU!Ids = { Unit[i].id : i \in DOMAIN Unit }
  BY DEF CU!Ids, Unit
<1>6. CU!Ids = Range(code_)
  BY <1>2, <1>4, <1>5 DEF Range, EntryOf
<1>. QED
  BY <1>2, <1>3, <1>4, <1>6

(* Registered classes do not change while a definition is parsed. *)
LEMMA UnitUnchanged ==
  ASSUME Inv, UNCHANGED code_, TouchesOpenClassOnly
  PROVE  Unit' = Unit
<1>1. ASSUME NEW i \in DOMAIN code_ PROVE classes'[code_[i]] = classes[code_[i]]
  <2>1. code_[i] \in Range(code_) /\ code_[i] \in 1 .. Len(classes)
    <3>1. code_[i] \in Range(code_)
      BY DEF Range
    <3>. QED
      BY <3>1, NameableRange DEF ClassRef, Nil
  <2>2. classes \in Seq(ClassOf(ClassRef, ScopeRef))
    BY DEF Inv, TypeOK
  <2>3. CASE UNCHANGED classes
    BY <2>3
  <2>4. ASSUME NEW cls, classes' = Append(classes, cls)
        PROVE  classes'[code_[i]] = classes[code_[i]]
    BY <2>1, <2>2, <2>4, AppendProperties
  <2>5. ASSUME Site \in OpenSites, NEW cls, classes' = [classes EXCEPT ![class_] = cls]
        PROVE  classes'[code_[i]] = classes[code_[i]]
    <3>1. class_ \notin Range(code_)
      BY <2>5 DEF Inv, UnderConstruction, OpenSites, OpenClassOK
    <3>. QED
      BY <2>1, <2>2, <2>5, <3>1
  <2>. QED
    BY <2>3, <2>4, <2>5 DEF TouchesOpenClassOnly
<1>. QED
  BY <1>1 DEF Unit

(* The class that a closing brace hands over is new and names only classes *)
(* of the unit; the one that the end of the file hands over is the last.   *)
LEMMA HandedOver ==
  ASSUME Inv, Returns, class_ # Nil
  PROVE  \/ /\ EntryOf(class_).id \notin CU!Ids
            /\ CU!ClosedUnderReference(EntryOf(class_))
         \/ EntryOf(class_) = Unit[Len(Unit)]
<1>1. CASE DefinitionEof
  <2>1. Site = "Definition" /\ Site \in HeadSites
    BY <1>1 DEF DefinitionEof, Reads, Site, ExpressionSites, HeadSites
  <2>2. Len(code_) > 0 /\ class_ = code_[Len(code_)]
    BY <2>1 DEF Inv, UnderConstruction
  <2>3. Len(code_) \in DOMAIN code_
    BY <2>2 DEF Inv, TypeOK
  <2>. QED
    BY <2>2, <2>3, UnitShape
<1>2. CASE BodyClose
  <2>1. Site \in OpenSites
    BY <1>2 DEF BodyClose, Reads, Site, ExpressionSites, OpenSites, BodySites
  <2>2. OpenClassOK
    BY <2>1 DEF Inv, UnderConstruction, OpenSites
  <2>. DEFINE e == EntryOf(class_)
  <2>3. e.id = class_ /\ e.class = classes[class_]
    BY DEF EntryOf
  <2>4. CU!Nameable(e) = Nameable
    BY <2>3, UnitShape, SameObjects DEF CU!Nameable, Nameable
  <2>5. classes[class_] \in ClassOf(Nameable, ScopeRef)
    BY <2>2 DEF OpenClassOK
  <2>6. \A i \in DOMAIN e.class.fields : e.class.fields[i].type \in Nameable
    <3>1. e.class.fields \in Seq(FieldOf(Nameable))
      BY <2>3, <2>5 DEF ClassOf
    <3>2. PICK fs \in Seq(FieldOf(Nameable)) : fs = e.class.fields
      BY <3>1
    <3>3. \A i \in DOMAIN fs : fs[i] \in FieldOf(Nameable)
      OBVIOUS
    <3>. QED
      BY <3>2, <3>3 DEF FieldOf
  <2>7. \A i \in DOMAIN e.class.functions : e.class.functions[i].ret \in Nameable
    <3>1. e.class.functions \in Seq(FunctionOf(Nameable, ScopeRef))
      BY <2>3, <2>5 DEF ClassOf
    <3>2. PICK fs \in Seq(FunctionOf(Nameable, ScopeRef)) : fs = e.class.functions
      BY <3>1
    <3>3. \A i \in DOMAIN fs : fs[i] \in FunctionOf(Nameable, ScopeRef)
      OBVIOUS
    <3>. QED
      BY <3>2, <3>3 DEF FunctionOf
  <2>8. e.class.super \in CU!Ids \cup {Nil, ObjectClass}
    BY <2>2, <2>3, UnitShape DEF OpenClassOK
  <2>9. e.id \notin CU!Ids
    BY <2>2, <2>3, UnitShape DEF OpenClassOK
  <2>. HIDE DEF e
  <2>10. CU!ClosedUnderReference(e)
    BY <2>4, <2>6, <2>7, <2>8, SameObjects DEF CU!ClosedUnderReference
  <2>. QED
    BY <2>9, <2>10 DEF e
<1>. QED
  BY <1>1, <1>2 DEF Returns

-----------------------------------------------------------------------------
(* Initial states and steps *)

LEMMA InitMapped == Init => CU!Init
<1>. SUFFICES ASSUME Init PROVE CU!Init
  OBVIOUS
<1>1. code_ = <<StringClass, IntClass, DoubleClass, BoolClass>> /\ classes = BuiltinClasses
  BY DEF Init
<1>2. Unit = << EntryOf(StringClass), EntryOf(IntClass), EntryOf(DoubleClass), EntryOf(BoolClass) >>
  <2>1. DOMAIN code_ = 1 .. 4 /\ DOMAIN Unit = 1 .. 4
    BY <1>1 DEF Unit
  <2>2. \A i \in 1 .. 4 : Unit[i] = EntryOf(code_[i])
    BY <2>1 DEF Unit, EntryOf
  <2>3. /\ Unit[1] = EntryOf(StringClass) /\ Unit[2] = EntryOf(IntClass)
        /\ Unit[3] = EntryOf(DoubleClass) /\ Unit[4] = EntryOf(BoolClass)
    BY <1>1, <2>2
  <2>4. Unit = [i \in 1 .. 4 |-> Unit[i]]
    BY <2>1 DEF Unit
  <2>. HIDE DEF Unit
  <2>. QED
    BY <2>3, <2>4
<1>3. Status = "open"
  BY DEF Init, Status, Stopped
<1>. QED
  BY <1>1, <1>2, <1>3, SameObjects DEF CU!Init, CU!Entry, EntryOf, Unit, Status

LEMMA StepMapped ==
  ASSUME Inv, [Next]_vars
  PROVE  [CU!Next]_<<Unit, Status>>
<1>1. CASE UNCHANGED vars
  BY <1>1 DEF vars, Unit, Status
<1>2. CASE Terminated
  BY <1>2 DEF Terminated, vars, Unit, Status
<1>3. CASE Next /\ Returns
  <2>1. /\ ReturnDefinition /\ UNCHANGED <<class_, classes>>
        /\ pc \in {"Definition", "Body", "EnumBody"}
    BY <1>3 DEF Returns, DefinitionEof, BodyClose, Reads
  <2>2. Status = "open" /\ Status' = "open"
    BY <2>1 DEF ReturnDefinition, Status, Stopped
  <2>3. CASE class_ = Nil
    BY <2>1, <2>2, <2>3 DEF ReturnDefinition, Unit
  <2>4. CASE class_ # Nil
    <3>1. code_' = Append(code_, class_) /\ code_ \in Seq(ClassRef \ {Nil})
          /\ class_ \in ClassRef \ {Nil}
      BY <2>1, <2>4 DEF ReturnDefinition, Inv, TypeOK
    <3>2. Unit' = Append(Unit, EntryOf(class_))
      <4>1. DOMAIN code_' = 1 .. Len(code_) + 1 /\ Len(Unit) = Len(code_)
            /\ Len(code_) \in Nat
        BY <3>1, UnitShape, AppendProperties, LenProperties
      <4>2. \A i \in DOMAIN code_' : code_'[i] = IF i <= Len(code_) THEN code_[i] ELSE class_
        BY <3>1, <4>1
      <4>. QED
        BY <2>1, <4>1, <4>2 DEF Unit, EntryOf
    <3>3. CU!AddClass(EntryOf(class_))
      BY <2>2, <2>4, <1>3, <3>2, HandedOver DEF CU!AddClass, Unit, Status
    <3>4. EntryOf(class_) = Unit'[Len(Unit')]
      BY <3>2, <3>1, UnitShape
    <3>5. \E e \in {Unit'[Len(Unit')]} : CU!AddClass(e)
      <4>1. EntryOf(class_) \in {Unit'[Len(Unit')]}
        BY <3>4
      <4>. QED
        BY <3>3, <4>1, Zenon DEF CU!AddClass
    <3>6. CU!Next
      BY <3>5, Zenon DEF CU!Next, Unit
    <3>. QED
      BY <3>6
  <2>. QED
    BY <2>3, <2>4
<1>4. CASE Next /\ ~Returns /\ ~Terminated
  <2>1. pc \notin Stopped /\ Unit' = Unit
    BY <1>4, WithinDefinition, UnitUnchanged
  <2>2. CASE pc' \notin Stopped
    BY <2>1, <2>2 DEF Status
  <2>3. CASE pc' \in Stopped
    BY <2>1, <2>3 DEF Status, Unit, CU!Next, CU!Close
  <2>. QED
    BY <2>2, <2>3
<1>. QED
  BY <1>1, <1>2, <1>3, <1>4

(* Whatever tokens a file has, the classes that Parser hands to its caller *)
(* behave as CodeUnit says: finished, unchanged ever after, in order of    *)
(* reference, and handed over once.                                        *)
THEOREM ParserImplementsCodeUnit == Spec => ImplementsCodeUnit
<1>1. Inv /\ [Next]_vars => [CU!Next]_<<Unit, Status>>
  BY StepMapped
<1>. QED
  BY <1>1, InitMapped, InvHolds, PTL DEF Spec, ImplementsCodeUnit, CU!Spec, Unit, Status
=============================================================================
