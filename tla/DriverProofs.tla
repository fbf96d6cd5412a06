----------------------------- MODULE DriverProofs -----------------------------
(***************************************************************************)
(* For every file, every stack and all core files: main's parts fit        *)
(* together, and what main lists is the translation of the source.         *)
(*                                                                         *)
(* The argument: main's parser is Parser (ParserEmbedded), so that what is *)
(* proved of it holds here; every tree it leaves is complete               *)
(* (TreesComplete), hence one of the Trees that the builder's theorems     *)
(* assume; the builder of Driver is FlowGraphBuilder over those Trees (the *)
(* instance B), and keeps its invariant in every step of main (Built);     *)
(* what main has listed is the beginning of its list (Told).               *)
(***************************************************************************)
EXTENDS DriverProperties, DefinitionProofs

(* The trees that the builder can walk. *)
Balanced(expr) == Len(expr.leaves) = Len(expr.ops) + 1

Trees == { tree \in Seq(StmtType) : \A i \in DOMAIN tree : Balanced(tree[i].value) }

B == INSTANCE FlowGraphProofs WITH pc <- building, code <- instrs, Bodies <- Trees

LEMMA BuilderAssumption == B!BodiesAssumption
<1>1. ASSUME NEW S, NEW s \in Seq(S) PROVE B!IsSequence(s)
  BY DEF B!IsSequence, B!Range
<1>2. ASSUME NEW tree \in Trees PROVE B!IsSequence(tree)
  BY <1>1 DEF Trees
<1>3. ASSUME NEW tree \in Trees, NEW i \in DOMAIN tree
      PROVE  /\ B!IsSequence(tree[i].value.leaves) /\ tree[i].value.leaves # <<>>
             /\ B!IsSequence(tree[i].value.ops)
             /\ Len(tree[i].value.ops) = Len(tree[i].value.leaves) - 1
  <2>1. tree[i] \in StmtType /\ Balanced(tree[i].value)
    BY DEF Trees
  <2>2. tree[i].value.leaves \in Seq(PlaceType) /\ tree[i].value.ops \in Seq(Operators)
    BY <2>1 DEF StmtType, ExprType
  <2>3. Len(tree[i].value.leaves) = Len(tree[i].value.ops) + 1
    BY <2>1 DEF Balanced
  <2>. QED
    BY <1>1, <2>2, <2>3
<1>. QED
  BY <1>2, <1>3, StackAssumption DEF B!BodiesAssumption

-----------------------------------------------------------------------------
(* G of Driver and B are the same builder. *)
LEMMA SameBuilder == G!Next <=> B!Next
<1>. USE DEF G!Nil, G!Place, G!NoPlace, G!OperatorPlace, G!NewInstr, G!Link, G!Normal,
       G!StatementNode, G!LeafNode, G!ExprNode, G!SequenceNode, G!NewFrame, G!Top, G!Caller,
       G!IsEmpty, G!IsOpen, G!AppendVisitor, G!LinkVisitor, G!DeallocTemps, G!ReturnDefinition,
       G!Visit, G!Visiting, G!Returning, G!Below, G!MoreChildren, G!Operands, B!Nil, B!Place,
       B!NoPlace, B!OperatorPlace, B!NewInstr, B!Link, B!Normal, B!StatementNode, B!LeafNode,
       B!ExprNode, B!SequenceNode, B!NewFrame, B!Top, B!Caller, B!IsEmpty, B!IsOpen,
       B!AppendVisitor, B!LinkVisitor, B!DeallocTemps, B!ReturnDefinition, B!Visit, B!Visiting,
       B!Returning, B!Below, B!MoreChildren, B!Operands
<1>1. G!VisitChild <=> B!VisitChild
  BY DEF G!VisitChild, B!VisitChild
<1>2. G!AppendChild <=> B!AppendChild
  BY DEF G!AppendChild, B!AppendChild
<1>3. G!FinishGraph <=> B!FinishGraph
  BY DEF G!FinishGraph, B!FinishGraph
<1>4. G!VisitReturn <=> B!VisitReturn
  BY DEF G!VisitReturn, B!VisitReturn
<1>5. G!VisitStoreLocal <=> B!VisitStoreLocal
  BY DEF G!VisitStoreLocal, B!VisitStoreLocal
<1>6. G!StoreLocal <=> B!StoreLocal
  BY DEF G!StoreLocal, B!StoreLocal
<1>7. G!VisitField <=> B!VisitField
  BY DEF G!VisitField, B!VisitField
<1>8. G!VisitLeaf <=> B!VisitLeaf
  BY DEF G!VisitLeaf, B!VisitLeaf
<1>9. G!VisitLeft <=> B!VisitLeft
  BY DEF G!VisitLeft, B!VisitLeft
<1>10. G!VisitRight <=> B!VisitRight
  BY DEF G!VisitRight, B!VisitRight
<1>11. G!BinaryOp <=> B!BinaryOp
  BY DEF G!BinaryOp, B!BinaryOp
<1>12. G!Terminated <=> B!Terminated
  BY DEF G!Terminated, B!Terminated, G!vars, B!vars
<1>. QED
  BY <1>1, <1>2, <1>3, <1>4, <1>5, <1>6, <1>7, <1>8, <1>9, <1>10, <1>11, <1>12
     DEF G!Next, B!Next

LEMMA SameMeaning ==
  /\ \A body : G!LoadsField(body) <=> B!LoadsField(body)
  /\ \A body : G!SourceStores(body) = B!SourceStores(body)
  /\ \A list : G!StoresOf(list) = B!StoresOf(list)
<1>. USE DEF G!OperatorPlace, B!OperatorPlace, G!Place, B!Place, G!Nil, B!Nil
<1>1. ASSUME NEW body PROVE G!LoadsField(body) <=> B!LoadsField(body)
  BY DEF G!LoadsField, B!LoadsField
<1>2. ASSUME NEW body PROVE G!SourceStores(body) = B!SourceStores(body)
  BY DEF G!SourceStores, B!SourceStores, G!StoresUpTo, B!StoresUpTo, G!SourceValue, B!SourceValue,
     G!Reverse, B!Reverse
<1>3. ASSUME NEW list PROVE G!StoresOf(list) = B!StoresOf(list)
  BY DEF G!StoresOf, B!StoresOf, G!Run, B!Run, G!Blank, B!Blank, G!Execute, B!Execute,
     G!Put, B!Put
<1>. QED
  BY <1>1, <1>2, <1>3

-----------------------------------------------------------------------------
(* main's parser is Parser: every step of main is a step of it, or leaves  *)
(* it alone.                                                               *)
LEMMA ParserEmbedded == MainSpec => Spec
<1>1. MainInit => Init
  BY DEF MainInit
<1>2. [MainNext]_mainVars => [Next]_vars
  <2>. SUFFICES ASSUME [MainNext]_mainVars PROVE [Next]_vars
    OBVIOUS
  <2>1. CASE ParseStep
    BY <2>1 DEF ParseStep
  <2>2. ASSUME NEW k, LoadFile(k) PROVE UNCHANGED vars
    BY <2>2 DEF LoadFile
  <2>3. CASE \/ ReadBase \/ OpenUser \/ PrintClasses \/ NewBuilder \/ BuildStep \/ List
             \/ MainEnded \/ UNCHANGED mainVars
    BY <2>3 DEF ReadBase, OpenUser, PrintClasses, NewBuilder, BuildStep, List, MainEnded, mainVars
  <2>. QED
    BY <2>1, <2>2, <2>3 DEF MainNext
<1>. QED
  BY <1>1, <1>2, PTL DEF MainSpec, Spec

-----------------------------------------------------------------------------
(* The array of core classes *)

LEMMA PowersOfTwo ==
  ASSUME NEW k \in 0 .. MaxShift
  PROVE  2 ^ k \in {1, 2, 4, 8, 16, 32} \/ 2 ^ k >= 32
<1>1. /\ 2 ^ 0 = 1 /\ 2 ^ 1 = 2 /\ 2 ^ 2 = 4 /\ 2 ^ 3 = 8 /\ 2 ^ 4 = 16 /\ 2 ^ 5 = 32
      /\ 2 ^ 6 >= 32 /\ 2 ^ 7 >= 32 /\ 2 ^ 8 >= 32 /\ 2 ^ 9 >= 32 /\ 2 ^ 10 >= 32
      /\ 2 ^ 11 >= 32 /\ 2 ^ 12 >= 32 /\ 2 ^ 13 >= 32 /\ 2 ^ 14 >= 32 /\ 2 ^ 15 >= 32
      /\ 2 ^ 16 >= 32 /\ 2 ^ 17 >= 32 /\ 2 ^ 18 >= 32 /\ 2 ^ 19 >= 32 /\ 2 ^ 20 >= 32
      /\ 2 ^ 21 >= 32 /\ 2 ^ 22 >= 32 /\ 2 ^ 23 >= 32 /\ 2 ^ 24 >= 32 /\ 2 ^ 25 >= 32
      /\ 2 ^ 26 >= 32 /\ 2 ^ 27 >= 32 /\ 2 ^ 28 >= 32 /\ 2 ^ 29 >= 32 /\ 2 ^ 30 >= 32
  BY SMT
<1>2. \/ k = 0 \/ k = 1 \/ k = 2 \/ k = 3 \/ k = 4 \/ k = 5 \/ k = 6 \/ k = 7
      \/ k = 8 \/ k = 9 \/ k = 10 \/ k = 11 \/ k = 12 \/ k = 13 \/ k = 14 \/ k = 15
      \/ k = 16 \/ k = 17 \/ k = 18 \/ k = 19 \/ k = 20 \/ k = 21 \/ k = 22 \/ k = 23
      \/ k = 24 \/ k = 25 \/ k = 26 \/ k = 27 \/ k = 28 \/ k = 29 \/ k = 30
  BY DEF MaxShift
<1>. QED
  BY <1>1, <1>2, Zenon

LEMMA RoundsUp ==
  ASSUME NEW x \in Nat \ {0}, NEW k \in 0 .. MaxShift, NEW p \in Nat, p = 2 ^ k, p >= x,
         \A j \in 0 .. MaxShift : 2 ^ j >= x => 2 ^ j >= p
  PROVE  RoundUpPowTwo(x) = p
<1>. DEFINE powers == { 2 ^ j : j \in 0 .. MaxShift }
            enough == { n \in powers : n >= x }
<1>1. p \in enough /\ \A n \in enough : p <= n
  OBVIOUS
<1>2. enough \subseteq Int
  BY DEF MaxShift
<1>3. RoundUpPowTwo(x) = CHOOSE m \in enough : \A n \in enough : m <= n
  BY DEF RoundUpPowTwo, Min
<1>. HIDE DEF enough
<1>4. PICK m \in enough : m = RoundUpPowTwo(x) /\ \A n \in enough : m <= n
  BY <1>1, <1>3
<1>5. m <= p /\ p <= m /\ m \in Int
  BY <1>1, <1>2, <1>4
<1>. QED
  BY <1>4, <1>5

LEMMA Capacities == RoundUpPowTwo(10) = 16 /\ RoundUpPowTwo(17) = 32
<1>1. 16 = 2 ^ 4 /\ 32 = 2 ^ 5
  BY SMT
<1>2. 4 \in 0 .. MaxShift /\ 5 \in 0 .. MaxShift
  BY DEF MaxShift
<1>3. ASSUME NEW j \in 0 .. MaxShift
      PROVE  (2 ^ j >= 10 => 2 ^ j >= 16) /\ (2 ^ j >= 17 => 2 ^ j >= 32)
  <2>1. PICK p : p = 2 ^ j
    OBVIOUS
  <2>2. p \in {1, 2, 4, 8, 16, 32} \/ p >= 32
    BY <2>1, PowersOfTwo
  <2>3. p \in Int
    BY <2>1 DEF MaxShift
  <2>4. (p >= 10 => p >= 16) /\ (p >= 17 => p >= 32)
    BY <2>2, <2>3
  <2>. QED
    BY <2>1, <2>4
<1>4. PICK k \in 0 .. MaxShift, l \in 0 .. MaxShift, x \in Nat, y \in Nat, p \in Nat, q \in Nat :
        k = 4 /\ l = 5 /\ x = 10 /\ y = 17 /\ p = 16 /\ q = 32
  BY <1>2
<1>5. p = 2 ^ k /\ q = 2 ^ l
  BY <1>1, <1>4, Zenon
<1>6. /\ x # 0 /\ y # 0 /\ p >= x /\ q >= y
      /\ \A j \in 0 .. MaxShift : (2 ^ j >= x => 2 ^ j >= p) /\ (2 ^ j >= y => 2 ^ j >= q)
  BY <1>3, <1>4
<1>7. RoundUpPowTwo(x) = p /\ RoundUpPowTwo(y) = q
  BY <1>5, <1>6, RoundsUp, Zenon
<1>. QED
  BY <1>4, <1>7

(* The first block has room for sixteen classes, and the second for the    *)
(* one more that it was enlarged for.                                      *)
Sized == { [length |-> n, capacity |-> 16, block |-> 16] : n \in 0 .. 16 }
           \cup { [length |-> n, capacity |-> 32, block |-> 17] : n \in {17, 18} }

LEMMA InitSized == NewArray(10) \in Sized
BY Capacities DEF NewArray, Sized

LEMMA AddSized ==
  ASSUME NEW array \in Sized, InBlock(array)
  PROVE  Add(array) \in Sized
<1>1. CASE array.length < 16
  <2>1. PICK n \in 0 .. 15 : array = [length |-> n, capacity |-> 16, block |-> 16]
    BY <1>1 DEF Sized
  <2>2. Add(array) = [length |-> n + 1, capacity |-> 16, block |-> 16]
    BY <2>1 DEF Add, Resize
  <2>. QED
    BY <2>2 DEF Sized
<1>2. CASE array.length = 16
  <2>1. array = [length |-> 16, capacity |-> 16, block |-> 16]
    BY <1>2 DEF Sized
  <2>2. Add(array) = [length |-> 17, capacity |-> 32, block |-> 17]
    BY <2>1, Capacities DEF Add, Resize
  <2>. QED
    BY <2>2 DEF Sized
<1>3. CASE array.length > 16
  <2>1. array = [length |-> 17, capacity |-> 32, block |-> 17]
    BY <1>3 DEF Sized, InBlock
  <2>2. Add(array) = [length |-> 18, capacity |-> 32, block |-> 17]
    BY <2>1 DEF Add, Resize
  <2>. QED
    BY <2>2 DEF Sized
<1>. QED
  BY <1>1, <1>2, <1>3 DEF Sized

AddOne(array) == IF InBlock(array) THEN Add(array) ELSE array

(* The array before and after each of n additions, as a function f says.   *)
IsAdding(f, n) ==
  /\ DOMAIN f = 0 .. n
  /\ f[0] = loaded_classes_
  /\ \A k \in 1 .. n : f[k] = AddOne(f[k - 1])

LEMMA AdditionsExist == \A n \in Nat : \E f : IsAdding(f, n)
<1>. DEFINE S == { n \in Nat : \E f : IsAdding(f, n) }
<1>1. 0 \in S
  <2>1. IsAdding([k \in 0 .. 0 |-> loaded_classes_], 0)
    BY DEF IsAdding
  <2>. QED
    BY <2>1
<1>2. ASSUME NEW n \in Nat, n \in S PROVE n + 1 \in S
  <2>1. PICK f : IsAdding(f, n)
    BY <1>2
  <2>2. PICK array : array = AddOne(f[n])
    OBVIOUS
  <2>3. PICK g : g = [k \in 0 .. n + 1 |-> IF k = n + 1 THEN array ELSE f[k]]
    OBVIOUS
  <2>4. DOMAIN g = 0 .. n + 1 /\ g[0] = loaded_classes_
    BY <2>1, <2>3 DEF IsAdding
  <2>5. ASSUME NEW k \in 1 .. n + 1 PROVE g[k] = AddOne(g[k - 1])
    <3>1. g[k - 1] = f[k - 1]
      BY <2>3
    <3>2. CASE k = n + 1
      <4>1. g[k] = array /\ g[k - 1] = f[n]
        BY <2>3, <3>1, <3>2
      <4>. QED
        BY <2>2, <4>1
    <3>3. CASE k # n + 1
      <4>1. k \in 1 .. n /\ g[k] = f[k]
        BY <2>3, <3>3
      <4>2. f[k] = AddOne(f[k - 1])
        BY <2>1, <4>1 DEF IsAdding
      <4>. QED
        BY <3>1, <4>1, <4>2
    <3>. QED
      BY <3>2, <3>3
  <2>6. IsAdding(g, n + 1)
    BY <2>4, <2>5 DEF IsAdding
  <2>. QED
    BY <2>6
<1>. HIDE DEF S
<1>3. \A n \in Nat : n \in S
  BY <1>1, <1>2, B!Induction, BuilderAssumption
<1>. QED
  BY <1>3 DEF S

LEMMA AddClassesSized ==
  ASSUME loaded_classes_ \in Sized, NEW n \in Nat, AddClasses(n)
  PROVE  loaded_classes_' \in Sized
<1>. DEFINE Is(w) == w = [k \in 0 .. n |-> IF k = 0 THEN loaded_classes_
                                           ELSE IF InBlock(w[k - 1]) THEN Add(w[k - 1])
                                           ELSE w[k - 1]]
<1>1. PICK f : IsAdding(f, n)
  BY AdditionsExist
<1>2. PICK g : g = [k \in 0 .. n |-> f[k]]
  OBVIOUS
<1>3. Is(g)
  <2>1. ASSUME NEW k \in 0 .. n
        PROVE  g[k] = IF k = 0 THEN loaded_classes_
                      ELSE IF InBlock(g[k - 1]) THEN Add(g[k - 1]) ELSE g[k - 1]
    <3>1. CASE k = 0
      BY <1>1, <1>2, <3>1 DEF IsAdding
    <3>2. CASE k # 0
      <4>1. k \in 1 .. n /\ g[k] = f[k] /\ g[k - 1] = f[k - 1]
        BY <1>2, <3>2
      <4>2. f[k] = AddOne(f[k - 1])
        BY <1>1, <4>1 DEF IsAdding
      <4>. QED
        BY <3>2, <4>1, <4>2, Zenon DEF AddOne
    <3>. QED
      BY <3>1, <3>2
  <2>. QED
    BY <1>2, <2>1
<1>4. PICK h : h = CHOOSE w : Is(w)
  OBVIOUS
<1>5. Is(h)
  <2>. HIDE DEF Is
  <2>. QED
    BY <1>3, <1>4
<1>6. loaded_classes_' = h[n]
  BY <1>4, Zenon DEF AddClasses
<1>. DEFINE S == { k \in Nat : k <= n => h[k] \in Sized }
<1>7. 0 \in S
  BY <1>5
<1>8. ASSUME NEW k \in Nat, k \in S PROVE k + 1 \in S
  <2>. SUFFICES ASSUME k + 1 <= n PROVE h[k + 1] \in Sized
    OBVIOUS
  <2>1. k <= n /\ k + 1 \in 0 .. n /\ k + 1 # 0 /\ (k + 1) - 1 = k
    OBVIOUS
  <2>2. PICK array : array = h[k]
    OBVIOUS
  <2>3. array \in Sized
    BY <1>8, <2>1, <2>2
  <2>4. h[k + 1] = AddOne(array)
    BY <1>5, <2>1, <2>2 DEF AddOne
  <2>5. AddOne(array) \in Sized
    BY <2>3, AddSized DEF AddOne
  <2>. QED
    BY <2>4, <2>5
<1>. HIDE DEF S
<1>9. \A k \in Nat : k \in S
  BY <1>7, <1>8, B!Induction, BuilderAssumption
<1>10. n \in S /\ n <= n
  BY <1>9
<1>. QED
  BY <1>6, <1>10 DEF S

(* main dies once the array has left its block.                            *)
Loaded == loaded_classes_ \in Sized /\ (loaded_classes_.length > 17 => stage = "Crashed")

LEMMA LoadedKept == Loaded /\ [MainNext]_mainVars => Loaded'
<1>. SUFFICES ASSUME Loaded, [MainNext]_mainVars PROVE Loaded'
  OBVIOUS
<1>1. ASSUME NEW k \in DOMAIN CoreFiles, LoadFile(k) PROVE Loaded'
  <2>1. stage # "Crashed"
    BY <1>1 DEF LoadFile, CoreFiles
  <2>2. CASE UNCHANGED loaded_classes_
    BY <2>1, <2>2 DEF Loaded
  <2>3. CASE ~UNCHANGED loaded_classes_
    <3>1. PICK n \in CoreSizes : /\ AddClasses(UnitBuiltins + n)
                                 /\ ~InBlock(loaded_classes_') => stage' = "Crashed"
      BY <1>1, <2>3 DEF LoadFile
    <3>2. UnitBuiltins + n \in Nat
      BY CoreAssumption DEF UnitBuiltins
    <3>3. PICK array : array = loaded_classes_'
      OBVIOUS
    <3>4. array \in Sized
      BY <3>1, <3>2, <3>3, AddClassesSized DEF Loaded
    <3>5. array.length > 17 => ~InBlock(array)
      BY <3>4 DEF Sized, InBlock
    <3>. QED
      BY <3>1, <3>3, <3>4, <3>5 DEF Loaded
  <2>. QED
    BY <2>2, <2>3
<1>2. ASSUME UNCHANGED loaded_classes_, stage # "Crashed" \/ UNCHANGED stage PROVE Loaded'
  BY <1>2 DEF Loaded
<1>3. CASE \/ ReadBase \/ OpenUser \/ ParseStep \/ PrintClasses \/ NewBuilder \/ BuildStep
           \/ List \/ MainEnded \/ UNCHANGED mainVars
  BY <1>2, <1>3 DEF ReadBase, OpenUser, ParseStep, PrintClasses, NewBuilder, BuildStep, List,
     MainEnded, mainVars
<1>. QED
  BY <1>1, <1>3 DEF MainNext

LEMMA LoadedHolds == MainSpec => []Loaded
<1>1. MainInit => Loaded
  <2>1. \A array \in {NewArray(10)} : array \in Sized /\ ~(array.length > 17)
    BY InitSized DEF NewArray
  <2>. QED
    BY <2>1 DEF MainInit, Loaded
<1>. QED
  BY <1>1, LoadedKept, PTL DEF MainSpec

(* The core files may define nine classes between them, and main dies of   *)
(* the tenth: the array that EschelleVM::LoadFile fills keeps its classes  *)
(* in its block up to the seventeenth, which Array::Resize enlarged it     *)
(* for.                                                                    *)
THEOREM CoreClassesFit == MainSpec => []CoreFits
<1>1. Loaded => CoreFits
  BY DEF Loaded, CoreFits, Sized, InBlock
<1>. QED
  BY <1>1, LoadedHolds, PTL

-----------------------------------------------------------------------------
(* The trees that the parser leaves *)

Leads(place) == place.on # "None"

(* A statement that is complete: an operator between every two leaves, and *)
(* every place resolved.                                                   *)
Complete(stmt) ==
  /\ Balanced(stmt.value)
  /\ Leads(stmt.dest)
  /\ \A j \in DOMAIN stmt.value.leaves : Leads(stmt.value.leaves[j])

(* The expression being parsed waits for a leaf or has one more than it    *)
(* has operators.                                                          *)
Growing ==
  pc \in ExpressionSites =>
    /\ \A j \in DOMAIN loc.expr.leaves : Leads(loc.expr.leaves[j])
    /\ loc.back # "Aborted" => Leads(loc.dest)
    /\ IF pc = "Unary" THEN Len(loc.expr.leaves) = Len(loc.expr.ops) ELSE Balanced(loc.expr)

TreesComplete == \A c, f, stmt : InTree(c, f, stmt) => Complete(stmt)

LEMMA TreesCompleteKept ==
  ASSUME Inv, TreesComplete, Growing, [Next]_vars
  PROVE  TreesComplete'
<1>. SUFFICES ASSUME NEW c \in DOMAIN classes', NEW f \in DOMAIN classes'[c].functions,
                     NEW i \in DOMAIN classes'[c].functions[f].ast
              PROVE  Complete(classes'[c].functions[f].ast[i])
  BY DEF TreesComplete, InTree
<1>1. PICK stmt : stmt = classes'[c].functions[f].ast[i]
  OBVIOUS
<1>2. CASE InTree(c, f, stmt)
  BY <1>1, <1>2 DEF TreesComplete
<1>3. CASE AddsStatement(f) /\ stmt = [dest |-> loc.dest, value |-> loc.expr]
  <2>1. pc = "Binary" /\ loc.back # "Aborted"
    BY <1>3 DEF AddsStatement, Site, ExpressionSites
  <2>2. /\ \A j \in DOMAIN loc.expr.leaves : Leads(loc.expr.leaves[j])
        /\ Leads(loc.dest) /\ Balanced(loc.expr)
    BY <2>1 DEF Growing, ExpressionSites
  <2>. QED
    BY <1>1, <1>3, <2>2 DEF Complete
<1>4. CASE ConstantStatement(stmt)
  <2>1. PICK n, place, leaf :
          /\ place = Place("StaticField", class_, n) /\ leaf = Place("Literal", IntClass, n)
          /\ stmt = [dest |-> place, value |-> Literal(IntClass, n)]
    BY <1>4 DEF ConstantStatement
  <2>2. stmt.dest = place /\ stmt.value = [leaves |-> <<leaf>>, ops |-> <<>>]
    BY <2>1 DEF Literal
  <2>3. Leads(place) /\ Leads(leaf)
    BY <2>1 DEF Place, Leads
  <2>. QED
    BY <1>1, <2>2, <2>3 DEF Complete, Balanced
<1>. QED
  BY <1>1, <1>2, <1>3, <1>4, StatementsStep

LEMMA Resolved ==
  ASSUME NEW place
  PROVE  /\ \A name : place = Resolve(name) /\ place # NoPlace => Leads(place)
         /\ \A c, i : place = FieldPlace(classes, c, i) => Leads(place)
         /\ \A s, v : place = Place("Local", s, v) => Leads(place)
         /\ \A class : place = Place("Literal", class, 0) => Leads(place)
         /\ place = ReturnPlace => Leads(place)
<1>. USE DEF Leads, Place
<1>1. ASSUME NEW c, NEW i, place = FieldPlace(classes, c, i) PROVE Leads(place)
  BY <1>1 DEF FieldPlace
<1>2. ASSUME NEW s, NEW v, place = Place("Local", s, v) PROVE Leads(place)
  BY <1>2
<1>3. ASSUME NEW name, place = Resolve(name), place # NoPlace PROVE Leads(place)
  <2>1. \/ \E s, v : place = Place("Local", s, v)
        \/ \E c, i : place = FieldPlace(classes, c, i)
    BY <1>3 DEF Resolve
  <2>. QED
    BY <1>1, <1>2, <2>1
<1>. QED
  BY <1>1, <1>2, <1>3 DEF ReturnPlace

LEMMA Begun ==
  ASSUME NoneHeld, pc \notin ExpressionSites \cup Stopped, pc' = "Unary", loc'.expr = loc.expr,
         loc'.back # "Aborted" => Leads(loc'.dest)
  PROVE  Growing'
BY DEF NoneHeld, NoExpr, Growing, ExpressionSites

LEMMA GrowingKept ==
  ASSUME Inv, NoneHeld, Growing, [Next]_vars
  PROVE  Growing'
<1>. USE DEF ExpressionSites
<1>a. /\ loc \in LocalsOf(ClassRef) /\ loc.expr \in ExprType
      /\ loc.expr.leaves \in Seq(PlaceType) /\ loc.expr.ops \in Seq(Operators)
  BY DEF Inv, TypeOK, LocalsOf, ExprType
<1>1. CASE UNCHANGED vars
  BY <1>1 DEF vars, Growing, Leads, Balanced
<1>2. CASE pc' \notin ExpressionSites
  BY <1>2 DEF Growing
<1>3. CASE ParamDefault /\ pc' = "Unary"
  <2>1. pc = "ParamDefault" /\ loc'.expr = loc.expr /\ loc'.back = "Aborted"
    BY <1>a, <1>3 DEF ParamDefault, DeclareLocal, LocalsOf
  <2>. QED
    BY <1>3, <2>1, Begun DEF Stopped
<1>4. CASE Initialiser
  <2>1. /\ pc \in {"FieldNext", "LocalNext"} /\ pc' = "Unary" /\ loc'.expr = loc.expr
        /\ \/ loc'.dest = FieldPlace(classes, class_, Len(classes[class_].fields))
           \/ loc'.dest = Place("Local", scope_, Len(scopes[scope_].vars))
    BY <1>a, <1>4 DEF Initialiser, Reads, BeginExpression, LocalsOf
  <2>2. Leads(loc'.dest)
    <3>1. PICK dest, c, i, s, v :
            /\ dest = loc'.dest /\ c = class_ /\ i = Len(classes[class_].fields)
            /\ s = scope_ /\ v = Len(scopes[scope_].vars)
      OBVIOUS
    <3>2. dest = FieldPlace(classes, c, i) \/ dest = Place("Local", s, v)
      BY <2>1, <3>1
    <3>. QED
      BY <3>1, <3>2, Resolved
  <2>. QED
    BY <2>1, <2>2, Begun DEF Stopped
<1>5. CASE Statement /\ pc' = "Unary"
  <2>1. pc = "Statement" /\ loc'.expr = loc.expr /\ loc'.dest = ReturnPlace
    BY <1>a, <1>5 DEF Statement, Reads, BeginExpression, LocalsOf
  <2>2. Leads(loc'.dest)
    BY <2>1, Resolved
  <2>. QED
    BY <1>5, <2>1, <2>2, Begun DEF Stopped
<1>6. CASE Assign /\ pc' = "Unary"
  <2>1. /\ pc = "Assign" /\ loc'.expr = loc.expr
        /\ loc'.dest = Resolve(loc.name) /\ loc'.dest # NoPlace
    BY <1>a, <1>6 DEF Assign, Reads, BeginExpression, LocalsOf
  <2>2. Leads(loc'.dest)
    BY <2>1, Resolved
  <2>. QED
    BY <1>6, <2>1, <2>2, Begun DEF Stopped
<1>7. CASE ParseUnaryExpr /\ pc' = "Binary"
  <2>1. PICK leaf : /\ pc = "Unary" /\ leaf # NoPlace
                    /\ \/ \E name : leaf = Resolve(name)
                       \/ \E class : leaf = Place("Literal", class, 0)
                    /\ loc' = [loc EXCEPT !.expr.leaves = Append(@, leaf)]
    BY <1>7 DEF ParseUnaryExpr, Reads
  <2>2. Leads(leaf)
    BY <2>1, Resolved
  <2>3. PICK leaves : leaves = Append(loc.expr.leaves, leaf)
    OBVIOUS
  <2>4. /\ loc'.dest = loc.dest /\ loc'.back = loc.back
        /\ loc'.expr.leaves = leaves /\ loc'.expr.ops = loc.expr.ops
    BY <1>a, <2>1, <2>3 DEF LocalsOf, ExprType
  <2>5. /\ Len(leaves) = Len(loc.expr.leaves) + 1
        /\ \A j \in DOMAIN leaves :
             \/ leaves[j] = leaf
             \/ j \in DOMAIN loc.expr.leaves /\ leaves[j] = loc.expr.leaves[j]
    BY <1>a, <2>3
  <2>. QED
    BY <1>7, <2>1, <2>2, <2>4, <2>5 DEF Growing, Balanced
<1>8. CASE BinaryOperator
  <2>1. PICK t : /\ pc = "Binary" /\ pc' = "Unary"
                 /\ loc' = [loc EXCEPT !.expr.ops = Append(@, t)]
    BY <1>8 DEF BinaryOperator
  <2>2. PICK ops : ops = Append(loc.expr.ops, t)
    OBVIOUS
  <2>3. /\ loc'.dest = loc.dest /\ loc'.back = loc.back
        /\ loc'.expr.leaves = loc.expr.leaves /\ loc'.expr.ops = ops
    BY <1>a, <2>1, <2>2 DEF LocalsOf, ExprType
  <2>4. Len(ops) = Len(loc.expr.ops) + 1
    BY <1>a, <2>2
  <2>. QED
    BY <2>1, <2>3, <2>4 DEF Growing, Balanced
<1>9. CASE Next /\ pc' \in ExpressionSites
  <2>1. Expresses
    BY <1>9, OnlyExpresses
  <2>2. /\ ParamDefault \/ Statement \/ Assign => pc' # "Binary"
        /\ ParseUnaryExpr => pc' # "Unary"
    BY DEF ParamDefault, Statement, Assign, ParseUnaryExpr, DeclareLocal, BeginExpression
  <2>. QED
    BY <1>3, <1>4, <1>5, <1>6, <1>7, <1>8, <1>9, <2>1, <2>2 DEF Expresses
<1>. QED
  BY <1>1, <1>2, <1>9

LEMMA TreesHold == Spec => []TreesComplete
<1>1. Init => TreesComplete /\ Growing
  <2>. SUFFICES ASSUME Init PROVE TreesComplete /\ Growing
    OBVIOUS
  <2>1. DOMAIN classes = 1 .. 6 /\ pc \notin ExpressionSites /\ Inv
    BY BuiltinKinds, InitInv DEF Init, ExpressionSites
  <2>2. ASSUME NEW c \in DOMAIN classes, NEW f \in DOMAIN classes[c].functions
        PROVE  classes[c].functions[f].ast = <<>>
    <3>1. Len(classes[c].functions) = 1 /\ classes[c].functions[1].ast = <<>>
      BY <2>1, BuiltinKinds DEF Init
    <3>2. DOMAIN classes[c].functions = 1 .. Len(classes[c].functions)
      BY <2>1, ClassTyped
    <3>3. f = 1
      BY <3>1, <3>2
    <3>. QED
      BY <3>1, <3>3
  <2>3. \A c, f, stmt : ~InTree(c, f, stmt)
    BY <2>2 DEF InTree
  <2>. QED
    BY <2>1, <2>3 DEF TreesComplete, Growing
<1>2. Inv /\ NoneHeld /\ TreesComplete /\ Growing /\ [Next]_vars => TreesComplete' /\ Growing'
  BY TreesCompleteKept, GrowingKept
<1>. QED
  BY <1>1, <1>2, InvHolds, NoneHeldHolds, PTL DEF Spec

(* Every tree the parser has made is one that AstPrinter and the visitors  *)
(* of FlowGraphBuilder can walk: ParseBinaryExpr gives each operator its   *)
(* two operands, and AddAst takes no place that leads nowhere.             *)
THEOREM TreesCanBeWalked == MainSpec => []TreesFitBuilder
<1>1. ASSUME Inv, TreesComplete, FieldPlaces, LocalsExist PROVE TreesFitBuilder
  <2>. SUFFICES ASSUME NEW c \in DOMAIN classes, NEW f \in DOMAIN classes[c].functions,
                       NEW i \in DOMAIN classes[c].functions[f].ast,
                       NEW stmt, stmt = classes[c].functions[f].ast[i]
                PROVE  /\ Len(stmt.value.leaves) = Len(stmt.value.ops) + 1
                       /\ \A place \in PlacesOf(stmt) : PlaceExists(place)
    BY DEF TreesFitBuilder
  <2>1. Complete(stmt)
    BY <1>1 DEF TreesComplete, InTree
  <2>2. ASSUME NEW place \in PlacesOf(stmt) PROVE PlaceExists(place)
    <3>1. Leads(place)
      BY <2>1 DEF Complete, PlacesOf, Range
    <3>2. place \in PlacesIn(classes[c].functions[f])
      BY PlacesOfTree DEF Places, PlacesOf
    <3>3. place \in PlaceType
      <4>1. classes[c].functions[f].ast \in Seq(StmtType)
        BY <1>1, ClassTyped
      <4>2. stmt \in StmtType
        BY <4>1
      <4>3. stmt.dest \in PlaceType /\ stmt.value.leaves \in Seq(PlaceType)
        BY <4>2 DEF StmtType, ExprType
      <4>. QED
        BY <4>3 DEF PlacesOf, Range
    <3>4. CASE place.on = "Local"
      <4>1. ExistsLocal(place)
        BY <1>1, <3>2, <3>4 DEF LocalsExist, Refers
      <4>. QED
        BY <3>4, <4>1 DEF ExistsLocal, PlaceExists
    <3>5. CASE place.on \in FieldKinds
      <4>1. DenotesField(place, classes[c], c)
        BY <1>1, <3>2 DEF FieldPlaces
      <4>. QED
        BY <3>5, <4>1 DEF DenotesField, FieldKinds, PlaceExists
    <3>6. CASE place.on \in {"Literal", "Return"}
      BY <3>6 DEF PlaceExists
    <3>. QED
      BY <3>1, <3>3, <3>4, <3>5, <3>6 DEF PlaceType, Leads, FieldKinds
  <2>. QED
    BY <2>1, <2>2 DEF Complete, Balanced
<1>2. Inv /\ TreesComplete /\ FieldPlaces /\ (LocalsExist /\ LocalRoots) => TreesFitBuilder
  BY <1>1
<1>. QED
  BY <1>2, ParserEmbedded, InvHolds, TreesHold, FieldPlacesHold, LocalsHold, PTL

-----------------------------------------------------------------------------
(* From the tree to the list *)

BeforeBuild == {"Start", "Math", "Vector", "Open", "Parse", "Print", "Build"}
Printing == {"List", "Returned"}

(* Where main is, and where the builder is then.                           *)
Staged ==
  /\ stage \in BeforeBuild \cup Printing \cup {"Building", "Aborted", "Crashed"}
  /\ stage \in BeforeBuild => building = "NotYet"
  /\ stage = "Building" => building = "Building"
  /\ stage \in Printing => building = "Done"
  /\ stage = "Build" => FindClass("Main") # Nil

(* The builder works on the tree of Main's main, and keeps its invariant.  *)
Built ==
  IF building = "NotYet" THEN instrs = <<>>
  ELSE B!Inv /\ B!Sound /\ ast = MainTree

(* What has been listed is the beginning of the list.                      *)
Told ==
  /\ listed = [i \in 1 .. Len(listed) |-> i] /\ Len(listed) \in 0 .. Len(instrs)
  /\ IF stage \in Printing
     THEN /\ instr = IF Len(listed) < Len(instrs) THEN Len(listed) + 1 ELSE Nil
          /\ stage = "Returned" => instr = Nil
     ELSE listed = <<>> /\ instr = Nil

Arguments == given \in 0 .. 2 /\ files \subseteq {"Math", "Vector", "user"}

MainInv == Staged /\ Built /\ Told /\ Arguments

LEMMA SameTree == UNCHANGED <<classes, code_>> => UNCHANGED MainTree /\ UNCHANGED FindClass("Main")
<1>. SUFFICES ASSUME UNCHANGED <<classes, code_>>
              PROVE  UNCHANGED MainTree /\ UNCHANGED FindClass("Main")
  OBVIOUS
<1>1. classes' = classes /\ code_' = code_
  OBVIOUS
<1>2. UNCHANGED FindClass("Main")
  BY <1>1 DEF FindClass, SelectInSeq
<1>3. ASSUME NEW c PROVE MainFunction(c)' = MainFunction(c)
  BY <1>1 DEF MainFunction, GetFunction, FirstNamed, SelectInSeq
<1>. QED
  BY <1>1, <1>2, <1>3 DEF MainTree

(* The state of the builder when BuildGraph begins. *)
Beginning ==
  /\ ast \in Trees
  /\ building = "Building"
  /\ frames = <<G!NewFrame("Effect", G!SequenceNode)>>
  /\ instrs = <<G!NewInstr("TargetEntry", NoPlace, <<>>)>>
  /\ temp_count_ = 0

LEMMA BuilderBegins == Beginning => B!Inv /\ B!Sound
<1>1. Beginning => B!Init
  BY DEF B!Init, B!NewFrame, B!SequenceNode, B!NewInstr, B!NoPlace, B!Place, B!Nil,
     G!NewFrame, G!SequenceNode, G!NewInstr, NoPlace, Place, Nil, G!Nil, Beginning
<1>. QED
  BY <1>1, B!InvInit, B!SoundInit, BuilderAssumption

LEMMA BuilderSteps ==
  ASSUME B!Inv, B!Sound, G!Next \/ UNCHANGED graphVars
  PROVE  /\ B!Inv' /\ B!Sound' /\ ast' = ast
         /\ building' \in {"Building", "Done", "Crashed"}
<1>1. [B!Next]_B!vars
  BY SameBuilder DEF graphVars, B!vars
<1>2. B!Inv' /\ B!Sound'
  BY <1>1, B!InvNext, B!SoundNext, BuilderAssumption
<1>3. ast' = ast
  BY <1>1 DEF B!Next, B!vars, B!VisitChild, B!AppendChild, B!FinishGraph, B!VisitReturn,
     B!VisitStoreLocal, B!StoreLocal, B!VisitField, B!VisitLeaf, B!VisitLeft, B!VisitRight,
     B!BinaryOp, B!Terminated
<1>4. building' \in {"Building", "Done", "Crashed"}
  BY <1>2 DEF B!Inv, B!Typed
<1>. QED
  BY <1>2, <1>3, <1>4

LEMMA BuilderStarted == B!Inv => Len(instrs) \in Nat \ {0}
BY DEF B!Inv, B!Typed

(* The list of a finished graph. *)
LEMMA BuilderDone ==
  ASSUME B!Inv, B!Sound
  PROVE  building = "Done" =>
           \A i \in 1 .. Len(instrs) :
             instrs[i].next = IF i = Len(instrs) THEN Nil ELSE i + 1
<1>1. Len(instrs) \in Nat \ {0}
  BY BuilderStarted
<1>2. building = "Done" => B!Listed(instrs)
  BY B!FinishedGraph, BuilderAssumption
<1>. QED
  BY <1>1, <1>2 DEF B!Listed, B!Linked, B!Nil, Nil

(* A step before the builder starts, or one that ends main. *)
LEMMA StageStep ==
  ASSUME MainInv, UNCHANGED <<given, files, graphVars, listVars>>,
         stage \in BeforeBuild, stage' \in BeforeBuild \cup {"Aborted", "Crashed"},
         stage' = "Build" => FindClass("Main")' # Nil
  PROVE  MainInv'
<1>1. /\ building = "NotYet" /\ instrs = <<>> /\ listed = <<>> /\ instr = Nil
      /\ building' = building /\ instrs' = instrs /\ listed' = listed /\ instr' = instr
  BY DEF MainInv, Staged, Built, Told, graphVars, listVars, BeforeBuild, Printing
<1>2. stage' \notin Printing \cup {"Building"}
  BY DEF BeforeBuild, Printing
<1>3. Staged'
  BY <1>1, <1>2 DEF Staged
<1>4. Built'
  BY <1>1 DEF Built
<1>5. Told'
  BY <1>1, <1>2 DEF MainInv, Told
<1>6. Arguments'
  BY DEF MainInv, Arguments
<1>. QED
  BY <1>3, <1>4, <1>5, <1>6 DEF MainInv

LEMMA FoundMain ==
  ASSUME Inv, TreesComplete, FindClass("Main") # Nil, MainFunction(FindClass("Main")) # Nil
  PROVE  MainTree \in Trees
<1>1. PICK c : c = FindClass("Main")
  OBVIOUS
<1>2. c \in DOMAIN classes
  BY <1>1, FindClassTyped DEF ClassRef, Nil
<1>3. PICK f : f = MainFunction(c)
  OBVIOUS
<1>4. classes[c].functions \in Seq(FunctionOf(ClassRef, ScopeRef))
  BY <1>2, ClassTyped DEF ClassOf
<1>5. f \in DOMAIN classes[c].functions
  BY <1>1, <1>3, <1>4, FirstNamedRange DEF MainFunction, GetFunction, Nil
<1>6. MainTree = classes[c].functions[f].ast
  BY <1>1, <1>3 DEF MainTree
<1>7. classes[c].functions[f].ast \in Seq(StmtType)
  BY <1>2, <1>5, ClassTyped
<1>8. ASSUME NEW i \in DOMAIN classes[c].functions[f].ast
      PROVE  Balanced(classes[c].functions[f].ast[i].value)
  BY <1>2, <1>5 DEF TreesComplete, InTree, Complete
<1>. QED
  BY <1>6, <1>7, <1>8 DEF Trees

LEMMA NewBuilderKeeps ==
  ASSUME MainInv, Inv, TreesComplete, NewBuilder
  PROVE  MainInv'
<1>1. stage = "Build" /\ building = "NotYet" /\ FindClass("Main") # Nil /\ instrs = <<>>
      /\ listed = <<>> /\ instr = Nil
  BY DEF NewBuilder, MainInv, Staged, Built, Told, BeforeBuild, Printing
<1>2. CASE MainFunction(FindClass("Main")) = Nil
  <2>1. stage' = "Crashed" /\ UNCHANGED <<given, files, graphVars, listVars>>
    BY <1>2 DEF NewBuilder
  <2>. QED
    BY <1>1, <2>1, StageStep DEF BeforeBuild
<1>3. CASE MainFunction(FindClass("Main")) # Nil
  <2>1. /\ stage' = "Building" /\ building' = "Building" /\ ast' = MainTree
        /\ frames' = <<G!NewFrame("Effect", G!SequenceNode)>>
        /\ instrs' = <<G!NewInstr("TargetEntry", NoPlace, <<>>)>>
        /\ temp_count_' = 0
    BY <1>3 DEF NewBuilder, MainTree
  <2>2. /\ given' = given /\ files' = files /\ instr' = instr /\ listed' = listed
        /\ classes' = classes /\ code_' = code_
    BY DEF NewBuilder, listVars, vars
  <2>3. MainTree' = MainTree
    BY <2>2, SameTree
  <2>4. ast' \in Trees
    BY <1>1, <1>3, <2>1, FoundMain
  <2>5. Beginning'
    BY <2>1, <2>4 DEF Beginning, G!NewFrame, G!SequenceNode, G!NewInstr, G!Nil
  <2>6. (B!Inv /\ B!Sound)'
    BY <2>5, BuilderBegins, PTL
  <2>7. Staged'
    BY <2>1 DEF Staged, BeforeBuild, Printing
  <2>8. Built'
    BY <2>1, <2>3, <2>6 DEF Built
  <2>9. Told'
    BY <1>1, <2>1, <2>2 DEF Told, Printing
  <2>10. Arguments'
    BY <2>2 DEF MainInv, Arguments
  <2>. QED
    BY <2>7, <2>8, <2>9, <2>10 DEF MainInv
<1>. QED
  BY <1>2, <1>3

LEMMA BuildStepKeeps ==
  ASSUME MainInv, BuildStep
  PROVE  MainInv'
<1>1. /\ stage = "Building" /\ building = "Building" /\ B!Inv /\ B!Sound /\ ast = MainTree
      /\ listed = <<>> /\ instr = Nil /\ G!Next
  BY DEF BuildStep, MainInv, Staged, Built, Told, Printing
<1>2. /\ given' = given /\ files' = files /\ listed' = listed
      /\ classes' = classes /\ code_' = code_
  BY DEF BuildStep, vars
<1>3. /\ B!Inv' /\ B!Sound' /\ ast' = ast
      /\ building' \in {"Building", "Done", "Crashed"}
  BY <1>1, BuilderSteps
<1>4. MainTree' = MainTree
  BY <1>2, SameTree
<1>5. (Len(instrs) \in Nat \ {0})'
  BY <1>3, BuilderStarted, PTL
<1>6. /\ building' = "Done" => stage' = "List" /\ instr' = 1
      /\ building' = "Crashed" => stage' = "Crashed" /\ instr' = Nil
      /\ building' = "Building" => stage' = "Building" /\ instr' = Nil
  BY <1>1 DEF BuildStep, G!Normal
<1>7. Staged'
  BY <1>3, <1>6 DEF Staged, BeforeBuild, Printing
<1>8. Built'
  BY <1>1, <1>3, <1>4 DEF Built
<1>9. Told'
  BY <1>1, <1>2, <1>3, <1>5, <1>6 DEF Told, Printing
<1>10. Arguments'
  BY <1>2 DEF MainInv, Arguments
<1>. QED
  BY <1>7, <1>8, <1>9, <1>10 DEF MainInv

LEMMA ListKeeps ==
  ASSUME MainInv, List
  PROVE  MainInv'
<1>1. /\ stage = "List" /\ building = "Done" /\ B!Inv /\ B!Sound /\ ast = MainTree
      /\ listed = [i \in 1 .. Len(listed) |-> i] /\ Len(listed) \in 0 .. Len(instrs)
      /\ instr = IF Len(listed) < Len(instrs) THEN Len(listed) + 1 ELSE Nil
  BY DEF List, MainInv, Staged, Built, Told, Printing
<1>2. /\ given' = given /\ files' = files /\ classes' = classes /\ code_' = code_
      /\ building' = building /\ ast' = ast /\ frames' = frames /\ instrs' = instrs
      /\ temp_count_' = temp_count_ /\ UNCHANGED graphVars
  BY DEF List, vars, graphVars
<1>3. B!Inv' /\ B!Sound'
  BY <1>1, <1>2, BuilderSteps
<1>4. MainTree' = MainTree
  BY <1>2, SameTree
<1>5. stage' \in Printing
  BY <1>1 DEF List, Printing
<1>6. Staged'
  BY <1>1, <1>2, <1>5 DEF Staged, Printing, BeforeBuild
<1>7. Built'
  BY <1>1, <1>2, <1>3, <1>4 DEF Built
<1>8. PICK n \in Nat \ {0} : n = Len(instrs)
  BY <1>1, BuilderStarted
<1>9. PICK m \in 0 .. n : m = Len(listed)
  BY <1>1, <1>8
<1>10. Told'
  <2>1. CASE instr = Nil
    <3>1. stage' = "Returned" /\ listed' = listed /\ instr' = instr
      BY <2>1 DEF List, listVars
    <3>. QED
      BY <1>1, <1>2, <2>1, <3>1 DEF Told, Printing
  <2>2. CASE instr # Nil
    <3>1. m < n /\ instr = m + 1
      BY <1>1, <1>8, <1>9, <2>2
    <3>2. /\ listed' = Append(listed, m + 1) /\ instr' = instrs[m + 1].next /\ stage' = stage
      BY <2>2, <3>1 DEF List
    <3>3. instr' = IF m + 1 = n THEN Nil ELSE m + 2
      <4>1. PICK i \in 1 .. n : i = m + 1
        BY <3>1
      <4>2. instrs[i].next = IF i = n THEN Nil ELSE i + 1
        BY <1>1, <1>8, BuilderDone
      <4>. QED
        BY <3>2, <4>1, <4>2
    <3>4. listed = [i \in 1 .. m |-> i]
      BY <1>1, <1>9
    <3>5. PICK new : new = listed'
      OBVIOUS
    <3>6. new = [i \in 1 .. m + 1 |-> i] /\ Len(new) = m + 1
      BY <3>2, <3>4, <3>5
    <3>7. instr' = IF Len(new) < n THEN Len(new) + 1 ELSE Nil
      BY <3>1, <3>3, <3>6
    <3>8. /\ listed' = [i \in 1 .. Len(listed') |-> i] /\ Len(listed') \in 0 .. Len(instrs')
          /\ instr' = IF Len(listed') < Len(instrs') THEN Len(listed') + 1 ELSE Nil
      BY <1>2, <1>8, <3>1, <3>5, <3>6, <3>7
    <3>. QED
      BY <1>1, <1>5, <3>2, <3>8 DEF Told
  <2>. QED
    BY <2>1, <2>2
<1>11. Arguments'
  BY <1>2 DEF MainInv, Arguments
<1>. QED
  BY <1>6, <1>7, <1>10, <1>11 DEF MainInv

LEMMA MainInvKept ==
  ASSUME MainInv, Inv, TreesComplete, [MainNext]_mainVars
  PROVE  MainInv'
<1>1. CASE ReadBase
  <2>1. stage \in BeforeBuild /\ stage' \in {"Math", "Crashed"}
    BY <1>1 DEF ReadBase, CoreFiles, BeforeBuild
  <2>. QED
    BY <1>1, <2>1, StageStep DEF ReadBase, BeforeBuild
<1>2. ASSUME NEW k \in DOMAIN CoreFiles, LoadFile(k) PROVE MainInv'
  <2>1. k \in {1, 2} /\ CoreFiles[k] \in {"Math", "Vector"} /\ Len(CoreFiles) = 2
        /\ (k < 2 => CoreFiles[k + 1] = "Vector")
    BY DEF CoreFiles
  <2>2. stage \in BeforeBuild /\ stage' \in {"Vector", "Open", "Aborted", "Crashed"}
    BY <1>2, <2>1 DEF LoadFile, BeforeBuild
  <2>. QED
    BY <1>2, <2>2, StageStep DEF LoadFile, BeforeBuild
<1>3. CASE OpenUser
  <2>1. stage \in BeforeBuild /\ stage' \in {"Parse", "Crashed"}
    BY <1>3 DEF OpenUser, BeforeBuild
  <2>. QED
    BY <1>3, <2>1, StageStep DEF OpenUser, BeforeBuild
<1>4. CASE ParseStep
  <2>1. stage \in BeforeBuild /\ stage' \in {"Parse", "Print", "Aborted", "Crashed"}
    BY <1>4 DEF ParseStep, BeforeBuild
  <2>. QED
    BY <1>4, <2>1, StageStep DEF ParseStep, BeforeBuild
<1>5. CASE PrintClasses
  <2>1. stage \in BeforeBuild /\ stage' \in {"Build", "Crashed"}
    BY <1>5 DEF PrintClasses, BeforeBuild
  <2>2. stage' = "Build" => FindClass("Main") # Nil
    BY <1>5 DEF PrintClasses, Printed, Printable
  <2>3. UNCHANGED FindClass("Main")
    BY <1>5, SameTree DEF PrintClasses, vars
  <2>. QED
    BY <1>5, <2>1, <2>2, <2>3, StageStep DEF PrintClasses, BeforeBuild
<1>6. CASE UNCHANGED mainVars
  <2>1. /\ stage' = stage /\ given' = given /\ files' = files /\ instr' = instr
        /\ listed' = listed /\ building' = building /\ instrs' = instrs /\ ast' = ast
        /\ UNCHANGED graphVars /\ UNCHANGED <<classes, code_>>
    BY <1>6 DEF mainVars, graphVars, listVars, vars
  <2>2. MainTree' = MainTree /\ FindClass("Main")' = FindClass("Main")
    BY <2>1, SameTree
  <2>3. Staged'
    BY <2>1, <2>2 DEF MainInv, Staged
  <2>4. Built'
    <3>1. CASE building = "NotYet"
      BY <2>1, <3>1 DEF MainInv, Built
    <3>2. CASE building # "NotYet"
      <4>1. B!Inv /\ B!Sound /\ ast = MainTree
        BY <3>2 DEF MainInv, Built
      <4>2. B!Inv' /\ B!Sound'
        BY <2>1, <4>1, BuilderSteps
      <4>. QED
        BY <2>1, <2>2, <3>2, <4>1, <4>2 DEF Built
    <3>. QED
      BY <3>1, <3>2
  <2>5. Told'
    BY <2>1 DEF MainInv, Told
  <2>6. Arguments'
    BY <2>1 DEF MainInv, Arguments
  <2>. QED
    BY <2>3, <2>4, <2>5, <2>6 DEF MainInv
<1>7. CASE MainEnded
  BY <1>6, <1>7 DEF MainEnded
<1>. QED
  BY <1>1, <1>2, <1>3, <1>4, <1>5, <1>6, <1>7, NewBuilderKeeps, BuildStepKeeps, ListKeeps
     DEF MainNext

LEMMA MainInvHolds == MainSpec => []MainInv
<1>1. MainInit => MainInv
  <2>. SUFFICES ASSUME MainInit PROVE MainInv
    OBVIOUS
  <2>1. Staged /\ Built /\ Told
    BY DEF MainInit, Staged, Built, Told, BeforeBuild, Printing
  <2>2. Arguments
    BY DEF MainInit, Arguments, CoreFiles
  <2>. QED
    BY <2>1, <2>2 DEF MainInv
<1>2. MainInv /\ Inv /\ TreesComplete /\ [MainNext]_mainVars => MainInv'
  BY MainInvKept
<1>. QED
  BY <1>1, <1>2, ParserEmbedded, InvHolds, TreesHold, PTL DEF MainSpec

(* Main's own state is well typed; in particular the loop that prints the  *)
(* instructions follows no pointer to an instruction that does not exist.  *)
THEOREM MainTypesHold == MainSpec => []MainTypeOK
<1>1. ASSUME MainInv, Loaded PROVE MainTypeOK
  <2>1. loaded_classes_ \in [length : Nat, capacity : Nat, block : Nat]
    BY <1>1 DEF Loaded, Sized
  <2>2. instrs = <<>> \/ (DOMAIN instrs = 1 .. Len(instrs) /\ Len(instrs) \in Nat)
    BY <1>1 DEF MainInv, Built, B!Inv, B!Typed
  <2>3. instr \in 0 .. Len(instrs) /\ \A i \in DOMAIN listed : listed[i] \in DOMAIN instrs
    <3>1. Len(instrs) \in Nat /\ DOMAIN instrs = 1 .. Len(instrs)
      BY <2>2
    <3>. QED
      BY <1>1, <3>1 DEF MainInv, Told, Nil
  <2>. QED
    BY <1>1, <2>1, <2>3 DEF MainInv, Staged, Arguments, MainTypeOK, BeforeBuild, Printing, Ended
<1>. QED
  BY <1>1, MainInvHolds, LoadedHolds, PTL

(* When main returns it has listed every instruction of the graph once, in *)
(* order, and executing the list does what the source of Main's main says, *)
(* if it loads no field: the parser, the builder and main's loop together  *)
(* translate every file faithfully, whatever its length.                   *)
THEOREM ListingTranslates == MainSpec => []ListingIsTranslation
<1>1. ASSUME MainInv PROVE ListingIsTranslation
  <2>. SUFFICES ASSUME stage = "Returned" PROVE
         /\ listed = [i \in DOMAIN instrs |-> i]
         /\ ~G!LoadsField(MainTree) => G!StoresOf(Tail(listed)) = G!SourceStores(MainTree)
    BY DEF ListingIsTranslation
  <2>1. /\ building = "Done" /\ B!Inv /\ B!Sound /\ ast = MainTree
        /\ listed = [i \in 1 .. Len(listed) |-> i] /\ Len(listed) \in 0 .. Len(instrs)
        /\ ~(Len(listed) < Len(instrs))
    BY <1>1 DEF MainInv, Staged, Built, Told, Printing, Nil
  <2>2. PICK n \in Nat \ {0} : n = Len(instrs)
    BY <2>1, BuilderStarted
  <2>3. DOMAIN instrs = 1 .. n
    <3>1. PICK S : instrs \in Seq(S)
      BY <2>1 DEF B!Inv, B!Typed
    <3>. QED
      BY <2>2, <3>1
  <2>4. Len(listed) = n
    <3>1. PICK m : m = Len(listed)
      OBVIOUS
    <3>2. m \in 0 .. n /\ ~(m < n)
      BY <2>1, <2>2, <3>1
    <3>. QED
      BY <3>1, <3>2
  <2>5. PICK list : list = Tail(listed)
    OBVIOUS
  <2>6. Len(list) = n - 1 /\ \A k \in 1 .. n - 1 : list[k] = k + 1
    BY <2>1, <2>4, <2>5
  <2>7. ASSUME ~G!LoadsField(MainTree)
        PROVE  G!StoresOf(Tail(listed)) = G!SourceStores(MainTree)
    <3>1. ~B!LoadsField(ast)
      BY <2>1, <2>7, SameMeaning
    <3>2. B!Completed(frames) = Len(ast) /\ B!Computes(frames, instrs)
      BY <2>1, <3>1, B!FinishedGraph, BuilderAssumption
    <3>3. B!StoresOf(list) = B!StoresUpTo(ast)[B!Completed(frames)]
      BY <2>2, <2>6, <3>2, B!ListStores, BuilderAssumption
    <3>4. B!StoresOf(list) = B!SourceStores(ast)
      BY <3>2, <3>3 DEF B!SourceStores
    <3>. QED
      BY <2>1, <2>5, <3>4, SameMeaning
  <2>. QED
    BY <2>1, <2>3, <2>4, <2>7
<1>. QED
  BY <1>1, MainInvHolds, PTL
=============================================================================
