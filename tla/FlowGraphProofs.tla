--------------------------- MODULE FlowGraphProofs ---------------------------
(***************************************************************************)
(* For every set of bodies and every stack: the visitors are well typed,   *)
(* lose no instruction, pair every temporary with the call that waits for  *)
(* it, and leave a list that does what the source says.                    *)
(*                                                                         *)
(* The argument: the active calls form one path of the tree, each waiting  *)
(* at a stage that says what the next one is (Nesting); the fragments that *)
(* they hold tile the instructions in the order of creation (Fragments);   *)
(* and the calls of operators that have their left operand hold the        *)
(* temporaries from 0 up (Temps).                                          *)
(***************************************************************************)
EXTENDS FlowGraphProperties, FiniteSetTheorems, SequenceTheorems, NaturalsInduction, WellFoundedInduction, TLAPS

(* The stack of calls and the instructions, for n instructions.            *)
Calls(n) ==
  [visitor : {"Effect", "Value"}, node : NodeType,
   stage : {"enter", "child", "value", "left", "right", "done"}, next : Nat \ {0},
   entry : 0 .. n, exit : 0 .. n, left : 0 .. n, result : 0 .. n]

LeafPlaces(body, i) == { body[i].value.leaves[j] : j \in DOMAIN body[i].value.leaves }

OperatorPlaces(body, i) ==
  { OperatorPlace(body[i].value.ops[j]) : j \in DOMAIN body[i].value.leaves }

Ats(body) ==
  {NoPlace} \cup { body[i].dest : i \in DOMAIN body }
  \cup UNION { LeafPlaces(body, i) \cup OperatorPlaces(body, i) : i \in DOMAIN body }

Instrs(A, n) ==
  [op : Opcodes, at : A, inputs : Seq(0 .. n), temp : Int, next : 0 .. n, prev : 0 .. n]

Typed ==
  /\ pc \in {"Building", "Done", "Crashed"}
  /\ ast \in Bodies
  /\ frames \in Seq(Calls(Len(code))) /\ Len(frames) \in 1 .. StackLimit
  /\ code \in Seq(Instrs(Ats(ast), Len(code))) /\ code # <<>>
  /\ temp_count_ \in Int

-----------------------------------------------------------------------------
(* The active calls are a path of the tree. *)
IsStatement(node) == node.stmt \in DOMAIN ast /\ node = StatementNode(node.stmt)

IsExpr(node) ==
  /\ node.stmt \in DOMAIN ast
  /\ node.leaf \in DOMAIN ast[node.stmt].value.leaves
  /\ node \in {LeafNode(node.stmt, node.leaf), ExprNode(node.stmt, node.leaf)}

(* caller has called callee and waits for it. *)
WaitsFor(caller, callee) ==
  \/ caller.node.kind = "Sequence" /\ caller.stage = "child"
  \/ caller.node.kind \in {"Return", "StoreLocal"} /\ caller.stage = "value"
  \/ caller.node.kind = "BinaryOp" /\ caller.stage = "right"
  \/ caller.node.kind = "BinaryOp" /\ caller.stage = "left" /\ callee.node.kind # "BinaryOp"

IsInnermost(frame) ==
  \/ frame.stage = "enter"
  \/ frame.stage = "done" /\ frame.node.kind \notin {"Sequence", "Return"}

(* What the k-th call visits. *)
VisitsNode(frs, k) ==
  IF k = 1 THEN frs[1].visitor = "Effect" /\ frs[1].node = SequenceNode
  ELSE IF k = 2 THEN frs[2].visitor = "Effect" /\ IsStatement(frs[2].node)
  ELSE /\ frs[k].visitor = "Value"
       /\ IF frs[2].node.kind = "Return" THEN frs[k].node = frs[2].node
          ELSE IsExpr(frs[k].node)

Nesting(frs) ==
  /\ \A k \in 1 .. Len(frs) : VisitsNode(frs, k)
  /\ \A k \in 1 .. Len(frs) - 1 : WaitsFor(frs[k], frs[k + 1])
  /\ IsInnermost(frs[Len(frs)])

-----------------------------------------------------------------------------
(* The fragments that the calls hold. *)
Covers(frame, i) == frame.entry # Nil /\ frame.entry <= i /\ i <= frame.exit

(* An instruction between two neighbours, Nil where the list ends.         *)
Linked(instr, i, first, last) ==
  /\ instr.prev = IF i = first THEN Nil ELSE i - 1
  /\ instr.next = IF i = last THEN Nil ELSE i + 1

Bounded(frs, n) ==
  \A k \in 1 .. Len(frs) :
    IF frs[k].entry = Nil THEN frs[k].exit = Nil
    ELSE Normal < frs[k].entry /\ frs[k].entry <= frs[k].exit /\ frs[k].exit <= n

Ordered(frs) ==
  \A k, l \in 1 .. Len(frs) :
    k < l /\ frs[k].entry # Nil /\ frs[l].entry # Nil => frs[k].exit < frs[l].entry

HoldsFragmentOf(frame, cd, i) ==
  Covers(frame, i) /\ Linked(cd[i], i, frame.entry, frame.exit)

Fragments(frs, cd) ==
  /\ Bounded(frs, Len(cd))
  /\ Ordered(frs)
  /\ Linked(cd[Normal], Normal, Normal, Normal)
  /\ \A i \in Normal + 1 .. Len(cd) :
       \E k \in 1 .. Len(frs) : HoldsFragmentOf(frs[k], cd, i)

Listed(cd) == \A i \in 1 .. Len(cd) : Linked(cd[i], i, 1, Len(cd))

-----------------------------------------------------------------------------
(* The temporaries. *)

(* How many calls hold a left operand. *)
Waiting(frs) ==
  IF Len(frs) < 3 \/ frs[2].node.kind = "Return" THEN 0
  ELSE IF frs[Len(frs) - 1].stage = "left" THEN Len(frs) - 4 ELSE Len(frs) - 3

Returned(frs) == frs[Len(frs)].stage = "done" /\ frs[Len(frs)].visitor = "Value"

Temps(frs, cd, count) ==
  /\ \A k \in 3 .. Len(frs) : frs[k].stage = "right" =>
       frs[k].left \in DOMAIN cd /\ cd[frs[k].left].temp = k - 3
  /\ Returned(frs) => /\ frs[Len(frs)].result \in DOMAIN cd
                      /\ cd[frs[Len(frs)].result].temp = Waiting(frs)
  /\ count = Waiting(frs) + (IF Returned(frs) THEN 1 ELSE 0)
  /\ \A k \in 1 .. Len(frs) : k <= 2 => frs[k].result = Nil

-----------------------------------------------------------------------------
Inv ==
  /\ Typed
  /\ Nesting(frames)
  /\ IF pc = "Done" THEN Len(frames) = 1 /\ Listed(code) /\ Bounded(frames, Len(code))
     ELSE Fragments(frames, code)
  /\ ~LoadsField(ast) => Temps(frames, code, temp_count_)

-----------------------------------------------------------------------------
(* The shapes that the stack of calls takes. *)

(* The calls of frs below the m-th one, followed by f, or by f and its     *)
(* call g.                                                                 *)
Callers(frs, m) == SubSeq(frs, 1, m - 1)
IsReplaced(new, frs, m, f) == new = Append(Callers(frs, m), f)
IsPushed(new, frs, m, f, g) == new = Callers(frs, m) \o <<f, g>>

LEMMA CallersOf ==
  ASSUME NEW T, NEW frs \in Seq(T), NEW m \in 1 .. Len(frs)
  PROVE  /\ Callers(frs, m) \in Seq(T) /\ Len(Callers(frs, m)) = m - 1
         /\ \A k \in 1 .. m - 1 : Callers(frs, m)[k] = frs[k]
  BY DEF Callers

LEMMA CallReplaced ==
  ASSUME NEW T, NEW frs \in Seq(T), NEW m \in 1 .. Len(frs),
         NEW f \in T, NEW new, IsReplaced(new, frs, m, f)
  PROVE  /\ new \in Seq(T) /\ Len(new) = m
         /\ \A k \in 1 .. m - 1 : new[k] = frs[k]
         /\ new[m] = f
<1>1. PICK b \in Seq(T) : b = Callers(frs, m)
  BY CallersOf
<1>2. Len(b) = m - 1 /\ \A k \in 1 .. m - 1 : b[k] = frs[k]
  BY <1>1, CallersOf
<1>. QED
  BY <1>1, <1>2 DEF IsReplaced

LEMMA CallPushed ==
  ASSUME NEW T, NEW frs \in Seq(T), NEW m \in 1 .. Len(frs),
         NEW f \in T, NEW g \in T, NEW new, IsPushed(new, frs, m, f, g)
  PROVE  /\ new \in Seq(T) /\ Len(new) = m + 1
         /\ \A k \in 1 .. m - 1 : new[k] = frs[k]
         /\ new[m] = f /\ new[m + 1] = g
<1>1. PICK b \in Seq(T) : b = Callers(frs, m)
  BY CallersOf
<1>2. Len(b) = m - 1 /\ \A k \in 1 .. m - 1 : b[k] = frs[k]
  BY <1>1, CallersOf
<1>3. <<f, g>> \in Seq(T)
  OBVIOUS
<1>4. PICK pair \in Seq(T) : pair = <<f, g>>
  BY <1>3
<1>5. Len(pair) = 2 /\ pair[1] = f /\ pair[2] = g
  BY <1>4
<1>6. new = b \o pair
  BY <1>1, <1>4 DEF IsPushed
<1>7. /\ new \in Seq(T) /\ Len(new) = m + 1
      /\ \A i \in 1 .. m + 1 : new[i] = IF i <= m - 1 THEN b[i] ELSE pair[i - (m - 1)]
  <2>1. /\ new \in Seq(T) /\ Len(new) = Len(b) + Len(pair)
        /\ \A i \in 1 .. Len(b) + Len(pair) :
             new[i] = IF i <= Len(b) THEN b[i] ELSE pair[i - Len(b)]
    BY <1>6, ConcatProperties
  <2>2. Len(b) + Len(pair) = m + 1
    BY <1>2, <1>5
  <2>. QED
    BY <1>2, <2>1, <2>2
<1>8. \A k \in 1 .. m - 1 : new[k] = frs[k]
  BY <1>2, <1>7
<1>9. new[m] = f /\ new[m + 1] = g
  <2>1. new[m] = pair[m - (m - 1)] /\ new[m + 1] = pair[m + 1 - (m - 1)]
    BY <1>7
  <2>2. m - (m - 1) = 1 /\ m + 1 - (m - 1) = 2
    OBVIOUS
  <2>. QED
    BY <1>5, <2>1, <2>2
<1>. QED
  BY <1>7, <1>8, <1>9

LEMMA NextSet ==
  ASSUME NEW A, NEW n \in Nat, NEW r \in Instrs(A, n), NEW v \in 0 .. n
  PROVE  /\ [r EXCEPT !.next = v] \in Instrs(A, n) /\ [r EXCEPT !.next = v].next = v
         /\ [r EXCEPT !.next = v].prev = r.prev /\ [r EXCEPT !.next = v].temp = r.temp
  BY DEF Instrs

LEMMA PrevSet ==
  ASSUME NEW A, NEW n \in Nat, NEW r \in Instrs(A, n), NEW v \in 0 .. n
  PROVE  /\ [r EXCEPT !.prev = v] \in Instrs(A, n) /\ [r EXCEPT !.prev = v].prev = v
         /\ [r EXCEPT !.prev = v].next = r.next /\ [r EXCEPT !.prev = v].temp = r.temp
  BY DEF Instrs

(* Instruction::Link touches one next and one prev. *)
LEMMA LinkKeeps ==
  ASSUME NEW A, NEW n \in Nat, NEW cd \in Seq(Instrs(A, n)),
         NEW one \in 1 .. Len(cd), NEW two \in 1 .. Len(cd), one <= n, two <= n
  PROVE  /\ Link(cd, one, two) \in Seq(Instrs(A, n))
         /\ Len(Link(cd, one, two)) = Len(cd)
         /\ \A i \in 1 .. Len(cd) :
              /\ Link(cd, one, two)[i].next = IF i = one THEN two ELSE cd[i].next
              /\ Link(cd, one, two)[i].prev = IF i = two THEN one ELSE cd[i].prev
              /\ Link(cd, one, two)[i].temp = cd[i].temp
<1>. DEFINE I == Instrs(A, n)
            r1 == [cd[one] EXCEPT !.next = two]
            cd1 == [cd EXCEPT ![one] = r1]
            r2 == [cd1[two] EXCEPT !.prev = one]
<1>0. cd[one] \in I
  OBVIOUS
<1>1. r1 \in I /\ r1.next = two /\ r1.prev = cd[one].prev /\ r1.temp = cd[one].temp
  BY <1>0, NextSet
<1>. HIDE DEF r1
<1>2. /\ cd1 \in Seq(I) /\ Len(cd1) = Len(cd)
      /\ \A i \in 1 .. Len(cd) : cd1[i] = IF i = one THEN r1 ELSE cd[i]
  BY <1>1
<1>. HIDE DEF cd1
<1>3. r2 \in I /\ r2.next = cd1[two].next /\ r2.prev = one /\ r2.temp = cd1[two].temp
  BY <1>2, PrevSet
<1>4. Link(cd, one, two) = [cd1 EXCEPT ![two] = r2]
  BY DEF Link, cd1, r1
<1>. HIDE DEF r2
<1>5. /\ Link(cd, one, two) \in Seq(I) /\ Len(Link(cd, one, two)) = Len(cd)
      /\ \A i \in 1 .. Len(cd) : Link(cd, one, two)[i] = IF i = two THEN r2 ELSE cd1[i]
  BY <1>2, <1>3, <1>4
<1>. QED
  BY <1>1, <1>2, <1>3, <1>5

(* cd2 is cd with instruction one linked to instruction two. *)
IsLinkOf(cd2, cd, one, two) ==
  /\ Len(cd2) = Len(cd)
  /\ \A i \in 1 .. Len(cd) :
       /\ cd2[i].next = IF i = one THEN two ELSE cd[i].next
       /\ cd2[i].prev = IF i = two THEN one ELSE cd[i].prev

LEMMA LinkMade ==
  ASSUME NEW A, NEW n \in Nat, NEW cd \in Seq(Instrs(A, n)),
         NEW one \in 1 .. Len(cd), NEW two \in 1 .. Len(cd), one <= n, two <= n
  PROVE  IsLinkOf(Link(cd, one, two), cd, one, two)
BY LinkKeeps DEF IsLinkOf

-----------------------------------------------------------------------------
(* Calls and instructions that a step makes *)

Stages == {"enter", "child", "value", "left", "right", "done"}

LEMMA StageSet ==
  ASSUME NEW n \in Nat, NEW f \in Calls(n), NEW s \in Stages
  PROVE  LET g == [f EXCEPT !.stage = s]
         IN  /\ g \in Calls(n) /\ g.stage = s
             /\ g.visitor = f.visitor /\ g.node = f.node /\ g.next = f.next
             /\ g.entry = f.entry /\ g.exit = f.exit /\ g.left = f.left /\ g.result = f.result
  BY DEF Calls, Stages

LEMMA ChildSet ==
  ASSUME NEW n \in Nat, NEW f \in Calls(n)
  PROVE  LET g == [f EXCEPT !.stage = "child", !.next = @ + 1]
         IN  /\ g \in Calls(n) /\ g.stage = "child" /\ g.visitor = f.visitor /\ g.node = f.node
             /\ g.entry = f.entry /\ g.exit = f.exit /\ g.left = f.left /\ g.result = f.result
<1>1. f.next + 1 \in Nat \ {0}
  BY DEF Calls
<1>. DEFINE nx == f.next + 1
<1>. HIDE DEF nx
<1>2. LET g == [f EXCEPT !.stage = "child", !.next = nx]
      IN  /\ g \in Calls(n) /\ g.stage = "child" /\ g.visitor = f.visitor /\ g.node = f.node
          /\ g.entry = f.entry /\ g.exit = f.exit /\ g.left = f.left /\ g.result = f.result
  BY <1>1 DEF Calls, nx
<1>. QED
  BY <1>2 DEF nx

IsRight(g, f, left) == g = [f EXCEPT !.stage = "right", !.left = left]

LEMMA LeftSet ==
  ASSUME NEW n \in Nat, NEW f \in Calls(n), NEW v \in 0 .. n, NEW g, IsRight(g, f, v)
  PROVE  /\ g \in Calls(n) /\ g.stage = "right" /\ g.left = v
         /\ g.visitor = f.visitor /\ g.node = f.node
         /\ g.entry = f.entry /\ g.exit = f.exit /\ g.result = f.result
  BY DEF Calls, IsRight

IsDone(g, f, entry, exit, result) ==
  g = [f EXCEPT !.entry = entry, !.exit = exit, !.stage = "done", !.result = result]

LEMMA DoneSet ==
  ASSUME NEW n \in Nat, NEW f \in Calls(n), NEW e \in 0 .. n, NEW x \in 0 .. n, NEW r \in 0 .. n,
         NEW g, IsDone(g, f, e, x, r)
  PROVE  /\ g \in Calls(n) /\ g.stage = "done" /\ g.result = r /\ g.entry = e /\ g.exit = x
         /\ g.visitor = f.visitor /\ g.node = f.node /\ g.left = f.left
  BY DEF Calls, IsDone

LEMMA NewFrameTyped ==
  ASSUME NEW n \in Nat, NEW v \in {"Effect", "Value"}, NEW node \in NodeType
  PROVE  LET g == NewFrame(v, node)
         IN  /\ g \in Calls(n) /\ g.stage = "enter" /\ g.visitor = v /\ g.node = node
             /\ g.entry = Nil /\ g.exit = Nil /\ g.result = Nil
  BY DEF Calls, NewFrame, Nil

LEMMA AppendVisitorTyped ==
  ASSUME NEW n \in Nat, NEW f \in Calls(n), NEW o \in Calls(n)
  PROVE  LET g == AppendVisitor(f, o)
         IN  /\ g \in Calls(n)
             /\ g.visitor = f.visitor /\ g.node = f.node /\ g.next = f.next
             /\ g.stage = f.stage /\ g.left = f.left /\ g.result = f.result
  BY DEF Calls, AppendVisitor

LEMMA CallsGrow ==
  ASSUME NEW n \in Nat, NEW frs \in Seq(Calls(n))
  PROVE  frs \in Seq(Calls(n + 1))
<1>1. ASSUME NEW f \in Calls(n) PROVE f \in Calls(n + 1)
  BY DEF Calls
<1>. QED
  BY <1>1

LEMMA InstrsGrow ==
  ASSUME NEW A, NEW n \in Nat, NEW cd \in Seq(Instrs(A, n))
  PROVE  cd \in Seq(Instrs(A, n + 1))
<1>1. ASSUME NEW r \in Instrs(A, n) PROVE r \in Instrs(A, n + 1)
  <2>1. r.inputs \in Seq(0 .. n + 1)
    <3>1. r.inputs \in Seq(0 .. n) /\ 0 .. n \subseteq 0 .. n + 1
      BY DEF Instrs
    <3>. QED
      BY <3>1
  <2>. QED
    BY <2>1 DEF Instrs
<1>. QED
  BY <1>1

(* The instruction list after ReturnDefinition. *)
LEMMA CodeReturned ==
  ASSUME NEW A, NEW n \in Nat \ {0}, NEW cd \in Seq(Instrs(A, n)), Len(cd) = n,
         NEW instr \in Instrs(A, n + 1), instr.next = Nil, instr.prev = Nil,
         NEW empty \in BOOLEAN, NEW exit, ~empty => exit \in 1 .. n
  PROVE  LET grown == Append(cd, instr)
             new == IF empty THEN grown ELSE Link(grown, exit, n + 1)
         IN  /\ new \in Seq(Instrs(A, n + 1)) /\ Len(new) = n + 1
             /\ \A i \in 1 .. n :
                  /\ new[i].prev = cd[i].prev
                  /\ new[i].next = IF ~empty /\ i = exit THEN n + 1 ELSE cd[i].next
                  /\ new[i].temp = cd[i].temp
             /\ new[n + 1].next = Nil
             /\ new[n + 1].prev = IF empty THEN Nil ELSE exit
             /\ new[n + 1].temp = instr.temp
<1>. DEFINE grown == Append(cd, instr)
<1>1. cd \in Seq(Instrs(A, n + 1))
  BY InstrsGrow
<1>2. /\ grown \in Seq(Instrs(A, n + 1)) /\ Len(grown) = n + 1
      /\ \A i \in 1 .. n : grown[i] = cd[i]
      /\ grown[n + 1] = instr
  BY <1>1
<1>. HIDE DEF grown
<1>3. CASE empty
  BY <1>2, <1>3 DEF grown
<1>4. CASE ~empty
  <2>. DEFINE new == Link(grown, exit, n + 1)
  <2>1. /\ new \in Seq(Instrs(A, n + 1)) /\ Len(new) = n + 1
        /\ \A i \in 1 .. n + 1 :
             /\ new[i].next = IF i = exit THEN n + 1 ELSE grown[i].next
             /\ new[i].prev = IF i = n + 1 THEN exit ELSE grown[i].prev
             /\ new[i].temp = grown[i].temp
    <3>1. n + 1 \in Nat /\ exit \in 1 .. Len(grown) /\ n + 1 \in 1 .. Len(grown)
          /\ exit <= n + 1 /\ exit # n + 1
      BY <1>2, <1>4
    <3>. DEFINE m == n + 1
    <3>2. grown \in Seq(Instrs(A, m)) /\ m \in Nat /\ exit \in 1 .. Len(grown)
          /\ m \in 1 .. Len(grown) /\ exit <= m /\ Len(grown) = m
      BY <1>2, <3>1
    <3>. HIDE DEF m
    <3>3. LET lnk == Link(grown, exit, m)
          IN  /\ lnk \in Seq(Instrs(A, m)) /\ Len(lnk) = m
              /\ \A i \in 1 .. m :
                  /\ lnk[i].next = IF i = exit THEN m ELSE grown[i].next
                  /\ lnk[i].prev = IF i = m THEN exit ELSE grown[i].prev
                  /\ lnk[i].temp = grown[i].temp
      BY SMTT(30), <3>2, LinkKeeps
    <3>. QED
      BY <3>3 DEF m
  <2>2. \A i \in 1 .. n : i \in 1 .. n + 1 /\ i # n + 1
    OBVIOUS
  <2>3. exit # n + 1 /\ n + 1 \in 1 .. n + 1
    BY <1>4
  <2>. HIDE DEF new
  <2>. QED
    BY <1>2, <1>4, <2>1, <2>2, <2>3 DEF grown, new
<1>. QED
  BY <1>3, <1>4

-----------------------------------------------------------------------------
(* Nesting *)

LEMMA CallTyped ==
  ASSUME NEW n \in Nat, NEW frs \in Seq(Calls(n)), NEW k \in 1 .. Len(frs)
  PROVE  /\ frs[k] \in Calls(n)
         /\ frs[k].entry \in Nat /\ frs[k].exit \in Nat
<1>1. frs[k] \in Calls(n)
  OBVIOUS
<1>. QED
  BY <1>1 DEF Calls

LEMMA NestingGrows ==
  ASSUME NEW frs, Len(frs) \in Nat, NEW m \in 1 .. Len(frs), Nesting(frs),
         NEW new, Len(new) = m + 1, \A k \in 1 .. m - 1 : new[k] = frs[k],
         new[m].visitor = frs[m].visitor, new[m].node = frs[m].node,
         WaitsFor(new[m], new[m + 1]), VisitsNode(new, m + 1), IsInnermost(new[m + 1])
  PROVE  Nesting(new)
<1>1. ASSUME NEW k \in 1 .. m PROVE VisitsNode(new, k)
  <2>1. VisitsNode(frs, k) /\ k \in 1 .. Len(frs)
    BY DEF Nesting
  <2>2. new[k].visitor = frs[k].visitor /\ new[k].node = frs[k].node
    OBVIOUS
  <2>3. CASE k = 1
    BY <2>1, <2>2, <2>3 DEF VisitsNode
  <2>4. CASE k = 2
    BY <2>1, <2>2, <2>4 DEF VisitsNode
  <2>5. CASE k > 2
    <3>1. k # 1 /\ k # 2 /\ new[2].node = frs[2].node
      BY <2>5
    <3>. QED
      BY <2>1, <2>2, <3>1 DEF VisitsNode
  <2>. QED
    BY <2>3, <2>4, <2>5
<1>2. ASSUME NEW k \in 1 .. m - 1 PROVE WaitsFor(new[k], new[k + 1])
  <2>1. WaitsFor(frs[k], frs[k + 1]) /\ new[k] = frs[k]
    BY DEF Nesting
  <2>2. new[k + 1].node = frs[k + 1].node
    OBVIOUS
  <2>. QED
    BY <2>1, <2>2 DEF WaitsFor
<1>. QED
  BY <1>1, <1>2 DEF Nesting

LEMMA NestingShrinks ==
  ASSUME NEW frs, Len(frs) \in Nat, NEW m \in 1 .. Len(frs), Nesting(frs),
         NEW new, Len(new) = m, \A k \in 1 .. m - 1 : new[k] = frs[k],
         new[m].visitor = frs[m].visitor, new[m].node = frs[m].node,
         IsInnermost(new[m])
  PROVE  Nesting(new)
<1>1. ASSUME NEW k \in 1 .. m PROVE VisitsNode(new, k)
  <2>1. VisitsNode(frs, k) /\ k \in 1 .. Len(frs)
    BY DEF Nesting
  <2>2. new[k].visitor = frs[k].visitor /\ new[k].node = frs[k].node
    OBVIOUS
  <2>3. CASE k = 1
    BY <2>1, <2>2, <2>3 DEF VisitsNode
  <2>4. CASE k = 2
    BY <2>1, <2>2, <2>4 DEF VisitsNode
  <2>5. CASE k > 2
    <3>1. k # 1 /\ k # 2 /\ new[2].node = frs[2].node
      BY <2>5
    <3>. QED
      BY <2>1, <2>2, <3>1 DEF VisitsNode
  <2>. QED
    BY <2>3, <2>4, <2>5
<1>2. ASSUME NEW k \in 1 .. m - 1 PROVE WaitsFor(new[k], new[k + 1])
  <2>1. WaitsFor(frs[k], frs[k + 1]) /\ new[k] = frs[k]
    BY DEF Nesting
  <2>2. new[k + 1].node = frs[k + 1].node
    OBVIOUS
  <2>. QED
    BY <2>1, <2>2 DEF WaitsFor
<1>. QED
  BY <1>1, <1>2 DEF Nesting

-----------------------------------------------------------------------------
(* Fragments *)

(* A frame that changes neither its entry nor its exit, and a new frame    *)
(* that is empty, leave the fragments alone.                               *)
LEMMA FragmentsKept ==
  ASSUME NEW n \in Nat, NEW frs \in Seq(Calls(n)), NEW cd, Fragments(frs, cd), Len(cd) \in Nat,
         NEW new, Len(new) \in Nat, Len(new) >= Len(frs),
         \A k \in 1 .. Len(frs) : new[k].entry = frs[k].entry /\ new[k].exit = frs[k].exit,
         \A k \in Len(frs) + 1 .. Len(new) : new[k].entry = Nil /\ new[k].exit = Nil
  PROVE  Fragments(new, cd)
<1>0. \A k \in 1 .. Len(new) : k \in 1 .. Len(frs) \/ k \in Len(frs) + 1 .. Len(new)
  OBVIOUS
<1>1. ASSUME NEW i \in Normal + 1 .. Len(cd)
      PROVE  \E k \in 1 .. Len(new) : HoldsFragmentOf(new[k], cd, i)
  <2>1. PICK k \in 1 .. Len(frs) : HoldsFragmentOf(frs[k], cd, i)
    BY DEF Fragments
  <2>2. HoldsFragmentOf(new[k], cd, i) /\ k \in 1 .. Len(new)
    BY <2>1 DEF HoldsFragmentOf, Covers
  <2>. QED
    BY <2>2
<1>2. Bounded(new, Len(cd))
  BY <1>0 DEF Fragments, Bounded
<1>3. Ordered(new)
  BY <1>0 DEF Fragments, Ordered
<1>. QED
  BY <1>1, <1>2, <1>3 DEF Fragments

(* EffectVisitor::Append joins two fragments that are neighbours. *)
LEMMA FragmentsMerged ==
  ASSUME NEW n \in Nat, NEW frs \in Seq(Calls(n)), Len(frs) > 1,
         NEW A, NEW cd \in Seq(Instrs(A, n)), Len(cd) = n, cd # <<>>, Fragments(frs, cd),
         NEW new, Len(new) = Len(frs) - 1,
         NEW caller \in Calls(n), caller = frs[Len(frs) - 1],
         NEW top \in Calls(n), top = frs[Len(frs)],
         \A k \in 1 .. Len(frs) - 2 :
           new[k].entry = frs[k].entry /\ new[k].exit = frs[k].exit,
         new[Len(new)].entry = AppendVisitor(caller, top).entry,
         new[Len(new)].exit = AppendVisitor(caller, top).exit,
         NEW cd2, cd2 = IF IsEmpty(caller) \/ IsEmpty(top) THEN cd
                        ELSE Link(cd, caller.exit, top.entry)
  PROVE  Fragments(new, cd2)
<1>. DEFINE L == Len(frs)
            last == new[L - 1]
<1>0. L \in Nat /\ L - 1 \in 1 .. L /\ L \in 1 .. L /\ Len(new) = L - 1
  OBVIOUS
<1>a. \A k \in 1 .. L : k = L \/ k = L - 1 \/ k \in 1 .. L - 2
  OBVIOUS
<1>b. /\ caller.entry \in Nat /\ caller.exit \in Nat
      /\ top.entry \in Nat /\ top.exit \in Nat
  BY <1>0, CallTyped
<1>c. \A k \in 1 .. L : frs[k].entry \in Nat /\ frs[k].exit \in Nat
  BY CallTyped
<1>1. CASE IsEmpty(top)
  <2>1. last.entry = caller.entry /\ last.exit = caller.exit /\ cd2 = cd
    BY <1>1 DEF AppendVisitor
  <2>3. \A k \in 1 .. L - 1 : new[k].entry = frs[k].entry /\ new[k].exit = frs[k].exit
    BY <2>1, <1>0, <1>a
  <2>2. ASSUME NEW i \in Normal + 1 .. Len(cd)
        PROVE  \E k \in 1 .. L - 1 : HoldsFragmentOf(new[k], cd, i)
    <3>1. PICK k \in 1 .. L : HoldsFragmentOf(frs[k], cd, i)
      BY DEF Fragments
    <3>2. k \in 1 .. L - 1
      BY <1>1, <3>1 DEF HoldsFragmentOf, Covers, IsEmpty
    <3>3. new[k].entry = frs[k].entry /\ new[k].exit = frs[k].exit
      BY <2>3, <3>2
    <3>. QED
      BY <3>1, <3>2, <3>3 DEF HoldsFragmentOf, Covers
  <2>4. Bounded(new, Len(cd))
    BY <1>0, <2>3 DEF Fragments, Bounded
  <2>5. Ordered(new)
    BY SMTT(30), <1>0, <2>3 DEF Fragments, Ordered
  <2>. QED
    BY <1>0, <2>1, <2>2, <2>4, <2>5 DEF Fragments
<1>2. CASE ~IsEmpty(top) /\ IsEmpty(caller)
  <2>1. last.entry = top.entry /\ last.exit = top.exit /\ cd2 = cd
    BY <1>2 DEF AppendVisitor, Calls
  <2>2. ASSUME NEW i \in Normal + 1 .. Len(cd)
        PROVE  \E k \in 1 .. L - 1 : HoldsFragmentOf(new[k], cd, i)
    <3>1. PICK k \in 1 .. L : HoldsFragmentOf(frs[k], cd, i)
      BY DEF Fragments
    <3>2. k # L - 1
      BY <1>2, <3>1 DEF HoldsFragmentOf, Covers, IsEmpty
    <3>3. CASE k = L
      <4>1. HoldsFragmentOf(last, cd, i)
        BY <2>1, <3>1, <3>3, <1>0 DEF HoldsFragmentOf, Covers
      <4>. QED
        BY <4>1, <1>0
    <3>4. CASE k \in 1 .. L - 2
      <4>1. HoldsFragmentOf(new[k], cd, i) /\ k \in 1 .. L - 1
        BY <3>1, <3>4, <1>0 DEF HoldsFragmentOf, Covers
      <4>. QED
        BY <4>1
    <3>. QED
      BY <1>a, <3>2, <3>3, <3>4
  <2>3. \A k \in 1 .. L - 1 : k = L - 1 \/ k \in 1 .. L - 2
    BY <1>0
  <2>4. Bounded(new, Len(cd))
    BY <1>0, <2>1, <2>3 DEF Fragments, Bounded
  <2>5. ASSUME NEW k \in 1 .. L - 1, NEW l \in 1 .. L - 1,
               k < l, new[k].entry # Nil, new[l].entry # Nil
        PROVE  new[k].exit < new[l].entry
    <3>1. k \in 1 .. L - 2 /\ new[k].entry = frs[k].entry /\ new[k].exit = frs[k].exit
      BY <2>5, <1>0
    <3>2. CASE l = L - 1
      BY <2>5, <3>1, <3>2, <2>1, <1>0 DEF Fragments, Ordered
    <3>3. CASE l \in 1 .. L - 2
      BY SMTT(30), <2>5, <3>1, <3>3, <1>0 DEF Fragments, Ordered
    <3>. QED
      BY <2>3, <3>2, <3>3
  <2>6. Ordered(new)
    BY <1>0, <2>5 DEF Ordered
  <2>. QED
    BY <1>0, <2>1, <2>2, <2>4, <2>6 DEF Fragments
<1>3. CASE ~IsEmpty(top) /\ ~IsEmpty(caller)
  <2>1. last.entry = caller.entry /\ last.exit = top.exit
    BY <1>3 DEF AppendVisitor, Calls
  <2>2. /\ Normal < caller.entry /\ caller.entry <= caller.exit
        /\ caller.exit < top.entry /\ top.entry <= top.exit /\ top.exit <= n
    <3>1. Normal < caller.entry /\ caller.entry <= caller.exit
      BY <1>0, <1>3 DEF Fragments, Bounded, IsEmpty
    <3>2. top.entry <= top.exit /\ top.exit <= n
      BY <1>0, <1>3 DEF Fragments, Bounded, IsEmpty
    <3>3. caller.exit < top.entry
      BY <1>0, <1>3 DEF Fragments, Ordered, IsEmpty
    <3>. QED
      BY <3>1, <3>2, <3>3
  <2>4. top.entry = caller.exit + 1
    <3>1. caller.exit + 1 \in Normal + 1 .. Len(cd)
      BY <2>2, <1>b DEF Normal
    <3>2. PICK k \in 1 .. L : Covers(frs[k], caller.exit + 1)
      BY <3>1 DEF Fragments, HoldsFragmentOf
    <3>3. k # L - 1
      BY <3>2, <1>b DEF Covers
    <3>4. k \notin 1 .. L - 2
      <4>. SUFFICES ASSUME k \in 1 .. L - 2 PROVE FALSE
        OBVIOUS
      <4>1. frs[k].exit < caller.entry
        BY <1>0, <1>3, <3>2 DEF Fragments, Ordered, Covers, IsEmpty
      <4>2. caller.exit + 1 <= frs[k].exit
        BY <3>2 DEF Covers
      <4>. QED
        BY SMTT(30), <4>1, <4>2, <2>2, <1>b, <1>c
    <3>5. k = L
      BY <3>3, <3>4, <1>a
    <3>6. top.entry <= caller.exit + 1
      BY <3>2, <3>5 DEF Covers
    <3>. QED
      BY <3>6, <2>2, <1>b
  <2>5. /\ Len(cd2) = Len(cd)
        /\ \A i \in 1 .. Len(cd) :
             /\ cd2[i].next = IF i = caller.exit THEN top.entry ELSE cd[i].next
             /\ cd2[i].prev = IF i = top.entry THEN caller.exit ELSE cd[i].prev
    <3>1. cd2 = Link(cd, caller.exit, top.entry)
      BY <1>3
    <3>2. /\ caller.exit \in 1 .. Len(cd) /\ top.entry \in 1 .. Len(cd)
          /\ caller.exit <= n /\ top.entry <= n
      BY <2>2, <1>b DEF Normal
    <3>3. PICK one \in 1 .. Len(cd), two \in 1 .. Len(cd) :
            one = caller.exit /\ two = top.entry /\ one <= n /\ two <= n
      BY <3>2
    <3>4. IsLinkOf(Link(cd, one, two), cd, one, two)
      BY <3>3, LinkMade
    <3>5. IsLinkOf(cd2, cd, caller.exit, top.entry)
      BY <3>1, <3>3, <3>4, Zenon
    <3>. QED
      BY <3>5, Zenon DEF IsLinkOf
  <2>6. Bounded(new, Len(cd2))
    <3>1. Nil = 0 /\ Normal = 1
      BY DEF Nil, Normal
    <3>2. Normal < last.entry /\ last.entry <= last.exit /\ last.exit <= n /\ last.entry # Nil
      BY <2>1, <2>2, <1>b, <3>1
    <3>3. \A k \in 1 .. L - 1 : k = L - 1 \/ k \in 1 .. L - 2
      BY <1>0
    <3>. QED
      BY <1>0, <2>5, <3>2, <3>3 DEF Fragments, Bounded
  <2>7. ASSUME NEW k \in 1 .. L - 1, NEW l \in 1 .. L - 1,
               k < l, new[k].entry # Nil, new[l].entry # Nil
        PROVE  new[k].exit < new[l].entry
    <3>1. k \in 1 .. L - 2 /\ new[k].entry = frs[k].entry /\ new[k].exit = frs[k].exit
      BY <2>7, <1>0
    <3>2. new[l].entry = frs[l].entry /\ l \in 1 .. L /\ k \in 1 .. L
      BY <1>0, <2>1
    <3>. QED
      BY <2>7, <3>1, <3>2 DEF Fragments, Ordered
  <2>8. Linked(cd2[Normal], Normal, Normal, Normal)
    <3>1. Normal \in 1 .. Len(cd) /\ Normal # caller.exit /\ Normal # top.entry
      BY <2>2, <1>b DEF Normal
    <3>. QED
      BY <1>b, <2>5, <3>1 DEF Linked, Fragments
  <2>9. ASSUME NEW i \in Normal + 1 .. Len(cd)
        PROVE  \E k \in 1 .. L - 1 : HoldsFragmentOf(new[k], cd2, i)
    <3>0. i \in 1 .. Len(cd)
      BY DEF Normal
    <3>1. PICK k \in 1 .. L : HoldsFragmentOf(frs[k], cd, i)
      BY DEF Fragments
    <3>2. CASE k = L
      <4>1. top.entry <= i /\ i <= top.exit /\ Linked(cd[i], i, top.entry, top.exit)
        BY <3>1, <3>2 DEF HoldsFragmentOf, Covers
      <4>2. Covers(last, i)
        BY <4>1, <2>1, <2>2, <1>b, <1>3 DEF Covers, IsEmpty
      <4>3. Linked(cd2[i], i, last.entry, last.exit)
        <5>1. /\ cd2[i].next = IF i = caller.exit THEN top.entry ELSE cd[i].next
              /\ cd2[i].prev = IF i = top.entry THEN caller.exit ELSE cd[i].prev
          BY <2>5, <3>0
        <5>2. cd2[i].next = IF i = last.exit THEN Nil ELSE i + 1
          BY <4>1, <2>1, <2>2, <1>b, <2>4, <5>1 DEF Linked
        <5>3. cd2[i].prev = IF i = last.entry THEN Nil ELSE i - 1
          <6>1. i # last.entry
            BY <4>1, <2>1, <2>2, <1>b, <1>c, <3>0
          <6>2. CASE i = top.entry
            BY <6>1, <6>2, <2>2, <2>4, <1>b, <1>c, <5>1
          <6>3. CASE i # top.entry
            BY <6>1, <6>3, <4>1, <5>1 DEF Linked
          <6>. QED
            BY <6>2, <6>3
        <5>. QED
          BY <5>2, <5>3 DEF Linked
      <4>. QED
        BY <4>2, <4>3, <1>0 DEF HoldsFragmentOf
    <3>3. CASE k = L - 1
      <4>1. caller.entry <= i /\ i <= caller.exit /\ Linked(cd[i], i, caller.entry, caller.exit)
        BY <3>1, <3>3 DEF HoldsFragmentOf, Covers
      <4>2. Covers(last, i)
        BY <4>1, <2>1, <2>2, <1>b, <1>3 DEF Covers, IsEmpty
      <4>3. Linked(cd2[i], i, last.entry, last.exit)
        <5>1. /\ cd2[i].next = IF i = caller.exit THEN top.entry ELSE cd[i].next
              /\ cd2[i].prev = IF i = top.entry THEN caller.exit ELSE cd[i].prev
          BY <2>5, <3>0
        <5>2. cd2[i].next = IF i = last.exit THEN Nil ELSE i + 1
          BY <4>1, <2>1, <2>2, <1>b, <2>4, <5>1 DEF Linked
        <5>3. cd2[i].prev = IF i = last.entry THEN Nil ELSE i - 1
          BY <4>1, <2>1, <2>2, <1>b, <2>4, <5>1 DEF Linked
        <5>. QED
          BY <5>2, <5>3 DEF Linked
      <4>. QED
        BY <4>2, <4>3, <1>0 DEF HoldsFragmentOf
    <3>4. CASE k \in 1 .. L - 2
      <4>1. frs[k].exit < caller.entry
        BY <1>0, <1>3, <3>1, <3>4 DEF Fragments, Ordered, HoldsFragmentOf, Covers, IsEmpty
      <4>2. i <= frs[k].exit
        BY <3>1 DEF HoldsFragmentOf, Covers
      <4>3. i # caller.exit /\ i # top.entry
        BY SMTT(30), <4>1, <4>2, <1>b, <1>c, <2>2, <3>0
      <4>4. cd2[i].next = cd[i].next /\ cd2[i].prev = cd[i].prev
        BY <4>3, <2>5, <3>0
      <4>5. new[k].entry = frs[k].entry /\ new[k].exit = frs[k].exit /\ k \in 1 .. L - 1
        BY <3>4
      <4>. QED
        BY <3>1, <4>4, <4>5 DEF HoldsFragmentOf, Covers, Linked
    <3>. QED
      BY <1>a, <3>2, <3>3, <3>4
  <2>. QED
    BY <1>0, <2>5, <2>6, <2>7, <2>8, <2>9 DEF Fragments, Ordered
<1>. QED
  BY <1>1, <1>2, <1>3

(* The calls new are frs, but the innermost one's fragment, that of frame, *)
(* now ends with instruction n + 1, and that instruction is linked.        *)
Extends(new, frs, frame, n) ==
  /\ Len(new) = Len(frs)
  /\ \A k \in 1 .. Len(frs) - 1 :
       new[k].entry = frs[k].entry /\ new[k].exit = frs[k].exit
  /\ new[Len(new)].entry = IF IsEmpty(frame) THEN n + 1 ELSE frame.entry
  /\ new[Len(new)].exit = n + 1

LinksLast(cd2, cd, frame, n) ==
  /\ Len(cd2) = n + 1
  /\ \A i \in 1 .. n :
       /\ cd2[i].prev = cd[i].prev
       /\ cd2[i].next = IF ~IsEmpty(frame) /\ i = frame.exit THEN n + 1 ELSE cd[i].next
  /\ cd2[n + 1].next = Nil
  /\ cd2[n + 1].prev = IF IsEmpty(frame) THEN Nil ELSE frame.exit

(* Do, Add and Bind put a new instruction at the end of the innermost      *)
(* call's fragment, which is the last one.                                 *)
LEMMA FragmentsReturned ==
  ASSUME NEW n \in Nat \ {0}, NEW frs \in Seq(Calls(n)), Len(frs) > 0,
         NEW cd, Len(cd) = n, Fragments(frs, cd),
         NEW frame, frame = frs[Len(frs)],
         NEW new, Extends(new, frs, frame, n), NEW cd2, LinksLast(cd2, cd, frame, n)
  PROVE  Fragments(new, cd2)
<1>. DEFINE L == Len(frs)
            last == new[L]
<1>a. /\ Len(new) = L
      /\ \A k \in 1 .. L - 1 : new[k].entry = frs[k].entry /\ new[k].exit = frs[k].exit
      /\ last.entry = IF IsEmpty(frame) THEN n + 1 ELSE frame.entry
      /\ last.exit = n + 1
  BY DEF Extends
<1>b. /\ Len(cd2) = n + 1
      /\ \A i \in 1 .. n :
           /\ cd2[i].prev = cd[i].prev
           /\ cd2[i].next = IF ~IsEmpty(frame) /\ i = frame.exit THEN n + 1 ELSE cd[i].next
      /\ cd2[n + 1].next = Nil
      /\ cd2[n + 1].prev = IF IsEmpty(frame) THEN Nil ELSE frame.exit
  BY DEF LinksLast
<1>0. /\ L \in Nat /\ L \in 1 .. L /\ Len(new) = L /\ Nil = 0 /\ Normal = 1
      /\ \A k \in 1 .. L : k = L \/ k \in 1 .. L - 1
  BY <1>a DEF Nil, Normal
<1>1. \A k \in 1 .. L : frs[k].entry \in Nat /\ frs[k].exit \in Nat
  BY CallTyped
<1>2. frame.entry \in Nat /\ frame.exit \in Nat
  BY <1>a, <1>b, <1>0, <1>1
<1>3. ~IsEmpty(frame) => 1 < frame.entry /\ frame.entry <= frame.exit /\ frame.exit = n
  <2>. SUFFICES ASSUME ~IsEmpty(frame)
                PROVE  1 < frame.entry /\ frame.entry <= frame.exit /\ frame.exit = n
    OBVIOUS
  <2>1. 1 < frame.entry /\ frame.entry <= frame.exit /\ frame.exit <= n
    BY <1>a, <1>b, <1>0 DEF Fragments, Bounded, IsEmpty
  <2>2. n \in Normal + 1 .. Len(cd)
    BY <1>a, <1>b, <1>0, <1>2, <2>1
  <2>3. PICK k \in 1 .. L : Covers(frs[k], n)
    BY <1>a, <1>b, <2>2 DEF Fragments, HoldsFragmentOf
  <2>4. k \notin 1 .. L - 1
    <3>. SUFFICES ASSUME k \in 1 .. L - 1 PROVE FALSE
      OBVIOUS
    <3>1. frs[k].exit < frame.entry
      BY <1>a, <1>b, <1>0, <2>3 DEF Fragments, Ordered, Covers, IsEmpty
    <3>. QED
      BY <1>a, <1>b, <3>1, <2>1, <2>3, <1>1, <1>2 DEF Covers
  <2>5. k = L
    BY <1>a, <1>b, <1>0, <2>4
  <2>. QED
    BY <1>a, <1>b, <2>1, <2>3, <2>5, <1>2 DEF Covers
<1>4. /\ 1 < last.entry /\ last.entry <= n + 1 /\ last.exit = n + 1
      /\ last.entry \in Nat /\ last.entry # Nil
  BY <1>a, <1>b, <1>0, <1>2, <1>3
<1>5. Bounded(new, Len(cd2))
  <2>1. \A k \in 1 .. L - 1 : IF new[k].entry = Nil THEN new[k].exit = Nil
          ELSE Normal < new[k].entry /\ new[k].entry <= new[k].exit /\ new[k].exit <= n + 1
    <3>1. ASSUME NEW k \in 1 .. L - 1
          PROVE  IF frs[k].entry = Nil THEN frs[k].exit = Nil
                 ELSE /\ Normal < frs[k].entry /\ frs[k].entry <= frs[k].exit
                      /\ frs[k].exit <= n
      BY <1>a, <1>b, <1>0 DEF Fragments, Bounded
    <3>2. ASSUME NEW k \in 1 .. L - 1 PROVE frs[k].exit <= n => frs[k].exit <= n + 1
      <4>1. frs[k].exit \in Nat
        BY <1>0, <1>1
      <4>. QED
        BY <4>1
    <3>3. ASSUME NEW k \in 1 .. L - 1
          PROVE  new[k].entry = frs[k].entry /\ new[k].exit = frs[k].exit
      BY <1>a
    <3>. QED
      BY <3>1, <3>2, <3>3
  <2>2. IF last.entry = Nil THEN last.exit = Nil
        ELSE Normal < last.entry /\ last.entry <= last.exit /\ last.exit <= n + 1
    BY <1>a, <1>b, <1>0, <1>4
  <2>. QED
    BY <1>a, <1>b, <1>0, <2>1, <2>2 DEF Bounded
<1>6. ASSUME NEW k \in 1 .. L, NEW l \in 1 .. L, k < l, new[k].entry # Nil, new[l].entry # Nil
      PROVE  new[k].exit < new[l].entry
  <2>1. /\ k \in 1 .. L - 1 /\ new[k].entry = frs[k].entry /\ new[k].exit = frs[k].exit
        /\ frs[k].exit <= n
    <3>1. k \in 1 .. L - 1
      BY <1>a, <1>b, <1>6, <1>0
    <3>. QED
      BY <1>a, <1>b, <3>1, <1>6, <1>0 DEF Fragments, Bounded
  <2>2. CASE l \in 1 .. L - 1
    BY <1>a, <1>b, <1>6, <2>1, <2>2 DEF Fragments, Ordered
  <2>3. CASE l = L /\ IsEmpty(frame)
    BY <1>a, <1>b, <1>0, <1>1, <2>1, <2>3
  <2>4. CASE l = L /\ ~IsEmpty(frame)
    <3>1. frs[k].exit < frame.entry
      BY <1>a, <1>b, <1>6, <1>0, <2>1, <2>4 DEF Fragments, Ordered, IsEmpty
    <3>. QED
      BY <1>a, <1>b, <1>0, <2>1, <2>4, <3>1
  <2>. QED
    BY <1>a, <1>b, <1>0, <2>2, <2>3, <2>4
<1>7. Linked(cd2[Normal], Normal, Normal, Normal)
  <2>1. Normal \in 1 .. n /\ ~(~IsEmpty(frame) /\ Normal = frame.exit)
    BY <1>a, <1>b, <1>0, <1>2, <1>3
  <2>. QED
    BY <1>a, <1>b, <2>1 DEF Linked, Fragments
<1>8. ASSUME NEW i \in Normal + 1 .. Len(cd2)
      PROVE  \E k \in 1 .. L : HoldsFragmentOf(new[k], cd2, i)
  <2>1. CASE i = n + 1
    <3>1. Covers(last, i)
      BY <1>a, <1>b, <2>1, <1>4 DEF Covers
    <3>2. Linked(cd2[i], i, last.entry, last.exit)
      BY <1>a, <1>b, <2>1, <1>0, <1>2, <1>3 DEF Linked
    <3>. QED
      BY <1>a, <1>b, <1>0, <3>1, <3>2 DEF HoldsFragmentOf
  <2>2. CASE i # n + 1
    <3>0. i \in 1 .. n /\ i \in Normal + 1 .. Len(cd)
      BY <1>a, <1>b, <1>0, <2>2
    <3>1. PICK k \in 1 .. L : HoldsFragmentOf(frs[k], cd, i)
      BY <1>a, <1>b, <3>0 DEF Fragments
    <3>2. CASE k = L
      <4>1. ~IsEmpty(frame) /\ frame.entry <= i /\ Linked(cd[i], i, frame.entry, frame.exit)
        BY <1>a, <1>b, <3>1, <3>2 DEF HoldsFragmentOf, Covers, IsEmpty
      <4>2. last.entry = frame.entry /\ frame.exit = n
        BY <1>a, <1>b, <1>0, <1>3, <4>1
      <4>3. Covers(last, i)
        BY <1>a, <1>b, <4>1, <4>2, <3>0, <1>2, <1>4 DEF Covers
      <4>4. Linked(cd2[i], i, last.entry, last.exit)
        BY <1>a, <1>b, <4>1, <4>2, <3>0, <1>4 DEF Linked
      <4>. QED
        BY <1>a, <1>b, <3>2, <4>3, <4>4 DEF HoldsFragmentOf
    <3>3. CASE k \in 1 .. L - 1
      <4>1. i <= frs[k].exit /\ frs[k].entry # Nil
        BY <1>a, <1>b, <3>1 DEF HoldsFragmentOf, Covers
      <4>2. ~IsEmpty(frame) => i # frame.exit
        <5>. SUFFICES ASSUME ~IsEmpty(frame) PROVE i # frame.exit
          OBVIOUS
        <5>1. frs[k].exit < frame.entry
          BY <1>a, <1>b, <1>0, <3>3, <4>1 DEF Fragments, Ordered, IsEmpty
        <5>. QED
          BY <1>a, <1>b, <5>1, <4>1, <1>1, <1>2, <1>3, <3>0
      <4>3. cd2[i].next = cd[i].next /\ cd2[i].prev = cd[i].prev
        BY <1>a, <1>b, <4>2, <3>0
      <4>. QED
        BY <1>a, <1>b, <3>1, <3>3, <4>3 DEF HoldsFragmentOf, Covers, Linked
    <3>. QED
      BY <1>a, <1>b, <1>0, <3>2, <3>3
  <2>. QED
    BY <1>a, <1>b, <2>1, <2>2
<1>9. Ordered(new)
  BY <1>a, <1>b, <1>0, <1>6 DEF Ordered
<1>. QED
  BY <1>a, <1>b, <1>0, <1>5, <1>7, <1>8, <1>9 DEF Fragments

(* AppendFragment makes one list of the last fragment that is left. *)
LEMMA ListedAtEnd ==
  ASSUME NEW n \in Nat \ {0}, NEW frs \in Seq(Calls(n)), Len(frs) = 1,
         NEW A, NEW cd \in Seq(Instrs(A, n)), Len(cd) = n, Fragments(frs, cd)
  PROVE  Listed(IF IsEmpty(frs[1]) THEN cd ELSE Link(cd, Normal, frs[1].entry))
<1>. DEFINE top == frs[1]
<1>0. top.entry \in Nat /\ top.exit \in Nat /\ Normal = 1 /\ Nil = 0 /\ 1 .. Len(frs) = {1}
  BY CallTyped DEF Normal, Nil
<1>1. ASSUME NEW i \in 2 .. n
      PROVE  Covers(top, i) /\ Linked(cd[i], i, top.entry, top.exit)
  BY <1>0 DEF Fragments, HoldsFragmentOf
<1>2. CASE IsEmpty(top)
  <2>1. n = 1
    BY <1>1, <1>2 DEF Covers, IsEmpty
  <2>. QED
    BY <1>0, <1>2, <2>1 DEF Listed, Fragments
<1>3. CASE ~IsEmpty(top)
  <2>1. 1 < top.entry /\ top.entry <= top.exit /\ top.exit <= n
    BY <1>0, <1>3 DEF Fragments, Bounded, IsEmpty
  <2>2. top.entry = 2 /\ top.exit = n
    <3>1. 2 \in 2 .. n /\ n \in 2 .. n
      BY <1>0, <2>1
    <3>. QED
      BY <1>0, <1>1, <2>1, <3>1 DEF Covers
  <2>. DEFINE cd2 == Link(cd, Normal, top.entry)
  <2>3. /\ Len(cd2) = n
        /\ \A i \in 1 .. n :
             /\ cd2[i].next = IF i = 1 THEN 2 ELSE cd[i].next
             /\ cd2[i].prev = IF i = 2 THEN 1 ELSE cd[i].prev
    BY <1>0, <2>1, <2>2, LinkKeeps
  <2>. HIDE DEF cd2
  <2>4. ASSUME NEW i \in 1 .. n PROVE Linked(cd2[i], i, 1, n)
    <3>1. CASE i = 1
      BY <1>0, <2>1, <2>2, <2>3, <3>1 DEF Linked, Fragments
    <3>2. CASE i = 2
      BY <1>0, <1>1, <2>1, <2>2, <2>3, <3>2 DEF Linked
    <3>3. CASE i > 2
      BY <1>0, <1>1, <2>1, <2>2, <2>3, <3>3 DEF Linked
    <3>. QED
      BY <3>1, <3>2, <3>3
  <2>. QED
    BY <1>3, <2>3, <2>4 DEF Listed, cd2
<1>. QED
  BY <1>2, <1>3

-----------------------------------------------------------------------------
(* The tree *)

LeafKinds == {"Literal", "LoadLocal", "LoadField"}

LEMMA TreeTyped ==
  ASSUME ast \in Bodies
  PROVE  /\ Len(ast) \in Nat /\ DOMAIN ast = 1 .. Len(ast)
         /\ \A i \in DOMAIN ast :
              /\ Len(ast[i].value.leaves) \in Nat \ {0}
              /\ DOMAIN ast[i].value.leaves = 1 .. Len(ast[i].value.leaves)
<1>1. ast \in Seq(Range(ast))
  BY BodiesAssumption DEF IsSequence
<1>2. ASSUME NEW i \in DOMAIN ast
      PROVE  /\ Len(ast[i].value.leaves) \in Nat \ {0}
             /\ DOMAIN ast[i].value.leaves = 1 .. Len(ast[i].value.leaves)
  <2>. DEFINE leaves == ast[i].value.leaves
  <2>1. leaves \in Seq(Range(leaves)) /\ leaves # <<>>
    BY BodiesAssumption DEF IsSequence
  <2>. HIDE DEF leaves
  <2>2. Len(leaves) \in Nat \ {0} /\ DOMAIN leaves = 1 .. Len(leaves)
    BY <2>1
  <2>. QED
    BY <2>2 DEF leaves
<1>. QED
  BY <1>1, <1>2

LEMMA StatementKinds ==
  ASSUME ast \in Bodies, NEW i \in DOMAIN ast
  PROVE  /\ StatementNode(i) \in NodeType /\ IsStatement(StatementNode(i))
         /\ StatementNode(i).kind \in {"Return", "StoreLocal", "StoreField"}
  BY TreeTyped DEF StatementNode, IsStatement, NodeType

LEMMA LeafKind ==
  ASSUME ast \in Bodies, NEW i \in DOMAIN ast, NEW j \in DOMAIN ast[i].value.leaves
  PROVE  /\ LeafNode(i, j) \in NodeType /\ IsExpr(LeafNode(i, j))
         /\ LeafNode(i, j).kind \in LeafKinds
         /\ LeafNode(i, j).stmt = i /\ LeafNode(i, j).leaf = j
         /\ ~LoadsField(ast) => LeafNode(i, j).kind # "LoadField"
<1>1. i \in Nat /\ j \in Nat
  BY TreeTyped
<1>2. LeafNode(i, j).kind \in LeafKinds
  BY DEF LeafNode, LeafKinds
<1>3. LeafNode(i, j).stmt = i /\ LeafNode(i, j).leaf = j
  BY DEF LeafNode
<1>4. LeafNode(i, j) \in NodeType
  BY <1>1 DEF LeafNode, NodeType
<1>5. ~LoadsField(ast) => LeafNode(i, j).kind # "LoadField"
  BY DEF LeafNode, LoadsField
<1>. QED
  BY <1>2, <1>3, <1>4, <1>5 DEF IsExpr

LEMMA ExprKind ==
  ASSUME ast \in Bodies, NEW i \in DOMAIN ast, NEW j \in DOMAIN ast[i].value.leaves
  PROVE  /\ ExprNode(i, j) \in NodeType /\ IsExpr(ExprNode(i, j))
         /\ ExprNode(i, j).kind \in LeafKinds \cup {"BinaryOp"}
         /\ ExprNode(i, j).kind = "BinaryOp" => j + 1 \in DOMAIN ast[i].value.leaves
         /\ ExprNode(i, j).stmt = i /\ ExprNode(i, j).leaf = j
         /\ ~LoadsField(ast) => ExprNode(i, j).kind # "LoadField"
<1>1. i \in Nat /\ j \in Nat
  BY TreeTyped
<1>2. CASE j = Len(ast[i].value.leaves)
  <2>1. ExprNode(i, j) = LeafNode(i, j)
    BY <1>2 DEF ExprNode
  <2>. QED
    BY <2>1, LeafKind DEF LeafKinds
<1>3. CASE j # Len(ast[i].value.leaves)
  <2>1. ExprNode(i, j) = [kind |-> "BinaryOp", stmt |-> i, leaf |-> j]
    BY <1>3 DEF ExprNode
  <2>2. j + 1 \in DOMAIN ast[i].value.leaves
    BY <1>3, TreeTyped
  <2>3. ExprNode(i, j) \in NodeType
    BY <1>1, <2>1 DEF NodeType
  <2>. QED
    BY <2>1, <2>2, <2>3 DEF IsExpr
<1>. QED
  BY <1>2, <1>3

LEMMA ExprFacts ==
  ASSUME ast \in Bodies, NEW node, IsExpr(node)
  PROVE  /\ node.stmt \in DOMAIN ast
         /\ node.leaf \in DOMAIN ast[node.stmt].value.leaves
         /\ node.kind \in LeafKinds \cup {"BinaryOp"}
         /\ node.kind = "BinaryOp" => node.leaf + 1 \in DOMAIN ast[node.stmt].value.leaves
         /\ ~LoadsField(ast) => node.kind # "LoadField"
  BY LeafKind, ExprKind DEF IsExpr, LeafKinds

(* Where in the path a kind of node can be. *)
LEMMA KindAt ==
  ASSUME ast \in Bodies, NEW frs, Len(frs) \in Nat, Nesting(frs), NEW k \in 1 .. Len(frs)
  PROVE  /\ k = 1 => frs[k].visitor = "Effect" /\ frs[k].node.kind = "Sequence"
         /\ k = 2 => /\ frs[k].visitor = "Effect" /\ frs[k].node.stmt \in DOMAIN ast
                     /\ frs[k].node.kind \in {"Return", "StoreLocal", "StoreField"}
         /\ k > 2 /\ frs[2].node.kind = "Return" =>
              frs[k].visitor = "Value" /\ frs[k].node = frs[2].node
         /\ k > 2 /\ frs[2].node.kind # "Return" =>
              /\ frs[k].visitor = "Value" /\ IsExpr(frs[k].node)
              /\ frs[k].node.kind \in LeafKinds \cup {"BinaryOp"}
<1>1. VisitsNode(frs, k)
  BY DEF Nesting
<1>2. CASE k = 1
  BY <1>1, <1>2 DEF VisitsNode, SequenceNode
<1>3. CASE k = 2
  BY <1>1, <1>3, StatementKinds DEF VisitsNode, IsStatement
<1>4. CASE k > 2
  <2>1. /\ frs[k].visitor = "Value"
        /\ frs[2].node.kind = "Return" => frs[k].node = frs[2].node
        /\ frs[2].node.kind # "Return" => IsExpr(frs[k].node)
    BY <1>1, <1>4 DEF VisitsNode
  <2>. QED
    BY <1>4, <2>1, ExprFacts
<1>. QED
  BY <1>2, <1>3, <1>4

(* ... and what a kind of node says about its place. *)
LEMMA PlaceOf ==
  ASSUME ast \in Bodies, NEW frs, Len(frs) \in Nat, Nesting(frs), NEW k \in 1 .. Len(frs)
  PROVE  /\ frs[k].node.kind = "Sequence" => k = 1
         /\ frs[k].node.kind \in {"StoreLocal", "StoreField"} =>
              k = 2 /\ frs[k].node.stmt \in DOMAIN ast /\ frs[k].visitor = "Effect"
         /\ frs[k].node.kind = "Return" => k # 1 /\ frs[k].node = frs[2].node
         /\ frs[k].node.kind \in LeafKinds \cup {"BinaryOp"} =>
              /\ k > 2 /\ frs[2].node.kind # "Return"
              /\ IsExpr(frs[k].node) /\ frs[k].visitor = "Value"
<1>1. CASE k = 1
  BY <1>1, KindAt DEF LeafKinds
<1>2. CASE k = 2
  BY <1>2, KindAt DEF LeafKinds
<1>3. CASE k > 2
  <2>0. 2 \in 1 .. Len(frs) /\ k # 1 /\ k # 2
    BY <1>3
  <2>1. frs[2].node.kind \in {"Return", "StoreLocal", "StoreField"}
    BY <2>0, KindAt
  <2>2. CASE frs[2].node.kind = "Return"
    BY <1>3, <2>0, <2>2, KindAt DEF LeafKinds
  <2>3. CASE frs[2].node.kind # "Return"
    <3>1. /\ frs[k].visitor = "Value" /\ IsExpr(frs[k].node)
          /\ frs[k].node.kind \in LeafKinds \cup {"BinaryOp"}
      BY <1>3, <2>3, KindAt
    <3>. QED
      BY <1>3, <2>3, <3>1 DEF LeafKinds
  <2>. QED
    BY <2>2, <2>3
<1>. QED
  BY <1>1, <1>2, <1>3

LEMMA NestingPrimed ==
  ASSUME ast' = ast, Nesting(frames')
  PROVE  Nesting(frames)'
  BY DEF Nesting, VisitsNode, IsStatement, IsExpr, StatementNode, LeafNode, ExprNode

(* A step that ends with these facts preserves the invariant. *)
LEMMA InvPrimed ==
  ASSUME ast' = ast, ast \in Bodies, pc' \in {"Building", "Crashed"},
         frames' \in Seq(Calls(Len(code'))), Len(frames') \in 1 .. StackLimit,
         code' \in Seq(Instrs(Ats(ast), Len(code'))), code' # <<>>, temp_count_' \in Int,
         Nesting(frames'), Fragments(frames', code'),
         ~LoadsField(ast) => Temps(frames', code', temp_count_')
  PROVE  Inv'
<1>1. Typed'
  BY DEF Typed
<1>2. Nesting(frames)'
  BY NestingPrimed
<1>3. Fragments(frames, code)' /\ (~LoadsField(ast) => Temps(frames, code, temp_count_))'
  OBVIOUS
<1>. QED
  BY <1>1, <1>2, <1>3 DEF Inv

-----------------------------------------------------------------------------
(* The initial state *)

LEMMA InvInit == Init => Inv
<1>. SUFFICES ASSUME Init PROVE Inv
  OBVIOUS
<1>. DEFINE first == NewFrame("Effect", SequenceNode)
            normal == NewInstr("TargetEntry", NoPlace, <<>>)
<1>1. /\ first \in Calls(1) /\ first.stage = "enter" /\ first.visitor = "Effect"
      /\ first.node = SequenceNode /\ first.entry = Nil /\ first.exit = Nil
      /\ first.result = Nil
  <2>1. SequenceNode \in NodeType
    BY DEF SequenceNode, NodeType
  <2>. QED
    BY <2>1, NewFrameTyped
<1>2. /\ normal \in Instrs(Ats(ast), 1) /\ normal.next = Nil /\ normal.prev = Nil
  <2>1. NoPlace \in Ats(ast)
    BY DEF Ats
  <2>2. <<>> \in Seq(0 .. 1)
    OBVIOUS
  <2>. QED
    BY <2>1, <2>2 DEF NewInstr, Instrs, Opcodes, Nil
<1>. HIDE DEF first, normal
<1>3. frames = <<first>> /\ code = <<normal>> /\ ast \in Bodies /\ pc = "Building"
      /\ temp_count_ = 0
  BY DEF Init, first, normal
<1>4. Len(frames) = 1 /\ frames[1] = first /\ Len(code) = 1 /\ code[1] = normal
  BY <1>3
<1>5. Typed
  BY <1>1, <1>2, <1>3, <1>4, BodiesAssumption DEF Typed
<1>6. Nesting(frames)
  BY <1>1, <1>4 DEF Nesting, VisitsNode, IsInnermost
<1>7. Fragments(frames, code)
  BY <1>1, <1>2, <1>4 DEF Fragments, Bounded, Ordered, Linked, Normal
<1>8. Temps(frames, code, temp_count_)
  BY <1>1, <1>3, <1>4 DEF Temps, Waiting, Returned
<1>. QED
  BY <1>3, <1>5, <1>6, <1>7, <1>8 DEF Inv

-----------------------------------------------------------------------------
(* The steps *)

(* What every step of a building graph starts from. *)
LEMMA Building ==
  ASSUME Inv, pc = "Building"
  PROVE  /\ ast \in Bodies
         /\ Len(frames) \in Nat \ {0} /\ Len(frames) <= StackLimit /\ StackLimit \in Nat
         /\ frames \in Seq(Calls(Len(code)))
         /\ Len(code) \in Nat \ {0}
         /\ code \in Seq(Instrs(Ats(ast), Len(code))) /\ code # <<>>
         /\ temp_count_ \in Int
         /\ Top \in Calls(Len(code)) /\ Top = frames[Len(frames)]
         /\ Nesting(frames) /\ Fragments(frames, code)
         /\ ~LoadsField(ast) => Temps(frames, code, temp_count_)
<1>1. Typed
  BY DEF Inv
<1>2. Len(frames) \in Nat \ {0} /\ StackLimit \in Nat
  BY <1>1, BodiesAssumption DEF Typed
<1>3. frames \in Seq(Calls(Len(code)))
  BY <1>1 DEF Typed
<1>4. Top \in Calls(Len(code))
  BY <1>2, <1>3 DEF Top
<1>5. Len(code) \in Nat \ {0}
  <2>1. code \in Seq(Instrs(Ats(ast), Len(code))) /\ code # <<>>
    BY <1>1 DEF Typed
  <2>. QED
    BY <2>1
<1>. QED
  BY <1>1, <1>2, <1>3, <1>4, <1>5 DEF Typed, Inv, Top

(* The process dies in a call that the stack has no room for. *)
LEMMA CrashStep ==
  ASSUME Inv, pc = "Building", pc' = "Crashed", UNCHANGED <<ast, frames, code, temp_count_>>
  PROVE  Inv'
<1>1. /\ frames' = frames /\ code' = code /\ ast' = ast /\ temp_count_' = temp_count_
  OBVIOUS
<1>2. Len(frames) \in 1 .. StackLimit
  BY Building
<1>. QED
  BY <1>1, <1>2, Building, InvPrimed

LEMMA NestingPushed ==
  ASSUME NEW frs, Len(frs) \in Nat, NEW m \in 1 .. Len(frs), Nesting(frs),
         NEW new, Len(new) = m + 1, \A k \in 1 .. m - 1 : new[k] = frs[k],
         new[m].visitor = frs[m].visitor, new[m].node = frs[m].node,
         WaitsFor(new[m], new[m + 1]), new[m + 1].stage = "enter",
         m = 1 => new[m + 1].visitor = "Effect" /\ IsStatement(new[m + 1].node),
         m # 1 => /\ new[m + 1].visitor = "Value"
                  /\ IF frs[2].node.kind = "Return" THEN new[m + 1].node = frs[2].node
                     ELSE IsExpr(new[m + 1].node)
  PROVE  Nesting(new)
<1>1. VisitsNode(new, m + 1)
  <2>1. CASE m = 1
    BY <2>1 DEF VisitsNode
  <2>2. CASE m # 1
    <3>1. new[2].node = frs[2].node
      <4>1. CASE m = 2
        BY <4>1
      <4>2. CASE m # 2
        BY <2>2, <4>2
      <4>. QED
        BY <4>1, <4>2
    <3>2. m + 1 # 1 /\ m + 1 # 2
      BY <2>2
    <3>. QED
      BY <2>2, <3>1, <3>2 DEF VisitsNode
  <2>. QED
    BY <2>1, <2>2
<1>2. IsInnermost(new[m + 1])
  BY DEF IsInnermost
<1>. QED
  BY <1>1, <1>2, NestingGrows

(* A Visit changes no temporary, and one call more waits with a left       *)
(* operand only when its stage says so.                                    *)
LEMMA TempsPushed ==
  ASSUME ast \in Bodies, NEW L \in Nat \ {0}, NEW frs, L = Len(frs), Nesting(frs),
         NEW new, Len(new) = L + 1, \A k \in 1 .. L - 1 : new[k] = frs[k],
         frs[L].stage = "enter", new[L].node = frs[L].node, new[L].result = frs[L].result,
         new[L].stage \notin {"done", "right"}, WaitsFor(new[L], new[L + 1]),
         new[L + 1].stage = "enter", new[L + 1].result = Nil,
         NEW cd, NEW count, Temps(frs, cd, count)
  PROVE  Temps(new, cd, count)
<1>1. ASSUME NEW k \in 3 .. L + 1, new[k].stage = "right"
      PROVE  new[k].left \in DOMAIN cd /\ cd[new[k].left].temp = k - 3
  <2>1. k # L /\ k # L + 1
    BY <1>1
  <2>2. k \in 3 .. L /\ new[k] = frs[k]
    BY <2>1
  <2>. QED
    BY <1>1, <2>2 DEF Temps
<1>2. ~Returned(new) /\ ~Returned(frs)
  BY DEF Returned
<1>3. Waiting(new) = Waiting(frs)
  <2>1. L # 1 => new[2].node = frs[2].node
    <3>1. CASE L = 2
      BY <3>1
    <3>2. CASE L # 1 /\ L # 2
      BY <3>2
    <3>. QED
      BY <3>1, <3>2
  <2>2. CASE L = 1
    BY <2>2 DEF Waiting
  <2>3. CASE L # 1 /\ frs[2].node.kind = "Return"
    BY <2>1, <2>3 DEF Waiting
  <2>4. CASE L = 2 /\ frs[2].node.kind # "Return"
    <3>1. frs[2].node.kind \in {"StoreLocal", "StoreField"}
      <4>1. 2 \in 1 .. Len(frs) /\ Len(frs) \in Nat
        BY <2>4
      <4>. QED
        BY <2>4, <4>1, KindAt
    <3>2. new[2].stage # "left" /\ new[2].node.kind # "Return"
      BY <3>1, <2>4 DEF WaitsFor
    <3>. QED
      BY <2>4, <3>2 DEF Waiting
  <2>5. CASE L > 2 /\ frs[2].node.kind # "Return"
    <3>1. frs[L].node.kind \in LeafKinds \cup {"BinaryOp"}
      BY <2>5, KindAt
    <3>2. new[L].stage = "left" /\ frs[L].node.kind = "BinaryOp"
      BY <3>1 DEF WaitsFor, LeafKinds
    <3>3. WaitsFor(frs[L - 1], frs[L])
      <4>1. L - 1 \in 1 .. Len(frs) - 1 /\ L - 1 + 1 = L
        BY <2>5
      <4>. QED
        BY <4>1 DEF Nesting
    <3>4. frs[L - 1].stage # "left"
      BY <3>2, <3>3 DEF WaitsFor
    <3>5. Waiting(frs) = L - 3
      BY <2>5, <3>4 DEF Waiting
    <3>6. Waiting(new) = L - 3
      <4>1. Len(new) - 1 = L /\ ~(Len(new) < 3) /\ Len(new) - 4 = L - 3
        BY <2>5
      <4>. QED
        BY <2>1, <2>5, <3>2, <4>1 DEF Waiting
    <3>. QED
      BY <3>5, <3>6
  <2>. QED
    BY <2>2, <2>3, <2>4, <2>5
<1>4. ASSUME NEW k \in 1 .. L + 1, k <= 2 PROVE new[k].result = Nil
  <2>1. k \in 1 .. L => frs[k].result = Nil
    BY <1>4 DEF Temps
  <2>2. k = L + 1 \/ k = L \/ k \in 1 .. L - 1
    OBVIOUS
  <2>. QED
    BY <2>1, <2>2
<1>. QED
  BY <1>1, <1>2, <1>3, <1>4 DEF Temps

(* The innermost call waits at a new stage for a call that has just begun. *)
LEMMA PushStep ==
  ASSUME Inv, pc = "Building", Top.stage = "enter",
         NEW f \in Calls(Len(code)), f.visitor = Top.visitor, f.node = Top.node,
         f.entry = Top.entry, f.exit = Top.exit, f.result = Top.result,
         f.stage \notin {"done", "right"},
         NEW visitor \in {"Effect", "Value"}, NEW node \in NodeType,
         WaitsFor(f, NewFrame(visitor, node)),
         Len(frames) = 1 => visitor = "Effect" /\ IsStatement(node),
         Len(frames) # 1 =>
           /\ visitor = "Value"
           /\ IF frames[2].node.kind = "Return" THEN node = frames[2].node ELSE IsExpr(node),
         Visit(Below(1), f, visitor, node), UNCHANGED <<ast, code, temp_count_>>
  PROVE  Inv'
<1>1. PICK L \in Nat \ {0}, n \in Nat :
        /\ L = Len(frames) /\ n = Len(code) /\ L <= StackLimit /\ StackLimit \in Nat
        /\ Top = frames[L] /\ frames \in Seq(Calls(n))
  BY Building
<1>2. PICK g : g = NewFrame(visitor, node)
  OBVIOUS
<1>3. /\ g \in Calls(n) /\ g.stage = "enter" /\ g.visitor = visitor /\ g.node = node
      /\ g.entry = Nil /\ g.exit = Nil /\ g.result = Nil
  BY <1>2, NewFrameTyped
<1>4. PICK new : new = Below(1) \o <<f, g>>
  OBVIOUS
<1>5. /\ new \in Seq(Calls(n)) /\ Len(new) = L + 1
      /\ \A k \in 1 .. L - 1 : new[k] = frames[k]
      /\ new[L] = f /\ new[L + 1] = g
      /\ Len(Below(1)) = L - 1
  <2>1. L \in 1 .. Len(frames) /\ f \in Calls(n) /\ Below(1) = Callers(frames, L)
    BY <1>1 DEF Below, Callers
  <2>2. IsPushed(new, frames, L, f, g)
    BY <1>4, <2>1 DEF IsPushed
  <2>3. /\ new \in Seq(Calls(n)) /\ Len(new) = L + 1
        /\ \A k \in 1 .. L - 1 : new[k] = frames[k]
        /\ new[L] = f /\ new[L + 1] = g
    BY <1>1, <1>3, <2>1, <2>2, CallPushed
  <2>4. Len(Below(1)) = L - 1
    BY <1>1, <2>1, CallersOf
  <2>. QED
    BY <2>3, <2>4
<1>6. CASE ~(L < StackLimit)
  BY <1>1, <1>5, <1>6, CrashStep DEF Visit
<1>7. CASE L < StackLimit
  <2>1. Len(Below(1)) + 1 < StackLimit
    BY <1>1, <1>5, <1>7
  <2>2. frames' = new /\ pc' = "Building" /\ code' = code /\ ast' = ast
        /\ temp_count_' = temp_count_
    BY <2>1, <1>2, <1>4 DEF Visit
  <2>3. Nesting(new)
    <3>1. /\ new[L].visitor = frames[L].visitor /\ new[L].node = frames[L].node
          /\ WaitsFor(new[L], new[L + 1]) /\ new[L + 1].stage = "enter"
      BY <1>1, <1>2, <1>3, <1>5
    <3>2. L = 1 => new[L + 1].visitor = "Effect" /\ IsStatement(new[L + 1].node)
      BY <1>1, <1>3, <1>5
    <3>3. L # 1 => /\ new[L + 1].visitor = "Value"
                   /\ IF frames[2].node.kind = "Return" THEN new[L + 1].node = frames[2].node
                      ELSE IsExpr(new[L + 1].node)
      BY <1>1, <1>3, <1>5
    <3>4. Len(frames) \in Nat /\ L \in 1 .. Len(frames) /\ Nesting(frames)
      BY <1>1, Building
    <3>. QED
      BY <1>5, <3>1, <3>2, <3>3, <3>4, NestingPushed
  <2>4. Fragments(new, code)
    <3>1. \A k \in 1 .. L : new[k].entry = frames[k].entry /\ new[k].exit = frames[k].exit
      BY <1>1, <1>5
    <3>2. \A k \in L + 1 .. Len(new) : new[k].entry = Nil /\ new[k].exit = Nil
      BY <1>3, <1>5
    <3>3. Fragments(frames, code) /\ Len(new) \in Nat /\ Len(new) >= L /\ Len(code) \in Nat
      BY <1>1, <1>5, Building
    <3>. QED
      BY <1>1, <3>1, <3>2, <3>3, FragmentsKept
  <2>5. ASSUME ~LoadsField(ast) PROVE Temps(new, code, temp_count_)
    <3>1. Temps(frames, code, temp_count_) /\ Nesting(frames) /\ ast \in Bodies
      BY <2>5, Building
    <3>2. /\ frames[L].stage = "enter" /\ new[L].node = frames[L].node
          /\ new[L].result = frames[L].result /\ new[L].stage \notin {"done", "right"}
          /\ WaitsFor(new[L], new[L + 1])
          /\ new[L + 1].stage = "enter" /\ new[L + 1].result = Nil
      BY <1>1, <1>2, <1>3, <1>5
    <3>. QED
      BY <1>1, <1>5, <3>1, <3>2, TempsPushed
  <2>6. Len(new) \in 1 .. StackLimit
    BY <1>1, <1>5, <1>7
  <2>. QED
    BY <2>2, <2>3, <2>4, <2>5, <2>6, <1>1, <1>5, Building, InvPrimed
<1>. QED
  BY <1>6, <1>7

(* The steps that begin a call. *)
LEMMA VisitChildStep ==
  ASSUME Inv, VisitChild
  PROVE  Inv'
<1>. DEFINE f == [Top EXCEPT !.stage = "child", !.next = @ + 1]
            node == StatementNode(Top.next)
<1>1. /\ pc = "Building" /\ Top.node.kind = "Sequence" /\ Top.stage = "enter"
      /\ Top.next <= Len(ast) /\ Visit(Below(1), f, "Effect", node)
      /\ UNCHANGED <<ast, code, temp_count_>>
  BY DEF VisitChild, Visiting, MoreChildren
<1>2. /\ f \in Calls(Len(code)) /\ f.stage = "child" /\ f.visitor = Top.visitor
      /\ f.node = Top.node /\ f.entry = Top.entry /\ f.exit = Top.exit /\ f.result = Top.result
  BY <1>1, Building, ChildSet
<1>3. Len(frames) = 1
  <2>1. Len(frames) \in Nat \ {0} /\ frames[Len(frames)].node.kind = "Sequence"
        /\ ast \in Bodies /\ Nesting(frames)
    BY <1>1, Building
  <2>2. Len(frames) \in 1 .. Len(frames)
    BY <2>1
  <2>. QED
    BY <2>1, <2>2, PlaceOf
<1>4. node \in NodeType /\ IsStatement(node)
  <2>1. Top.next \in DOMAIN ast
    <3>1. Top.next \in Nat \ {0}
      BY <1>1, Building DEF Calls
    <3>. QED
      BY <1>1, <3>1, Building, TreeTyped
  <2>. QED
    BY <1>1, <2>1, Building, StatementKinds
<1>. HIDE DEF f, node
<1>5. WaitsFor(f, NewFrame("Effect", node))
  BY <1>1, <1>2 DEF WaitsFor
<1>. QED
  BY <1>1, <1>2, <1>3, <1>4, <1>5, PushStep

LEMMA VisitReturnStep ==
  ASSUME Inv, VisitReturn
  PROVE  Inv'
<1>. DEFINE f == [Top EXCEPT !.stage = "value"]
<1>1. /\ pc = "Building" /\ Top.node.kind = "Return" /\ Top.stage = "enter"
      /\ Visit(Below(1), f, "Value", Top.node) /\ UNCHANGED <<ast, code, temp_count_>>
  BY DEF VisitReturn, Visiting
<1>2. /\ f \in Calls(Len(code)) /\ f.stage = "value" /\ f.visitor = Top.visitor
      /\ f.node = Top.node /\ f.entry = Top.entry /\ f.exit = Top.exit /\ f.result = Top.result
  <2>1. "value" \in Stages
    BY DEF Stages
  <2>. QED
    BY <1>1, <2>1, Building, StageSet
<1>3. Len(frames) # 1 /\ frames[2].node.kind = "Return" /\ Top.node = frames[2].node
  <2>1. Len(frames) \in Nat \ {0} /\ Top = frames[Len(frames)] /\ ast \in Bodies /\ Nesting(frames)
    BY <1>1, Building
  <2>. QED
    BY <1>1, <2>1, PlaceOf DEF LeafKinds
<1>4. Top.node \in NodeType
  BY <1>1, Building DEF Calls
<1>. HIDE DEF f
<1>5. WaitsFor(f, NewFrame("Value", Top.node))
  BY <1>1, <1>2 DEF WaitsFor
<1>. QED
  BY <1>1, <1>2, <1>3, <1>4, <1>5, PushStep

LEMMA VisitStoreLocalStep ==
  ASSUME Inv, VisitStoreLocal
  PROVE  Inv'
<1>. DEFINE f == [Top EXCEPT !.stage = "value"]
            node == ExprNode(Top.node.stmt, 1)
<1>1. /\ pc = "Building" /\ Top.node.kind = "StoreLocal" /\ Top.stage = "enter"
      /\ Visit(Below(1), f, "Value", node) /\ UNCHANGED <<ast, code, temp_count_>>
  BY DEF VisitStoreLocal, Visiting
<1>2. /\ f \in Calls(Len(code)) /\ f.stage = "value" /\ f.visitor = Top.visitor
      /\ f.node = Top.node /\ f.entry = Top.entry /\ f.exit = Top.exit /\ f.result = Top.result
  <2>1. "value" \in Stages
    BY DEF Stages
  <2>. QED
    BY <1>1, <2>1, Building, StageSet
<1>3. Len(frames) # 1 /\ frames[2].node.kind # "Return" /\ Top.node.stmt \in DOMAIN ast
  <2>1. Len(frames) \in Nat \ {0} /\ Top = frames[Len(frames)] /\ ast \in Bodies /\ Nesting(frames)
    BY <1>1, Building
  <2>. QED
    BY <1>1, <2>1, PlaceOf DEF LeafKinds
<1>4. node \in NodeType /\ IsExpr(node)
  <2>1. ast \in Bodies /\ 1 \in DOMAIN ast[Top.node.stmt].value.leaves
    BY <1>1, <1>3, Building, TreeTyped
  <2>. QED
    BY <1>3, <2>1, ExprKind
<1>. HIDE DEF f, node
<1>5. WaitsFor(f, NewFrame("Value", node))
  BY <1>1, <1>2 DEF WaitsFor
<1>. QED
  BY <1>1, <1>2, <1>3, <1>4, <1>5, PushStep

LEMMA VisitLeftStep ==
  ASSUME Inv, VisitLeft
  PROVE  Inv'
<1>. DEFINE f == [Top EXCEPT !.stage = "left"]
            node == LeafNode(Top.node.stmt, Top.node.leaf)
<1>1. /\ pc = "Building" /\ Top.node.kind = "BinaryOp" /\ Top.stage = "enter"
      /\ Visit(Below(1), f, "Value", node) /\ UNCHANGED <<ast, code, temp_count_>>
  BY DEF VisitLeft, Visiting
<1>2. /\ f \in Calls(Len(code)) /\ f.stage = "left" /\ f.visitor = Top.visitor
      /\ f.node = Top.node /\ f.entry = Top.entry /\ f.exit = Top.exit /\ f.result = Top.result
  <2>1. "left" \in Stages
    BY DEF Stages
  <2>. QED
    BY <1>1, <2>1, Building, StageSet
<1>3. Len(frames) # 1 /\ frames[2].node.kind # "Return" /\ IsExpr(Top.node)
  <2>1. Len(frames) \in Nat \ {0} /\ Top = frames[Len(frames)] /\ ast \in Bodies /\ Nesting(frames)
    BY <1>1, Building
  <2>. QED
    BY <1>1, <2>1, PlaceOf DEF LeafKinds
<1>4. node \in NodeType /\ IsExpr(node) /\ node.kind \in LeafKinds
  <2>1. ast \in Bodies /\ Top.node.stmt \in DOMAIN ast
        /\ Top.node.leaf \in DOMAIN ast[Top.node.stmt].value.leaves
    BY <1>1, <1>3, Building, ExprFacts
  <2>. QED
    BY <2>1, LeafKind
<1>. HIDE DEF f, node
<1>5. WaitsFor(f, NewFrame("Value", node))
  BY <1>1, <1>2, <1>4 DEF WaitsFor, NewFrame, LeafKinds
<1>. QED
  BY <1>1, <1>2, <1>3, <1>4, <1>5, PushStep

-----------------------------------------------------------------------------
(* The steps that end a call *)

LEMMA TempSet ==
  ASSUME NEW A, NEW n \in Nat, NEW r \in Instrs(A, n), NEW v \in Int
  PROVE  /\ [r EXCEPT !.temp = v] \in Instrs(A, n) /\ [r EXCEPT !.temp = v].temp = v
         /\ [r EXCEPT !.temp = v].next = r.next /\ [r EXCEPT !.temp = v].prev = r.prev
  BY DEF Instrs

(* Do and Add leave the temporaries that are waited for; Bind adds one.    *)
Answers(new, frs, m, n) ==
  /\ Len(new) = m
  /\ \A k \in 1 .. m - 1 : new[k] = frs[k]
  /\ new[m].stage = "done" /\ new[m].visitor = (IF m = 2 THEN "Effect" ELSE "Value")
  /\ new[m].result = (IF m = 2 THEN frs[m].result ELSE n + 1)

KeepsTemps(cd2, cd, n) ==
  /\ DOMAIN cd = 1 .. n
  /\ DOMAIN cd2 = 1 .. n + 1
  /\ \A i \in 1 .. n : cd2[i].temp = cd[i].temp

LEMMA TempsReturned ==
  ASSUME NEW m \in Nat, m > 1, NEW n \in Nat, NEW frs, Len(frs) \in Nat, m <= Len(frs),
         NEW cd, NEW count, Temps(frs, cd, count),
         NEW new, Answers(new, frs, m, n), NEW cd2, KeepsTemps(cd2, cd, n),
         m # 2 => cd2[n + 1].temp = Waiting(new)
  PROVE  Temps(new, cd2, Waiting(new) + (IF m = 2 THEN 0 ELSE 1))
<1>0. /\ Len(new) = m
      /\ \A k \in 1 .. m - 1 : new[k] = frs[k]
      /\ new[m].stage = "done" /\ new[m].visitor = (IF m = 2 THEN "Effect" ELSE "Value")
      /\ new[m].result = (IF m = 2 THEN frs[m].result ELSE n + 1)
      /\ DOMAIN cd = 1 .. n /\ DOMAIN cd2 = 1 .. n + 1
      /\ \A i \in 1 .. n : cd2[i].temp = cd[i].temp
  BY DEF Answers, KeepsTemps
<1>1. ASSUME NEW k \in 3 .. m, new[k].stage = "right"
      PROVE  new[k].left \in DOMAIN cd2 /\ cd2[new[k].left].temp = k - 3
  <2>1. k # m
    BY <1>0, <1>1
  <2>2. k \in 3 .. Len(frs) /\ new[k] = frs[k]
    BY <1>0, <2>1
  <2>3. new[k].left \in 1 .. n /\ cd[new[k].left].temp = k - 3
    BY <1>0, <1>1, <2>2 DEF Temps
  <2>. QED
    BY <1>0, <2>3
<1>2. Returned(new) <=> m # 2
  BY <1>0 DEF Returned
<1>3. m # 2 => new[m].result \in DOMAIN cd2 /\ cd2[new[m].result].temp = Waiting(new)
  BY <1>0
<1>4. ASSUME NEW k \in 1 .. m, k <= 2 PROVE new[k].result = Nil
  <2>1. frs[k].result = Nil
    BY <1>0, <1>4 DEF Temps
  <2>. QED
    BY <1>0, <1>4, <2>1
<1>. QED
  BY <1>0, <1>1, <1>2, <1>3, <1>4 DEF Temps

(* A call ends with ReturnDefinition: frs holds the calls that are then    *)
(* active, before the instruction instr is added to the code cd.           *)
LEMMA ReturnStep ==
  ASSUME Inv, pc = "Building", NEW n \in Nat \ {0}, n = Len(code),
         NEW m \in Nat \ {0}, m > 1, NEW l \in Nat \ {0}, Len(frames) = m + l - 1,
         NEW frame \in Calls(n), frame.visitor = frames[m].visitor,
         frame.node = frames[m].node, frame.result = frames[m].result,
         frame.node.kind \notin {"Sequence", "Return"},
         NEW frs, IsReplaced(frs, frames, m, frame),
         NEW cd \in Seq(Instrs(Ats(ast), n)), Len(cd) = n, Fragments(frs, cd),
         \A i \in 1 .. n : cd[i].temp = code[i].temp,
         NEW instr \in Instrs(Ats(ast), n + 1), instr.next = Nil, instr.prev = Nil,
         ~LoadsField(ast) => DeallocTemps(instr) = Waiting(frs),
         ReturnDefinition(Below(l), frame, cd, instr), UNCHANGED <<pc, ast>>
  PROVE  Inv'
<1>0. /\ frames \in Seq(Calls(n)) /\ temp_count_ \in Int /\ ast \in Bodies /\ Nesting(frames)
      /\ Len(frames) <= StackLimit /\ StackLimit \in Nat /\ Len(frames) \in Nat
      /\ code \in Seq(Instrs(Ats(ast), n))
      /\ ~LoadsField(ast) => Temps(frames, code, temp_count_)
  BY Building
<1>1. PICK binds \in BOOLEAN : binds = (frame.visitor = "Value")
  OBVIOUS
<1>2. PICK free \in Int : free = DeallocTemps(instr)
  <2>1. Len(instr.inputs) \in Nat
    <3>1. instr.inputs \in Seq(0 .. n + 1)
      BY DEF Instrs
    <3>. QED
      BY <3>1
  <2>. QED
    BY <1>0, <2>1 DEF DeallocTemps
<1>3. PICK empty \in BOOLEAN : empty = IsEmpty(frame)
  BY DEF IsEmpty
<1>4. PICK bound : bound = [instr EXCEPT !.temp = IF binds THEN free ELSE @]
  OBVIOUS
<1>5. /\ bound \in Instrs(Ats(ast), n + 1) /\ bound.next = Nil /\ bound.prev = Nil
      /\ binds => bound.temp = free
  <2>1. CASE binds
    BY <1>4, <2>1, TempSet
  <2>2. CASE ~binds
    <3>1. bound = [instr EXCEPT !.temp = instr.temp] /\ instr.temp \in Int
      BY <1>4, <2>2 DEF Instrs
    <3>. QED
      BY <2>2, <3>1, TempSet
  <2>. QED
    BY <2>1, <2>2
<1>6. PICK done : done = [frame EXCEPT !.entry = IF empty THEN n + 1 ELSE @, !.exit = n + 1,
                                       !.stage = "done", !.result = IF binds THEN n + 1 ELSE @]
  OBVIOUS
<1>7. /\ done \in Calls(n + 1) /\ done.stage = "done" /\ done.visitor = frame.visitor
      /\ done.node = frame.node /\ done.result = IF binds THEN n + 1 ELSE frame.result
      /\ done.entry = IF empty THEN n + 1 ELSE frame.entry
      /\ done.exit = n + 1
  <2>1. PICK e \in 0 .. n + 1, r \in 0 .. n + 1 :
             /\ e = IF empty THEN n + 1 ELSE frame.entry
             /\ r = IF binds THEN n + 1 ELSE frame.result
    BY DEF Calls
  <2>2. frame \in Calls(n + 1)
    BY DEF Calls
  <2>3. PICK x \in Nat : x = n + 1
    OBVIOUS
  <2>4. IsDone(done, frame, e, x, r)
    BY <1>6, <2>1, <2>3 DEF IsDone
  <2>5. frame \in Calls(x) /\ e \in 0 .. x /\ x \in 0 .. x /\ r \in 0 .. x
    BY <2>1, <2>2, <2>3
  <2>6. /\ done \in Calls(x) /\ done.stage = "done" /\ done.result = r /\ done.entry = e
        /\ done.exit = x /\ done.visitor = frame.visitor /\ done.node = frame.node
    BY <2>3, <2>4, <2>5, DoneSet
  <2>. QED
    BY <2>1, <2>3, <2>6
<1>8. PICK new : new = Append(Callers(frames, m), done)
  OBVIOUS
<1>9. PICK cd2 : cd2 = IF empty THEN Append(cd, bound)
                       ELSE Link(Append(cd, bound), frame.exit, n + 1)
  OBVIOUS
<1>10. frames' = new /\ code' = cd2 /\ pc' = "Building" /\ ast' = ast
       /\ temp_count_' = IF binds THEN free + 1 ELSE free
  <2>1. Below(l) = Callers(frames, m)
    <3>1. Len(frames) - l = m - 1
      OBVIOUS
    <3>. QED
      BY <3>1 DEF Below, Callers
  <2>. QED
    BY <1>1, <1>2, <1>3, <1>4, <1>6, <1>8, <1>9, <2>1 DEF ReturnDefinition
<1>11. /\ new \in Seq(Calls(n + 1)) /\ Len(new) = m
       /\ \A k \in 1 .. m - 1 : new[k] = frames[k]
       /\ new[m] = done
  <2>1. frames \in Seq(Calls(n + 1))
    BY <1>0, CallsGrow
  <2>2. IsReplaced(new, frames, m, done) /\ m \in 1 .. Len(frames)
    BY <1>0, <1>8 DEF IsReplaced
  <2>. QED
    BY <1>7, <2>1, <2>2, CallReplaced
<1>12. /\ frs \in Seq(Calls(n)) /\ Len(frs) = m
       /\ \A k \in 1 .. m - 1 : frs[k] = frames[k]
       /\ frs[m] = frame
  <2>1. frames \in Seq(Calls(n)) /\ frame \in Calls(n) /\ IsReplaced(frs, frames, m, frame) /\ m \in 1 .. Len(frames)
    BY <1>0
  <2>. QED
    BY <2>1, CallReplaced
<1>13. ~empty => frame.exit \in 1 .. n
  <2>1. m \in 1 .. Len(frs)
    BY <1>12
  <2>2. frame.entry \in Nat /\ frame.exit \in Nat
    BY <2>1, <1>12, CallTyped
  <2>3. ~empty => Normal < frame.entry /\ frame.entry <= frame.exit /\ frame.exit <= n
    BY <1>3, <1>12, <2>1 DEF Fragments, Bounded, IsEmpty
  <2>. QED
    BY <2>2, <2>3 DEF Normal
<1>14. /\ cd2 \in Seq(Instrs(Ats(ast), n + 1)) /\ Len(cd2) = n + 1
       /\ \A i \in 1 .. n :
            /\ cd2[i].prev = cd[i].prev
            /\ cd2[i].next = IF ~empty /\ i = frame.exit THEN n + 1 ELSE cd[i].next
            /\ cd2[i].temp = cd[i].temp
       /\ cd2[n + 1].next = Nil
       /\ cd2[n + 1].prev = IF empty THEN Nil ELSE frame.exit
       /\ cd2[n + 1].temp = bound.temp
  BY <1>5, <1>9, <1>13, CodeReturned
<1>15. Nesting(new)
  <2>1. IsInnermost(new[m])
    BY <1>7, <1>11 DEF IsInnermost
  <2>2. m \in 1 .. Len(frames) /\ Len(frames) \in Nat
    BY <1>0
  <2>. QED
    BY <1>0, <1>7, <1>11, <2>1, <2>2, NestingShrinks
<1>16. Fragments(new, cd2)
  <2>1. Extends(new, frs, frame, n)
    <3>1. \A k \in 1 .. Len(frs) - 1 : new[k].entry = frs[k].entry /\ new[k].exit = frs[k].exit
      BY <1>11, <1>12
    <3>2. /\ new[Len(new)].entry = IF IsEmpty(frame) THEN n + 1 ELSE frame.entry
          /\ new[Len(new)].exit = n + 1
      BY <1>3, <1>7, <1>11
    <3>. QED
      BY <3>1, <3>2, <1>11, <1>12 DEF Extends
  <2>2. LinksLast(cd2, cd, frame, n)
    BY <1>3, <1>14 DEF LinksLast
  <2>3. frame = frs[Len(frs)] /\ Len(frs) > 0 /\ frs \in Seq(Calls(n))
    BY <1>12
  <2>. QED
    BY <2>1, <2>2, <2>3, FragmentsReturned
<1>17. binds <=> m # 2
  <2>1. m \in 1 .. Len(frames) /\ m # 1
    BY <1>0
  <2>2. m = 2 => frames[m].visitor = "Effect"
    BY <1>0, <2>1, KindAt
  <2>3. m # 2 => frames[m].visitor = "Value"
    BY SMTT(30), <1>0, <2>1, KindAt
  <2>. QED
    BY <1>1, <2>2, <2>3
<1>18. ASSUME ~LoadsField(ast) PROVE Temps(new, cd2, temp_count_')
  <2>1. free = Waiting(frs)
    BY <1>2, <1>18
  <2>2. Waiting(new) = Waiting(frs)
    <3>1. new[2].node = frs[2].node
      BY <1>7, <1>11, <1>12
    <3>2. new[m - 1] = frs[m - 1]
      BY <1>11, <1>12
    <3>. QED
      BY <3>1, <3>2, <1>11, <1>12 DEF Waiting
  <2>3. Temps(frames, code, temp_count_)
    BY <1>0, <1>18
  <2>4. Answers(new, frames, m, n)
    <3>1. /\ new[m].stage = "done" /\ new[m].visitor = (IF m = 2 THEN "Effect" ELSE "Value")
          /\ new[m].result = (IF m = 2 THEN frames[m].result ELSE n + 1)
      BY <1>1, <1>7, <1>11, <1>17 DEF Calls
    <3>. QED
      BY <3>1, <1>11 DEF Answers
  <2>5. KeepsTemps(cd2, code, n)
    <3>1. DOMAIN code = 1 .. n /\ DOMAIN cd2 = 1 .. n + 1
      BY <1>0, <1>14
    <3>. QED
      BY <3>1, <1>14 DEF KeepsTemps
  <2>6. m # 2 => cd2[n + 1].temp = Waiting(new)
    BY <1>5, <1>14, <1>17, <2>1, <2>2
  <2>7. temp_count_' = Waiting(new) + (IF m = 2 THEN 0 ELSE 1)
    BY <1>10, <1>17, <2>1, <2>2
  <2>8. m <= Len(frames) /\ Len(frames) \in Nat
    BY <1>0
  <2>9. Temps(new, cd2, Waiting(new) + (IF m = 2 THEN 0 ELSE 1))
    BY <2>3, <2>4, <2>5, <2>6, <2>8, TempsReturned
  <2>. QED
    BY <2>7, <2>9
<1>19. /\ Len(new) \in 1 .. StackLimit /\ cd2 # <<>> /\ temp_count_' \in Int
       /\ Len(cd2) = n + 1
  BY <1>0, <1>2, <1>10, <1>11, <1>14
<1>. QED
  BY <1>0, <1>10, <1>11, <1>14, <1>15, <1>16, <1>18, <1>19, InvPrimed

(* The calls frs are frames with the two innermost ones joined in frame.   *)
Joins(frs, frame) ==
  /\ Len(frs) = Len(frames) - 1
  /\ \A k \in 1 .. Len(frames) - 2 :
       frs[k].entry = frames[k].entry /\ frs[k].exit = frames[k].exit
  /\ frs[Len(frs)].entry = frame.entry /\ frs[Len(frs)].exit = frame.exit

(* Append(for_value) or Append(for_effect), when a call has returned. *)
LEMMA MergeFacts ==
  ASSUME Inv, pc = "Building", Len(frames) > 1,
         NEW n \in Nat, n = Len(code), NEW L \in Nat, L = Len(frames),
         NEW merged, merged = AppendVisitor(Caller, Top), NEW cd, cd = LinkVisitor(Caller, Top)
  PROVE  /\ Caller \in Calls(n) /\ Caller = frames[L - 1]
         /\ Top \in Calls(n) /\ Top = frames[L]
         /\ merged \in Calls(n) /\ merged.visitor = Caller.visitor /\ merged.node = Caller.node
         /\ merged.stage = Caller.stage /\ merged.left = Caller.left
         /\ merged.result = Caller.result
         /\ cd \in Seq(Instrs(Ats(ast), n)) /\ Len(cd) = n
         /\ \A i \in 1 .. n : cd[i].temp = code[i].temp
         /\ \A frs : Joins(frs, merged) => Fragments(frs, cd)
<1>1. /\ frames \in Seq(Calls(n)) /\ code \in Seq(Instrs(Ats(ast), n)) /\ code # <<>>
      /\ Top \in Calls(n) /\ Top = frames[L] /\ Fragments(frames, code)
  BY Building
<1>2. Caller \in Calls(n) /\ Caller = frames[L - 1]
  BY <1>1 DEF Caller
<1>3. /\ merged \in Calls(n) /\ merged.visitor = Caller.visitor /\ merged.node = Caller.node
      /\ merged.stage = Caller.stage /\ merged.left = Caller.left /\ merged.result = Caller.result
  BY <1>1, <1>2, AppendVisitorTyped
<1>4. /\ cd \in Seq(Instrs(Ats(ast), n)) /\ Len(cd) = n
      /\ \A i \in 1 .. n : cd[i].temp = code[i].temp
  <2>1. CASE IsEmpty(Caller) \/ IsEmpty(Top)
    BY <1>1, <2>1 DEF LinkVisitor
  <2>2. CASE ~IsEmpty(Caller) /\ ~IsEmpty(Top)
    <3>1. L - 1 \in 1 .. Len(frames) /\ L \in 1 .. Len(frames)
      OBVIOUS
    <3>2. /\ Caller.entry \in Nat /\ Caller.exit \in Nat /\ Top.entry \in Nat /\ Top.exit \in Nat
      BY <1>1, <1>2, <3>1, CallTyped
    <3>3. Normal < Caller.entry /\ Caller.entry <= Caller.exit /\ Caller.exit <= n
      BY <1>1, <1>2, <2>2, <3>1 DEF Fragments, Bounded, IsEmpty
    <3>4. Normal < Top.entry /\ Top.entry <= Top.exit /\ Top.exit <= n
      BY <1>1, <2>2, <3>1 DEF Fragments, Bounded, IsEmpty
    <3>5. PICK one \in 1 .. Len(code), two \in 1 .. Len(code) : one = Caller.exit /\ two = Top.entry
      BY <3>2, <3>3, <3>4 DEF Normal
    <3>6. cd = Link(code, one, two)
      BY <2>2, <3>5 DEF LinkVisitor
    <3>7. one <= n /\ two <= n
      OBVIOUS
    <3>. QED
      BY <1>1, <3>6, <3>7, LinkKeeps
  <2>. QED
    BY <2>1, <2>2
<1>5. ASSUME NEW frs, Joins(frs, merged) PROVE Fragments(frs, cd)
  <2>1. /\ Len(frs) = Len(frames) - 1
        /\ \A k \in 1 .. Len(frames) - 2 :
             frs[k].entry = frames[k].entry /\ frs[k].exit = frames[k].exit
        /\ frs[Len(frs)].entry = AppendVisitor(Caller, Top).entry
        /\ frs[Len(frs)].exit = AppendVisitor(Caller, Top).exit
    BY <1>5 DEF Joins
  <2>2. cd = IF IsEmpty(Caller) \/ IsEmpty(Top) THEN code ELSE Link(code, Caller.exit, Top.entry)
    BY DEF LinkVisitor
  <2>3. Caller = frames[Len(frames) - 1] /\ Top = frames[Len(frames)]
    BY <1>1, <1>2
  <2>. QED
    BY ZenonT(30), <1>1, <1>2, <2>1, <2>2, <2>3, FragmentsMerged
<1>. QED
  BY <1>1, <1>2, <1>3, <1>4, <1>5

LEMMA AppendChildStep ==
  ASSUME Inv, AppendChild
  PROVE  Inv'
<1>1. /\ pc = "Building" /\ Len(frames) > 1 /\ Top.stage = "done"
      /\ Caller.node.kind = "Sequence" /\ Caller.stage = "child"
      /\ code' = LinkVisitor(Caller, Top)
      /\ frames' = Append(Below(2), [AppendVisitor(Caller, Top) EXCEPT !.stage = "enter"])
      /\ pc' = pc /\ ast' = ast /\ temp_count_' = temp_count_
  BY DEF AppendChild, Returning
<1>2. PICK n \in Nat \ {0}, L \in Nat,
          merged \in {AppendVisitor(Caller, Top)}, cd \in {LinkVisitor(Caller, Top)} :
        /\ n = Len(code) /\ L = Len(frames)
        /\ merged = AppendVisitor(Caller, Top) /\ cd = LinkVisitor(Caller, Top)
  BY <1>1, Building
<1>3. /\ Caller \in Calls(n) /\ Caller = frames[L - 1]
      /\ Top \in Calls(n) /\ Top = frames[L]
      /\ merged \in Calls(n) /\ merged.visitor = Caller.visitor /\ merged.node = Caller.node
      /\ merged.result = Caller.result
      /\ cd \in Seq(Instrs(Ats(ast), n)) /\ Len(cd) = n
      /\ \A frs : Joins(frs, merged) => Fragments(frs, cd)
  BY <1>1, <1>2, MergeFacts
<1>4. PICK f : f = [merged EXCEPT !.stage = "enter"]
  OBVIOUS
<1>5. /\ f \in Calls(n) /\ f.stage = "enter" /\ f.visitor = merged.visitor /\ f.node = merged.node
      /\ f.entry = merged.entry /\ f.exit = merged.exit /\ f.result = merged.result
  <2>1. "enter" \in Stages
    BY DEF Stages
  <2>. QED
    BY <1>3, <1>4, <2>1, StageSet
<1>6. L = 2
  <2>1. L - 1 \in 1 .. Len(frames) /\ ast \in Bodies /\ Nesting(frames) /\ Len(frames) \in Nat
    BY <1>1, <1>2, Building
  <2>2. L - 1 = 1
    BY <1>1, <1>3, <2>1, PlaceOf
  <2>. QED
    BY <2>2
<1>7. PICK new : new = frames'
  OBVIOUS
<1>8. new \in Seq(Calls(n)) /\ Len(new) = 1 /\ new[1] = f
  <2>1. PICK m \in 1 .. Len(frames) : m = 1
    BY <1>1
  <2>2. IsReplaced(new, frames, m, f)
    <3>1. Len(frames) - 2 = m - 1
      BY <1>2, <1>6, <2>1
    <3>. QED
      BY <1>1, <1>2, <1>4, <1>7, <3>1 DEF IsReplaced, Below, Callers
  <2>3. frames \in Seq(Calls(n)) /\ f \in Calls(n)
    BY <1>1, <1>2, <1>5, Building
  <2>4. /\ new \in Seq(Calls(n)) /\ Len(new) = m
        /\ \A k \in 1 .. m - 1 : new[k] = frames[k]
        /\ new[m] = f
    BY <2>2, <2>3, CallReplaced
  <2>. QED
    BY <2>1, <2>4
<1>9. Nesting(new)
  <2>1. IsInnermost(new[1])
    BY <1>5, <1>8 DEF IsInnermost
  <2>2. VisitsNode(frames, 1)
    BY <1>1, <1>2, <1>6, Building DEF Nesting
  <2>3. VisitsNode(new, 1)
    BY <2>2, <1>3, <1>5, <1>6, <1>8 DEF VisitsNode
  <2>. QED
    BY <1>8, <2>1, <2>3 DEF Nesting
<1>10. Fragments(new, cd)
  <2>1. Joins(new, merged)
    BY <1>2, <1>5, <1>6, <1>8 DEF Joins
  <2>. QED
    BY <1>3, <2>1
<1>11. ASSUME ~LoadsField(ast) PROVE Temps(new, cd, temp_count_)
  <2>1. Temps(frames, code, temp_count_) /\ Nesting(frames) /\ ast \in Bodies /\ 2 \in 1 .. Len(frames)
        /\ 1 \in 1 .. Len(frames)
    BY <1>1, <1>2, <1>6, <1>11, Building
  <2>2. frames[2].visitor = "Effect"
    BY <1>2, <2>1, KindAt
  <2>3. temp_count_ = 0
    <3>1. Waiting(frames) = 0 /\ ~Returned(frames)
      BY <1>2, <1>6, <2>2 DEF Waiting, Returned
    <3>. QED
      BY <2>1, <3>1 DEF Temps
  <2>4. frames[1].result = Nil
    BY <2>1 DEF Temps
  <2>5. new[1].result = Nil
    BY <2>4, <1>3, <1>5, <1>6, <1>8
  <2>. QED
    BY <1>5, <1>8, <2>3, <2>5 DEF Temps, Waiting, Returned
<1>12. /\ code' = cd /\ Len(new) \in 1 .. StackLimit /\ cd # <<>> /\ temp_count_ \in Int
       /\ ast \in Bodies
  BY <1>1, <1>2, <1>3, <1>8, Building
<1>. QED
  BY <1>1, <1>3, <1>7, <1>8, <1>9, <1>10, <1>11, <1>12, InvPrimed

(* The operand of a caller has returned: the counts of the temporaries.    *)
LEMMA OperandReturned ==
  ASSUME Inv, pc = "Building", ~LoadsField(ast), Len(frames) > 1, Top.stage = "done",
         Caller.node.kind \in {"StoreLocal", "BinaryOp"}
  PROVE  /\ Returned(frames) /\ Len(frames) > 2 /\ frames[2].node.kind # "Return"
         /\ temp_count_ = Waiting(frames) + 1
         /\ Top.result \in DOMAIN code /\ code[Top.result].temp = Waiting(frames)
<1>1. PICK L \in Nat : L = Len(frames)
  BY Building
<1>2. /\ ast \in Bodies /\ Nesting(frames) /\ L - 1 \in 1 .. Len(frames) /\ L \in 1 .. Len(frames)
      /\ Len(frames) \in Nat
      /\ Caller = frames[L - 1] /\ Top = frames[L] /\ Temps(frames, code, temp_count_)
  BY <1>1, Building DEF Caller
<1>3. L - 1 > 1 /\ (L - 1 = 2 => frames[2].node.kind = Caller.node.kind)
  BY <1>2, PlaceOf
<1>4. L > 2
  BY <1>3
<1>5. frames[2].node.kind # "Return"
  <2>1. CASE Caller.node.kind = "StoreLocal"
    <3>1. L - 1 = 2
      BY <1>2, <2>1, PlaceOf
    <3>. QED
      BY <1>3, <2>1, <3>1
  <2>2. CASE Caller.node.kind = "BinaryOp"
    BY <1>2, <2>2, PlaceOf
  <2>. QED
    BY <2>1, <2>2
<1>6. Top.visitor = "Value"
  BY <1>2, <1>4, <1>5, KindAt
<1>7. Returned(frames)
  BY <1>1, <1>2, <1>6 DEF Returned
<1>8. temp_count_ = Waiting(frames) + 1
  BY <1>2, <1>7 DEF Temps
<1>9. frames[L].result \in DOMAIN code /\ code[frames[L].result].temp = Waiting(frames)
  BY <1>1, <1>2, <1>7 DEF Temps
<1>. QED
  BY <1>1, <1>2, <1>4, <1>5, <1>7, <1>8, <1>9

LEMMA NewInstrTyped ==
  ASSUME NEW A, NEW n \in Nat, NEW op \in Opcodes, NEW at \in A, NEW inputs \in Seq(0 .. n)
  PROVE  /\ NewInstr(op, at, inputs) \in Instrs(A, n)
         /\ NewInstr(op, at, inputs).next = Nil /\ NewInstr(op, at, inputs).prev = Nil
         /\ NewInstr(op, at, inputs).inputs = inputs
  BY DEF NewInstr, Instrs, Nil

(* Append(for_value) on the way to ReturnDefinition. *)
LEMMA MergedStack ==
  ASSUME Inv, pc = "Building", Len(frames) > 1,
         NEW n \in Nat, n = Len(code), NEW m \in Nat \ {0}, Len(frames) = m + 1,
         NEW merged, merged = AppendVisitor(Caller, Top), NEW cd, cd = LinkVisitor(Caller, Top),
         NEW frs, IsReplaced(frs, frames, m, merged)
  PROVE  /\ Fragments(frs, cd) /\ Len(frs) = m
         /\ \A k \in 1 .. m - 1 : frs[k] = frames[k]
         /\ frs[m] = merged
<1>1. PICK L \in Nat : L = Len(frames)
  BY Building
<1>2. /\ merged \in Calls(n) /\ \A s : Joins(s, merged) => Fragments(s, cd)
  BY <1>1, MergeFacts
<1>3. frames \in Seq(Calls(n)) /\ m \in 1 .. Len(frames)
  BY Building
<1>4. /\ Len(frs) = m
      /\ \A k \in 1 .. m - 1 : frs[k] = frames[k]
      /\ frs[m] = merged
  <2>1. merged \in Calls(n)
    BY <1>2
  <2>. QED
    BY <1>3, <2>1, CallReplaced
<1>5. Joins(frs, merged)
  BY <1>4 DEF Joins
<1>. QED
  BY <1>2, <1>4, <1>5

LEMMA StoreLocalStep ==
  ASSUME Inv, StoreLocal
  PROVE  Inv'
<1>1. PICK n \in Nat \ {0}, m \in Nat \ {0}, l \in Nat \ {0},
          merged \in {AppendVisitor(Caller, Top)}, cd \in {LinkVisitor(Caller, Top)} :
        /\ n = Len(code) /\ Len(frames) = m + 1 /\ l = 2
        /\ merged = AppendVisitor(Caller, Top) /\ cd = LinkVisitor(Caller, Top)
  <2>1. Len(frames) > 1 /\ pc = "Building"
    BY DEF StoreLocal, Returning
  <2>2. PICK m \in Nat \ {0} : Len(frames) = m + 1
    <3>1. Len(frames) - 1 \in Nat \ {0} /\ Len(frames) = Len(frames) - 1 + 1
      BY <2>1, Building
    <3>. QED
      BY <3>1
  <2>. QED
    BY <2>1, <2>2, Building
<1>2. PICK instr : instr = NewInstr("StoreLocal", ast[Caller.node.stmt].dest, <<Top.result>>)
  OBVIOUS
<1>3. PICK frs : IsReplaced(frs, frames, m, merged)
  BY DEF IsReplaced
<1>4. /\ pc = "Building" /\ Len(frames) > 1 /\ Top.stage = "done"
      /\ Caller.node.kind = "StoreLocal" /\ Caller.stage = "value"
      /\ ReturnDefinition(Below(l), merged, cd, instr)
      /\ UNCHANGED <<pc, ast>>
  BY <1>1, <1>2 DEF StoreLocal, Returning
<1>5. /\ Caller = frames[m] /\ Top \in Calls(n)
      /\ merged \in Calls(n) /\ merged.visitor = Caller.visitor /\ merged.node = Caller.node
      /\ merged.result = Caller.result
      /\ cd \in Seq(Instrs(Ats(ast), n)) /\ Len(cd) = n
      /\ \A i \in 1 .. n : cd[i].temp = code[i].temp
  <2>1. PICK L \in Nat : L = Len(frames) /\ L - 1 = m
    BY <1>1
  <2>. QED
    BY <1>1, <1>4, <2>1, MergeFacts
<1>6. /\ Fragments(frs, cd) /\ Len(frs) = m
      /\ \A k \in 1 .. m - 1 : frs[k] = frames[k]
      /\ frs[m] = merged
  <2>1. /\ pc = "Building" /\ Len(frames) > 1 /\ n \in Nat /\ n = Len(code) /\ Len(frames) = m + 1
        /\ merged = AppendVisitor(Caller, Top) /\ cd = LinkVisitor(Caller, Top)
        /\ IsReplaced(frs, frames, m, merged)
    BY <1>1, <1>3, <1>4
  <2>. QED
    BY <2>1, MergedStack, SMTT(30)
<1>7. m = 2 /\ Caller.node.stmt \in DOMAIN ast
  <2>1. m \in 1 .. Len(frames) /\ ast \in Bodies /\ Nesting(frames) /\ Len(frames) \in Nat
    BY <1>1, <1>4, Building
  <2>. QED
    BY <1>4, <1>5, <2>1, PlaceOf
<1>8. /\ instr \in Instrs(Ats(ast), n + 1) /\ instr.next = Nil /\ instr.prev = Nil
      /\ instr.inputs = <<Top.result>>
  <2>1. PICK x \in Nat : x = n + 1
    OBVIOUS
  <2>2. PICK at \in Ats(ast) : at = ast[Caller.node.stmt].dest
    BY <1>7 DEF Ats
  <2>3. <<Top.result>> \in Seq(0 .. x)
    <3>1. Top.result \in 0 .. x
      BY <1>5, <2>1 DEF Calls
    <3>. QED
      BY <3>1
  <2>4. PICK inputs \in Seq(0 .. x) : inputs = <<Top.result>>
    BY <2>3
  <2>5. PICK op \in Opcodes : op = "StoreLocal"
    BY DEF Opcodes
  <2>6. instr = NewInstr(op, at, inputs)
    BY <1>2, <2>2, <2>4, <2>5
  <2>7. /\ instr \in Instrs(Ats(ast), x) /\ instr.next = Nil /\ instr.prev = Nil
        /\ instr.inputs = inputs
    BY <2>6, NewInstrTyped
  <2>. QED
    BY <2>1, <2>4, <2>7
<1>9. ~LoadsField(ast) => DeallocTemps(instr) = Waiting(frs)
  <2>. SUFFICES ASSUME ~LoadsField(ast) PROVE DeallocTemps(instr) = Waiting(frs)
    OBVIOUS
  <2>1. temp_count_ = Waiting(frames) + 1 /\ frames[2].node.kind # "Return"
    BY <1>4, OperandReturned
  <2>2. Waiting(frames) = 0
    <3>1. Len(frames) = 3 /\ frames[2].stage # "left"
      BY <1>1, <1>4, <1>5, <1>7
    <3>. QED
      BY <2>1, <3>1 DEF Waiting
  <2>3. Waiting(frs) = 0
    BY <1>6, <1>7 DEF Waiting
  <2>4. Len(instr.inputs) = 1
    BY <1>8
  <2>. QED
    BY <2>1, <2>2, <2>3, <2>4 DEF DeallocTemps
<1>10. /\ m > 1 /\ Len(frames) = m + l - 1 /\ merged.node.kind \notin {"Sequence", "Return"}
       /\ merged.visitor = frames[m].visitor /\ merged.node = frames[m].node
       /\ merged.result = frames[m].result
  BY <1>1, <1>4, <1>5, <1>7
<1>. QED
  BY SMTT(30), <1>1, <1>3, <1>4, <1>5, <1>6, <1>8, <1>9, <1>10, ReturnStep

(* The places that the instructions of an expression are for. *)
LEMMA PlaceIn ==
  ASSUME NEW body, NEW i \in DOMAIN body, NEW j \in DOMAIN body[i].value.leaves
  PROVE  /\ body[i].value.leaves[j] \in Ats(body)
         /\ OperatorPlace(body[i].value.ops[j]) \in Ats(body)
<1>1. /\ body[i].value.leaves[j] \in LeafPlaces(body, i) \cup OperatorPlaces(body, i)
      /\ OperatorPlace(body[i].value.ops[j]) \in LeafPlaces(body, i) \cup OperatorPlaces(body, i)
  BY DEF LeafPlaces, OperatorPlaces
<1>2. LeafPlaces(body, i) \cup OperatorPlaces(body, i) \subseteq Ats(body)
  BY DEF Ats
<1>. QED
  BY <1>1, <1>2

LEMMA BinaryOpStep ==
  ASSUME Inv, BinaryOp
  PROVE  Inv'
<1>1. PICK n \in Nat \ {0}, m \in Nat \ {0}, l \in Nat \ {0},
          merged \in {AppendVisitor(Caller, Top)}, cd \in {LinkVisitor(Caller, Top)} :
        /\ n = Len(code) /\ Len(frames) = m + 1 /\ l = 2
        /\ merged = AppendVisitor(Caller, Top) /\ cd = LinkVisitor(Caller, Top)
  <2>1. Len(frames) > 1 /\ pc = "Building"
    BY DEF BinaryOp, Returning
  <2>2. PICK m \in Nat \ {0} : Len(frames) = m + 1
    <3>1. Len(frames) - 1 \in Nat \ {0} /\ Len(frames) = Len(frames) - 1 + 1
      BY <2>1, Building
    <3>. QED
      BY <3>1
  <2>. QED
    BY <2>1, <2>2, Building
<1>. DEFINE place == OperatorPlace(ast[Caller.node.stmt].value.ops[Caller.node.leaf])
<1>2. PICK instr : instr = NewInstr("BinaryOp", place, Operands(Caller.left, Top.result))
  OBVIOUS
<1>3. PICK frs : IsReplaced(frs, frames, m, merged)
  BY DEF IsReplaced
<1>4. /\ pc = "Building" /\ Len(frames) > 1 /\ Top.stage = "done"
      /\ Caller.node.kind = "BinaryOp" /\ Caller.stage = "right"
      /\ ReturnDefinition(Below(l), merged, cd, instr)
      /\ UNCHANGED <<pc, ast>>
  BY <1>1, <1>2 DEF BinaryOp, Returning
<1>5. /\ Caller \in Calls(n) /\ Caller = frames[m] /\ Top \in Calls(n)
      /\ merged \in Calls(n) /\ merged.visitor = Caller.visitor /\ merged.node = Caller.node
      /\ merged.result = Caller.result
      /\ cd \in Seq(Instrs(Ats(ast), n)) /\ Len(cd) = n
      /\ \A i \in 1 .. n : cd[i].temp = code[i].temp
  <2>1. PICK L \in Nat : L = Len(frames) /\ L - 1 = m
    BY <1>1
  <2>. QED
    BY <1>1, <1>4, <2>1, MergeFacts
<1>6. /\ Fragments(frs, cd) /\ Len(frs) = m
      /\ \A k \in 1 .. m - 1 : frs[k] = frames[k]
      /\ frs[m] = merged
  <2>1. /\ pc = "Building" /\ Len(frames) > 1 /\ n \in Nat /\ n = Len(code) /\ Len(frames) = m + 1
        /\ merged = AppendVisitor(Caller, Top) /\ cd = LinkVisitor(Caller, Top)
        /\ IsReplaced(frs, frames, m, merged)
    BY <1>1, <1>3, <1>4
  <2>. QED
    BY <2>1, MergedStack, SMTT(30)
<1>7. m > 2 /\ IsExpr(Caller.node) /\ ast \in Bodies
  <2>1. m \in 1 .. Len(frames) /\ ast \in Bodies /\ Nesting(frames) /\ Len(frames) \in Nat
    BY <1>1, <1>4, Building
  <2>. QED
    BY <1>4, <1>5, <2>1, PlaceOf
<1>8. /\ instr \in Instrs(Ats(ast), n + 1) /\ instr.next = Nil /\ instr.prev = Nil
      /\ Len(instr.inputs) = 2
  <2>1. PICK x \in Nat : x = n + 1
    OBVIOUS
  <2>2. PICK at \in Ats(ast) : at = place
    <3>1. Caller.node.stmt \in DOMAIN ast
          /\ Caller.node.leaf \in DOMAIN ast[Caller.node.stmt].value.leaves
      BY <1>7, ExprFacts
    <3>. QED
      BY <3>1, PlaceIn
  <2>3. PICK inputs \in Seq(0 .. x) :
          inputs = Operands(Caller.left, Top.result) /\ Len(inputs) = 2
    <3>1. PICK left \in 0 .. x, right \in 0 .. x : left = Caller.left /\ right = Top.result
      BY <1>5, <2>1 DEF Calls
    <3>2. <<left, right>> \in Seq(0 .. x) /\ Len(<<left, right>>) = 2
      OBVIOUS
    <3>. QED
      BY <3>1, <3>2 DEF Operands
  <2>4. PICK op \in Opcodes : op = "BinaryOp"
    BY DEF Opcodes
  <2>5. instr = NewInstr(op, at, inputs)
    BY <1>2, <2>2, <2>3, <2>4
  <2>6. /\ instr \in Instrs(Ats(ast), x) /\ instr.next = Nil /\ instr.prev = Nil
        /\ instr.inputs = inputs
    BY <2>5, NewInstrTyped
  <2>. QED
    BY <2>1, <2>3, <2>6
<1>9. ~LoadsField(ast) => DeallocTemps(instr) = Waiting(frs)
  <2>. SUFFICES ASSUME ~LoadsField(ast) PROVE DeallocTemps(instr) = Waiting(frs)
    OBVIOUS
  <2>1. temp_count_ = Waiting(frames) + 1 /\ frames[2].node.kind # "Return"
    BY <1>4, OperandReturned
  <2>2. Waiting(frames) = m - 2
    <3>1. /\ Len(frames) - 3 = m - 2 /\ ~(Len(frames) < 3)
          /\ frames[Len(frames) - 1].stage # "left"
      BY <1>1, <1>4, <1>5, <1>7
    <3>. QED
      BY <2>1, <3>1 DEF Waiting
  <2>3. Waiting(frs) = m - 3
    <3>1. WaitsFor(frames[m - 1], frames[m])
      <4>1. m - 1 \in 1 .. Len(frames) - 1 /\ m - 1 + 1 = m
        BY <1>1, <1>7
      <4>. QED
        BY <1>4, <4>1, Building DEF Nesting
    <3>2. frames[m - 1].stage # "left"
      BY <1>4, <1>5, <3>1 DEF WaitsFor
    <3>3. frs[2].node.kind # "Return" /\ frs[m - 1] = frames[m - 1]
      <4>1. 2 \in 1 .. m - 1 /\ m - 1 \in 1 .. m - 1
        BY <1>7
      <4>. QED
        BY <1>6, <2>1, <4>1
    <3>. QED
      BY <1>6, <1>7, <3>2, <3>3 DEF Waiting
  <2>. QED
    BY <1>8, <2>1, <2>2, <2>3 DEF DeallocTemps
<1>10. /\ m > 1 /\ Len(frames) = m + l - 1 /\ merged.node.kind \notin {"Sequence", "Return"}
       /\ merged.visitor = frames[m].visitor /\ merged.node = frames[m].node
       /\ merged.result = frames[m].result
  BY <1>1, <1>4, <1>5, <1>7
<1>. QED
  BY SMTT(30), <1>1, <1>3, <1>4, <1>5, <1>6, <1>8, <1>9, <1>10, ReturnStep

(* VisitLeaf adds its instruction to the fragment of the innermost call.   *)
LEMMA VisitLeafStep ==
  ASSUME Inv, VisitLeaf
  PROVE  Inv'
<1>. DEFINE kind == IF Top.node.kind = "Literal" THEN "Constant" ELSE "LoadLocal"
            place == ast[Top.node.stmt].value.leaves[Top.node.leaf]
<1>1. /\ pc = "Building" /\ Top.node.kind \in LeafKinds /\ Top.stage = "enter"
      /\ ReturnDefinition(Below(1), Top, code, NewInstr(kind, place, <<>>))
      /\ UNCHANGED <<pc, ast>>
  BY DEF VisitLeaf, Visiting, LeafKinds
<1>2. PICK n \in Nat \ {0}, m \in Nat \ {0}, l \in Nat \ {0} :
        /\ n = Len(code) /\ Len(frames) = m /\ l = 1
  BY <1>1, Building
<1>3. PICK instr : instr = NewInstr(kind, place, <<>>)
  OBVIOUS
<1>4. PICK frs : IsReplaced(frs, frames, m, Top)
  BY DEF IsReplaced
<1>5. /\ Top \in Calls(n) /\ Top = frames[m] /\ frames \in Seq(Calls(n)) /\ ast \in Bodies
      /\ Nesting(frames) /\ Len(frames) \in Nat /\ m \in 1 .. Len(frames)
      /\ code \in Seq(Instrs(Ats(ast), n)) /\ Len(code) = n /\ Fragments(frames, code)
  BY <1>1, <1>2, Building
<1>6. /\ frs \in Seq(Calls(n)) /\ Len(frs) = m
      /\ \A k \in 1 .. m - 1 : frs[k] = frames[k]
      /\ frs[m] = Top
  BY <1>4, <1>5, CallReplaced
<1>7. \A k \in 1 .. m : frs[k] = frames[k]
  <2>1. \A k \in 1 .. m : k = m \/ k \in 1 .. m - 1
    OBVIOUS
  <2>. QED
    BY <1>5, <1>6, <2>1
<1>8. Fragments(frs, code)
  <2>1. /\ \A k \in 1 .. Len(frames) : frs[k].entry = frames[k].entry /\ frs[k].exit = frames[k].exit
        /\ \A k \in Len(frames) + 1 .. Len(frs) : frs[k].entry = Nil /\ frs[k].exit = Nil
        /\ Len(frs) \in Nat /\ Len(frs) >= Len(frames) /\ Len(code) \in Nat
    BY <1>2, <1>5, <1>6, <1>7
  <2>. QED
    BY <1>5, <2>1, FragmentsKept
<1>9. m > 2 /\ IsExpr(Top.node) /\ frames[2].node.kind # "Return"
  BY <1>1, <1>5, PlaceOf
<1>10. /\ instr \in Instrs(Ats(ast), n + 1) /\ instr.next = Nil /\ instr.prev = Nil
       /\ Len(instr.inputs) = 0
  <2>1. PICK x \in Nat : x = n + 1
    OBVIOUS
  <2>2. PICK at \in Ats(ast) : at = place
    <3>1. Top.node.stmt \in DOMAIN ast /\ Top.node.leaf \in DOMAIN ast[Top.node.stmt].value.leaves
      BY <1>5, <1>9, ExprFacts
    <3>. QED
      BY <3>1, PlaceIn
  <2>3. PICK inputs \in Seq(0 .. x) : inputs = <<>> /\ Len(inputs) = 0
    <3>1. <<>> \in Seq(0 .. x) /\ Len(<<>>) = 0
      OBVIOUS
    <3>. QED
      BY <3>1
  <2>4. PICK op \in Opcodes : op = kind
    BY DEF Opcodes
  <2>5. instr = NewInstr(op, at, inputs)
    BY <1>3, <2>2, <2>3, <2>4
  <2>6. /\ instr \in Instrs(Ats(ast), x) /\ instr.next = Nil /\ instr.prev = Nil
        /\ instr.inputs = inputs
    BY <2>5, NewInstrTyped
  <2>. QED
    BY <2>1, <2>3, <2>6
<1>11. ~LoadsField(ast) => DeallocTemps(instr) = Waiting(frs)
  <2>. SUFFICES ASSUME ~LoadsField(ast) PROVE DeallocTemps(instr) = Waiting(frs)
    OBVIOUS
  <2>1. Temps(frames, code, temp_count_)
    BY <1>1, Building
  <2>2. temp_count_ = Waiting(frames)
    <3>1. ~Returned(frames)
      BY <1>1, <1>2, <1>5 DEF Returned
    <3>2. Waiting(frames) \in Int
      BY <1>2, <1>9 DEF Waiting
    <3>. QED
      BY <2>1, <3>1, <3>2 DEF Temps
  <2>3. Waiting(frs) = Waiting(frames)
    <3>1. frs[2] = frames[2] /\ frs[m - 1] = frames[m - 1]
      BY <1>7, <1>9
    <3>. QED
      BY <1>2, <1>6, <3>1 DEF Waiting
  <2>4. temp_count_ \in Int
    BY <1>1, Building
  <2>. QED
    BY <1>10, <2>2, <2>3, <2>4 DEF DeallocTemps
<1>12. /\ m > 1 /\ Len(frames) = m + l - 1 /\ Top.node.kind \notin {"Sequence", "Return"}
       /\ Top.visitor = frames[m].visitor /\ Top.node = frames[m].node
       /\ Top.result = frames[m].result
  BY <1>1, <1>2, <1>5, <1>9 DEF LeafKinds
<1>13. ReturnDefinition(Below(l), Top, code, instr) /\ \A i \in 1 .. n : code[i].temp = code[i].temp
  BY <1>1, <1>2, <1>3
<1>14. /\ pc = "Building" /\ UNCHANGED <<pc, ast>>
       /\ ~LoadsField(ast) => DeallocTemps(instr) = Waiting(frs)
  BY <1>1, <1>11
<1>. QED
  BY SMTT(30), <1>2, <1>4, <1>5, <1>8, <1>10, <1>12, <1>13, <1>14, ReturnStep

(* The visits of fields end their call and add nothing. *)
LEMMA VisitFieldStep ==
  ASSUME Inv, VisitField
  PROVE  Inv'
<1>1. /\ pc = "Building" /\ Top.node.kind \in {"LoadField", "StoreField"} /\ Top.stage = "enter"
      /\ frames' = Append(Below(1), [Top EXCEPT !.stage = "done"])
      /\ UNCHANGED <<pc, ast, code, temp_count_>>
  BY DEF VisitField, Visiting
<1>2. PICK n \in Nat \ {0}, m \in Nat \ {0} : n = Len(code) /\ Len(frames) = m
  BY <1>1, Building
<1>3. PICK f : f = [Top EXCEPT !.stage = "done"]
  OBVIOUS
<1>4. /\ Top \in Calls(n) /\ Top = frames[m] /\ frames \in Seq(Calls(n)) /\ ast \in Bodies
      /\ Nesting(frames) /\ Len(frames) \in Nat /\ m \in 1 .. Len(frames)
      /\ Fragments(frames, code) /\ Len(code) \in Nat
      /\ m <= StackLimit /\ StackLimit \in Nat
  BY <1>1, <1>2, Building
<1>5. /\ f \in Calls(n) /\ f.stage = "done" /\ f.visitor = Top.visitor /\ f.node = Top.node
      /\ f.entry = Top.entry /\ f.exit = Top.exit /\ f.result = Top.result
  <2>1. "done" \in Stages
    BY DEF Stages
  <2>. QED
    BY <1>3, <1>4, <2>1, StageSet
<1>6. PICK new : new = frames'
  OBVIOUS
<1>7. /\ new \in Seq(Calls(n)) /\ Len(new) = m
      /\ \A k \in 1 .. m - 1 : new[k] = frames[k]
      /\ new[m] = f
  <2>1. IsReplaced(new, frames, m, f)
    BY <1>1, <1>2, <1>3, <1>6 DEF IsReplaced, Below, Callers
  <2>. QED
    BY <1>4, <1>5, <2>1, CallReplaced
<1>8. Nesting(new)
  <2>1. IsInnermost(new[m])
    BY <1>1, <1>5, <1>7 DEF IsInnermost
  <2>2. new[m].visitor = frames[m].visitor /\ new[m].node = frames[m].node
    BY <1>4, <1>5, <1>7
  <2>. QED
    BY <1>4, <1>7, <2>1, <2>2, NestingShrinks
<1>9. Fragments(new, code)
  <2>1. \A k \in 1 .. m : k = m \/ k \in 1 .. m - 1
    OBVIOUS
  <2>2. /\ \A k \in 1 .. Len(frames) : new[k].entry = frames[k].entry /\ new[k].exit = frames[k].exit
        /\ \A k \in Len(frames) + 1 .. Len(new) : new[k].entry = Nil /\ new[k].exit = Nil
        /\ Len(new) \in Nat /\ Len(new) >= Len(frames)
    BY <1>2, <1>4, <1>5, <1>7, <2>1
  <2>. QED
    BY <1>4, <2>2, FragmentsKept
<1>10. ASSUME ~LoadsField(ast) PROVE Temps(new, code, temp_count_)
  <2>1. Temps(frames, code, temp_count_)
    BY <1>1, <1>10, Building
  <2>2. Top.node.kind = "StoreField"
    <3>1. CASE Top.node.kind = "LoadField"
      <4>1. IsExpr(Top.node)
        BY <1>4, <3>1, PlaceOf DEF LeafKinds
      <4>. QED
        BY <1>4, <1>10, <3>1, <4>1, ExprFacts
    <3>. QED
      BY <1>1, <3>1
  <2>3. m = 2 /\ f.visitor = "Effect"
    BY <1>4, <1>5, <2>2, PlaceOf
  <2>4. temp_count_ = 0
    BY <1>2, <1>4, <1>5, <2>1, <2>3 DEF Temps, Waiting, Returned
  <2>5. ASSUME NEW k \in 1 .. 2 PROVE new[k].result = Nil
    <3>1. frames[k].result = Nil
      BY <1>2, <2>1, <2>3 DEF Temps
    <3>2. k = 2 \/ k \in 1 .. m - 1
      BY <2>3
    <3>. QED
      BY <1>4, <1>5, <1>7, <2>3, <3>1, <3>2
  <2>. QED
    BY <1>5, <1>7, <2>3, <2>4, <2>5 DEF Temps, Waiting, Returned
<1>11. /\ frames' = new /\ code' = code /\ temp_count_' = temp_count_ /\ pc' = "Building"
       /\ ast' = ast /\ Len(new) \in 1 .. StackLimit
       /\ code \in Seq(Instrs(Ats(ast), n)) /\ code # <<>> /\ temp_count_ \in Int
  BY <1>1, <1>2, <1>4, <1>6, <1>7, Building
<1>. QED
  BY <1>2, <1>4, <1>7, <1>8, <1>9, <1>10, <1>11, InvPrimed

(* AppendFragment is called when VisitSequence has returned. *)
LEMMA FinishGraphStep ==
  ASSUME Inv, FinishGraph
  PROVE  Inv'
<1>1. /\ pc = "Building" /\ Top.node.kind = "Sequence" /\ Top.stage = "enter"
      /\ code' = IF IsEmpty(Top) THEN code ELSE Link(code, Normal, Top.entry)
      /\ pc' = "Done" /\ UNCHANGED <<ast, frames, temp_count_>>
  BY DEF FinishGraph, Visiting
<1>2. PICK n \in Nat \ {0} : n = Len(code)
  BY <1>1, Building
<1>3. /\ Top \in Calls(n) /\ Top = frames[Len(frames)] /\ frames \in Seq(Calls(n)) /\ ast \in Bodies
      /\ Nesting(frames) /\ Len(frames) \in Nat /\ Len(frames) \in 1 .. Len(frames)
      /\ Fragments(frames, code) /\ code \in Seq(Instrs(Ats(ast), n)) /\ code # <<>>
      /\ Len(frames) \in 1 .. StackLimit /\ temp_count_ \in Int
  BY <1>1, <1>2, Building
<1>4. Len(frames) = 1 /\ Top = frames[1]
  <2>1. Len(frames) = 1
    BY <1>1, <1>3, PlaceOf
  <2>. QED
    BY <1>3, <2>1
<1>5. Listed(code')
  <2>1. Listed(IF IsEmpty(frames[1]) THEN code ELSE Link(code, Normal, frames[1].entry))
    BY <1>2, <1>3, <1>4, ListedAtEnd
  <2>. QED
    BY <1>1, <1>4, <2>1
<1>6. code' \in Seq(Instrs(Ats(ast), n)) /\ Len(code') = n
  <2>1. CASE IsEmpty(Top)
    BY <1>1, <1>2, <1>3, <2>1
  <2>2. CASE ~IsEmpty(Top)
    <3>1. Top.entry \in Nat /\ Top.exit \in Nat
      BY <1>3, CallTyped
    <3>2. Normal < Top.entry /\ Top.entry <= Top.exit /\ Top.exit <= n
      BY <1>2, <1>3, <2>2 DEF Fragments, Bounded, IsEmpty
    <3>3. PICK one \in 1 .. Len(code), two \in 1 .. Len(code) : one = Normal /\ two = Top.entry
      BY <1>2, <3>1, <3>2 DEF Normal
    <3>4. code' = Link(code, one, two)
      BY <1>1, <2>2, <3>3
    <3>5. one <= n /\ two <= n
      BY <1>2
    <3>. QED
      BY <1>2, <1>3, <3>4, <3>5, LinkKeeps
  <2>. QED
    BY <2>1, <2>2
<1>7. ~LoadsField(ast) => Temps(frames, code', temp_count_)
  <2>. SUFFICES ASSUME ~LoadsField(ast) PROVE Temps(frames, code', temp_count_)
    OBVIOUS
  <2>1. Temps(frames, code, temp_count_)
    BY <1>1, Building
  <2>2. ~Returned(frames)
    BY <1>1, <1>3 DEF Returned
  <2>. QED
    BY <1>4, <2>1, <2>2 DEF Temps
<1>8. Typed'
  BY <1>1, <1>2, <1>3, <1>6 DEF Typed
<1>9. Nesting(frames)'
  BY <1>1, <1>3, NestingPrimed
<1>10. Bounded(frames, Len(code'))
  BY <1>2, <1>3, <1>6 DEF Fragments
<1>. QED
  BY <1>1, <1>4, <1>5, <1>7, <1>8, <1>9, <1>10 DEF Inv

(* The left operand has returned: it is appended, and the right one begun. *)
LEMMA VisitRightStep ==
  ASSUME Inv, VisitRight
  PROVE  Inv'
<1>1. PICK n \in Nat \ {0}, m \in Nat \ {0},
          merged \in {AppendVisitor(Caller, Top)}, cd \in {LinkVisitor(Caller, Top)} :
        /\ n = Len(code) /\ Len(frames) = m + 1
        /\ merged = AppendVisitor(Caller, Top) /\ cd = LinkVisitor(Caller, Top)
  <2>1. Len(frames) > 1 /\ pc = "Building"
    BY DEF VisitRight, Returning
  <2>2. PICK m \in Nat \ {0} : Len(frames) = m + 1
    <3>1. Len(frames) - 1 \in Nat \ {0} /\ Len(frames) = Len(frames) - 1 + 1
      BY <2>1, Building
    <3>. QED
      BY <3>1
  <2>. QED
    BY <2>1, <2>2, Building
<1>2. PICK f, node, g :
        /\ f = [merged EXCEPT !.stage = "right", !.left = Top.result]
        /\ node = ExprNode(Caller.node.stmt, Caller.node.leaf + 1)
        /\ g = NewFrame("Value", node)
  OBVIOUS
<1>3. PICK frs : IsReplaced(frs, frames, m, merged)
  BY DEF IsReplaced
<1>4. /\ pc = "Building" /\ Len(frames) > 1 /\ Top.stage = "done"
      /\ Caller.node.kind = "BinaryOp" /\ Caller.stage = "left"
      /\ code' = cd /\ Visit(Below(2), f, "Value", node)
      /\ UNCHANGED <<ast, temp_count_>>
  BY <1>1, <1>2 DEF VisitRight, Returning
<1>5. /\ Caller \in Calls(n) /\ Caller = frames[m] /\ Top \in Calls(n)
      /\ merged \in Calls(n) /\ merged.visitor = Caller.visitor /\ merged.node = Caller.node
      /\ merged.result = Caller.result
      /\ cd \in Seq(Instrs(Ats(ast), n)) /\ Len(cd) = n
      /\ \A i \in 1 .. n : cd[i].temp = code[i].temp
  <2>1. PICK L \in Nat : L = Len(frames) /\ L - 1 = m
    BY <1>1
  <2>. QED
    BY <1>1, <1>4, <2>1, MergeFacts
<1>6. /\ Fragments(frs, cd) /\ Len(frs) = m
      /\ \A k \in 1 .. m - 1 : frs[k] = frames[k]
      /\ frs[m] = merged
  <2>1. /\ pc = "Building" /\ Len(frames) > 1 /\ n \in Nat /\ n = Len(code) /\ Len(frames) = m + 1
        /\ merged = AppendVisitor(Caller, Top) /\ cd = LinkVisitor(Caller, Top)
        /\ IsReplaced(frs, frames, m, merged)
    BY <1>1, <1>3, <1>4
  <2>. QED
    BY <2>1, MergedStack, SMTT(30)
<1>7. /\ ast \in Bodies /\ Nesting(frames) /\ m \in 1 .. Len(frames) /\ Len(frames) \in Nat
      /\ frames \in Seq(Calls(n)) /\ m + 1 <= StackLimit /\ StackLimit \in Nat
      /\ code \in Seq(Instrs(Ats(ast), n)) /\ code # <<>> /\ temp_count_ \in Int
  BY <1>1, <1>4, Building
<1>8. m > 2 /\ IsExpr(Caller.node) /\ frames[2].node.kind # "Return"
  BY <1>4, <1>5, <1>7, PlaceOf
<1>9. node \in NodeType /\ IsExpr(node)
  <2>1. PICK j : j = Caller.node.leaf + 1
    OBVIOUS
  <2>2. Caller.node.stmt \in DOMAIN ast /\ j \in DOMAIN ast[Caller.node.stmt].value.leaves
    BY <1>4, <1>7, <1>8, <2>1, ExprFacts
  <2>3. node = ExprNode(Caller.node.stmt, j)
    BY <1>2, <2>1
  <2>. QED
    BY <1>7, <2>2, <2>3, ExprKind
<1>10. /\ g \in Calls(n) /\ g.stage = "enter" /\ g.visitor = "Value" /\ g.node = node
       /\ g.entry = Nil /\ g.exit = Nil /\ g.result = Nil
  BY <1>2, <1>9, NewFrameTyped
<1>11. /\ f \in Calls(n) /\ f.stage = "right" /\ f.left = Top.result
       /\ f.visitor = merged.visitor /\ f.node = merged.node
       /\ f.entry = merged.entry /\ f.exit = merged.exit /\ f.result = merged.result
  <2>1. PICK v \in 0 .. n : v = Top.result
    BY <1>5 DEF Calls
  <2>2. IsRight(f, merged, v)
    BY <1>2, <2>1 DEF IsRight
  <2>. QED
    BY <1>5, <2>1, <2>2, LeftSet
<1>12. PICK new : IsPushed(new, frames, m, f, g)
  BY DEF IsPushed
<1>13. /\ new \in Seq(Calls(n)) /\ Len(new) = m + 1
       /\ \A k \in 1 .. m - 1 : new[k] = frames[k]
       /\ new[m] = f /\ new[m + 1] = g
  BY <1>7, <1>10, <1>11, <1>12, CallPushed
<1>14. frames' = new /\ pc' = "Building"
  <2>1. Below(2) = Callers(frames, m)
    <3>1. Len(frames) - 2 = m - 1
      BY <1>1
    <3>. QED
      BY <3>1 DEF Below, Callers
  <2>2. Len(Below(2)) + 1 < StackLimit
    <3>1. Len(Callers(frames, m)) = m - 1
      BY <1>7, CallersOf
    <3>. QED
      BY <1>7, <2>1, <3>1
  <2>. QED
    BY <1>2, <1>4, <1>12, <2>1, <2>2 DEF Visit, IsPushed
<1>15. Nesting(new)
  <2>1. /\ new[m].visitor = frames[m].visitor /\ new[m].node = frames[m].node
        /\ new[m + 1].stage = "enter"
    BY <1>5, <1>10, <1>11, <1>13
  <2>2. WaitsFor(new[m], new[m + 1])
    BY <1>4, <1>5, <1>11, <1>13 DEF WaitsFor
  <2>3. /\ m # 1 /\ new[m + 1].visitor = "Value"
        /\ IF frames[2].node.kind = "Return" THEN new[m + 1].node = frames[2].node
           ELSE IsExpr(new[m + 1].node)
    BY <1>8, <1>9, <1>10, <1>13
  <2>. QED
    BY <1>7, <1>13, <2>1, <2>2, <2>3, NestingPushed
<1>16. Fragments(new, cd)
  <2>1. \A k \in 1 .. m : k = m \/ k \in 1 .. m - 1
    OBVIOUS
  <2>2. \A k \in m + 1 .. m + 1 : k = m + 1
    OBVIOUS
  <2>3. frs \in Seq(Calls(n))
    BY <1>3, <1>5, <1>7, CallReplaced
  <2>4. /\ \A k \in 1 .. Len(frs) : new[k].entry = frs[k].entry /\ new[k].exit = frs[k].exit
        /\ \A k \in Len(frs) + 1 .. Len(new) : new[k].entry = Nil /\ new[k].exit = Nil
        /\ Len(new) \in Nat /\ Len(new) >= Len(frs) /\ Len(cd) \in Nat
    BY <1>5, <1>6, <1>10, <1>11, <1>13, <2>1, <2>2
  <2>. QED
    BY <1>6, <2>3, <2>4, FragmentsKept
<1>17. ASSUME ~LoadsField(ast) PROVE Temps(new, cd, temp_count_)
  <2>1. /\ temp_count_ = Waiting(frames) + 1
        /\ Top.result \in DOMAIN code /\ code[Top.result].temp = Waiting(frames)
    BY <1>4, <1>17, OperandReturned
  <2>2. Temps(frames, code, temp_count_)
    BY <1>4, <1>17, Building
  <2>3. Waiting(frames) = m - 3
    <3>1. /\ Len(frames) - 4 = m - 3 /\ ~(Len(frames) < 3)
          /\ frames[Len(frames) - 1].stage = "left"
      BY <1>1, <1>4, <1>5, <1>8
    <3>. QED
      BY <1>8, <3>1 DEF Waiting
  <2>4. Waiting(new) = m - 2
    <3>1. /\ Len(new) - 3 = m - 2 /\ ~(Len(new) < 3) /\ new[Len(new) - 1].stage # "left"
      BY <1>8, <1>11, <1>13
    <3>2. new[2].node.kind # "Return"
      BY <1>8, <1>13
    <3>. QED
      BY <3>1, <3>2 DEF Waiting
  <2>5. DOMAIN code = 1 .. n /\ DOMAIN cd = 1 .. n
    BY <1>1, <1>5, <1>7
  <2>6. ASSUME NEW k \in 3 .. m + 1, new[k].stage = "right"
        PROVE  new[k].left \in DOMAIN cd /\ cd[new[k].left].temp = k - 3
    <3>1. CASE k = m
      BY <1>5, <1>11, <1>13, <2>1, <2>3, <2>5, <3>1
    <3>2. CASE k = m + 1
      BY <1>10, <1>13, <2>6, <3>2
    <3>3. CASE k # m /\ k # m + 1
      <4>1. k \in 1 .. m - 1 /\ k \in 3 .. Len(frames) /\ new[k] = frames[k]
        BY <1>1, <1>13, <3>3
      <4>2. frames[k].left \in DOMAIN code /\ code[frames[k].left].temp = k - 3
        BY <2>2, <2>6, <4>1 DEF Temps
      <4>. QED
        BY <1>5, <2>5, <4>1, <4>2
    <3>. QED
      BY <3>1, <3>2, <3>3
  <2>7. ASSUME NEW k \in 1 .. m + 1, k <= 2 PROVE new[k].result = Nil
    <3>1. k \in 1 .. m - 1 /\ k \in 1 .. Len(frames)
      BY <1>1, <1>8, <2>7
    <3>. QED
      BY <1>13, <2>2, <2>7, <3>1 DEF Temps
  <2>8. ~Returned(new) /\ temp_count_ = Waiting(new)
    BY <1>10, <1>13, <2>1, <2>3, <2>4 DEF Returned
  <2>. QED
    BY <1>13, <2>4, <2>6, <2>7, <2>8 DEF Temps
<1>18. /\ code' = cd /\ ast' = ast /\ temp_count_' = temp_count_
       /\ Len(new) \in 1 .. StackLimit /\ cd # <<>>
  BY <1>4, <1>5, <1>7, <1>13
<1>. QED
  BY <1>5, <1>7, <1>13, <1>14, <1>15, <1>16, <1>17, <1>18, InvPrimed

-----------------------------------------------------------------------------
(* The invariant and what it gives *)

LEMMA InvNext == Inv /\ [Next]_vars => Inv'
<1>. SUFFICES ASSUME Inv, [Next]_vars PROVE Inv'
  OBVIOUS
<1>1. CASE UNCHANGED vars
  <2>1. pc' = pc /\ ast' = ast /\ frames' = frames /\ code' = code /\ temp_count_' = temp_count_
    BY <1>1 DEF vars
  <2>2. Nesting(frames)'
    BY <2>1, NestingPrimed DEF Inv
  <2>3. Typed'
    BY <2>1 DEF Inv, Typed
  <2>4. /\ IF pc' = "Done"
           THEN Len(frames') = 1 /\ Listed(code') /\ Bounded(frames', Len(code'))
           ELSE Fragments(frames', code')
        /\ ~LoadsField(ast') => Temps(frames', code', temp_count_')
    BY <2>1 DEF Inv
  <2>. QED
    BY <2>2, <2>3, <2>4 DEF Inv
<1>2. CASE Terminated
  BY <1>1, <1>2 DEF Terminated
<1>3. CASE VisitChild
  BY <1>3, VisitChildStep
<1>4. CASE AppendChild
  BY <1>4, AppendChildStep
<1>5. CASE FinishGraph
  BY <1>5, FinishGraphStep
<1>6. CASE VisitReturn
  BY <1>6, VisitReturnStep
<1>7. CASE VisitStoreLocal
  BY <1>7, VisitStoreLocalStep
<1>8. CASE StoreLocal
  BY <1>8, StoreLocalStep
<1>9. CASE VisitField
  BY <1>9, VisitFieldStep
<1>10. CASE VisitLeaf
  BY <1>10, VisitLeafStep
<1>11. CASE VisitLeft
  BY <1>11, VisitLeftStep
<1>12. CASE VisitRight
  BY <1>12, VisitRightStep
<1>13. CASE BinaryOp
  BY <1>13, BinaryOpStep
<1>. QED
  BY <1>1, <1>2, <1>3, <1>4, <1>5, <1>6, <1>7, <1>8, <1>9, <1>10, <1>11, <1>12, <1>13 DEF Next

LEMMA InvHolds == Spec => []Inv
  BY InvInit, InvNext, PTL DEF Spec

(* Types: the members of FlowGraphBuilder, the visitors and the            *)
(* instructions, whose pointers lead to instructions that exist; a visitor *)
(* has an entry_ exactly if it has an exit_.                               *)
THEOREM TypesHold == Spec => []TypeOK
<1>1. ASSUME Inv PROVE TypeOK
  <2>1. PICK n \in Nat : n = Len(code)
    BY <1>1 DEF Inv, Typed
  <2>2. /\ pc \in {"Building", "Done", "Crashed"} /\ ast \in Bodies
        /\ Len(frames) \in 1 .. StackLimit /\ temp_count_ \in Int
        /\ frames \in Seq(Calls(n)) /\ code \in Seq(Instrs(Ats(ast), n))
    BY <1>1, <2>1 DEF Inv, Typed
  <2>3. \A k \in DOMAIN frames :
          frames[k] \in FrameType /\ (frames[k].entry = Nil <=> frames[k].exit = Nil)
    <3>1. FrameType = Calls(n)
      BY <2>1, Zenon DEF FrameType, InstrRef, Calls
    <3>2. Bounded(frames, n)
      BY <1>1, <2>1 DEF Inv, Fragments
    <3>3. ASSUME NEW k \in DOMAIN frames PROVE frames[k].entry = Nil <=> frames[k].exit = Nil
      <4>a. k \in 1 .. Len(frames)
        BY <2>2
      <4>1. k \in 1 .. Len(frames) /\ frames[k].entry \in Nat /\ frames[k].exit \in Nat
        BY <2>2, <4>a, CallTyped
      <4>. QED
        BY <3>2, <4>1 DEF Bounded, Normal, Nil
    <3>. QED
      BY <2>2, <3>1, <3>3
  <2>4. ASSUME NEW i \in DOMAIN code
        PROVE  /\ code[i].op \in Opcodes /\ code[i].temp \in Int
               /\ \A k \in DOMAIN code[i].inputs : code[i].inputs[k] \in InstrRef
               /\ {code[i].next, code[i].prev} \subseteq InstrRef
    <3>1. PICK instr \in Instrs(Ats(ast), n) : instr = code[i]
      BY <2>2
    <3>2. instr.inputs \in Seq(0 .. n)
      BY DEF Instrs
    <3>3. \A k \in DOMAIN instr.inputs : instr.inputs[k] \in 0 .. n
      BY <3>2
    <3>. QED
      BY <2>1, <3>1, <3>3 DEF Instrs, InstrRef
  <2>. QED
    BY <2>2, <2>3, <2>4 DEF TypeOK
<1>. QED
  BY <1>1, InvHolds, PTL

LEMMA OneHolder ==
  ASSUME NEW n \in Nat, NEW frs \in Seq(Calls(n)), NEW cd, Fragments(frs, cd),
         NEW k \in 1 .. Len(frs), NEW l \in 1 .. Len(frs), NEW i \in Nat,
         Covers(frs[k], i), Covers(frs[l], i)
  PROVE  k = l
<1>1. /\ frs[k].entry \in Nat /\ frs[k].exit \in Nat
      /\ frs[l].entry \in Nat /\ frs[l].exit \in Nat
  BY CallTyped
<1>2. ~(k < l)
  BY <1>1 DEF Fragments, Ordered, Covers
<1>3. ~(l < k)
  BY <1>1 DEF Fragments, Ordered, Covers
<1>. QED
  BY <1>2, <1>3

(* Neighbours in the list agree, and every instruction is linked to the    *)
(* one created before it or starts a fragment that a visitor still holds:  *)
(* Do, Add, Bind, Append and AppendFragment lose no instruction.           *)
THEOREM NothingLost == Spec => []NoInstructionLost
<1>1. ASSUME Inv PROVE NoInstructionLost
  <2>1. PICK n \in Nat : n = Len(code)
    BY <1>1 DEF Inv, Typed
  <2>2. frames \in Seq(Calls(n)) /\ code \in Seq(Instrs(Ats(ast), n)) /\ DOMAIN code = 1 .. n
        /\ Len(frames) \in Nat /\ DOMAIN frames = 1 .. Len(frames)
    BY <1>1, <2>1 DEF Inv, Typed
  <2>3. Normal = 1 /\ Nil = 0
    BY DEF Normal, Nil
  <2>4. CASE pc = "Done"
    <3>1. \A i \in 1 .. n : Linked(code[i], i, 1, n)
      BY <1>1, <2>1, <2>4 DEF Inv, Listed
    <3>2. ASSUME NEW i \in 1 .. n, NEW j \in 1 .. n
          PROVE  code[i].next = j <=> code[j].prev = i
      BY <2>3, <3>1 DEF Linked
    <3>3. ASSUME NEW i \in 1 .. n, i # Normal
          PROVE  code[i].prev = i - 1
      BY <2>3, <3>1, <3>3 DEF Linked
    <3>. QED
      BY <2>2, <3>2, <3>3 DEF NoInstructionLost
  <2>5. CASE pc # "Done"
    <3>1. Fragments(frames, code)
      BY <1>1, <2>5 DEF Inv
    <3>2. \A k \in 1 .. Len(frames) : frames[k].entry \in Nat /\ frames[k].exit \in Nat
      BY <2>2, CallTyped
    <3>3. ASSUME NEW i \in 2 .. n
          PROVE  \E k \in 1 .. Len(frames) : HoldsFragmentOf(frames[k], code, i)
      BY <2>1, <2>3, <3>1 DEF Fragments
    <3>4. Linked(code[1], 1, 1, 1)
      BY <2>3, <3>1 DEF Fragments
    <3>5. ASSUME NEW k \in 1 .. Len(frames), NEW i \in 1 .. n, Covers(frames[k], i)
          PROVE  Linked(code[i], i, frames[k].entry, frames[k].exit) /\ frames[k].entry > 1
      <4>1. frames[k].entry > 1
        BY <2>3, <3>1, <3>2, <3>5 DEF Fragments, Bounded, Covers
      <4>2. i \in 2 .. n
        BY <3>2, <3>5, <4>1 DEF Covers
      <4>3. PICK l \in 1 .. Len(frames) : HoldsFragmentOf(frames[l], code, i)
        BY <3>3, <4>2
      <4>4. l = k
        BY <2>2, <3>1, <3>5, <4>2, <4>3, OneHolder DEF HoldsFragmentOf
      <4>. QED
        BY <4>1, <4>3, <4>4 DEF HoldsFragmentOf
    <3>6. ASSUME NEW i \in 1 .. n, NEW j \in 1 .. n, code[i].next = j
          PROVE  code[j].prev = i
      <4>1. i # 1
        BY <2>3, <3>4, <3>6 DEF Linked
      <4>2. PICK k \in 1 .. Len(frames) : HoldsFragmentOf(frames[k], code, i)
        BY <3>3, <4>1
      <4>3. j = i + 1 /\ Covers(frames[k], j) /\ j # frames[k].entry
        BY <2>3, <3>2, <3>6, <4>2 DEF HoldsFragmentOf, Covers, Linked
      <4>. QED
        BY <3>5, <4>3 DEF Linked
    <3>7. ASSUME NEW i \in 1 .. n, NEW j \in 1 .. n, code[j].prev = i
          PROVE  code[i].next = j
      <4>1. j # 1
        BY <2>3, <3>4, <3>7 DEF Linked
      <4>2. PICK k \in 1 .. Len(frames) : HoldsFragmentOf(frames[k], code, j)
        BY <3>3, <4>1
      <4>3. i = j - 1 /\ Covers(frames[k], i) /\ i # frames[k].exit
        BY <2>3, <3>2, <3>7, <4>2 DEF HoldsFragmentOf, Covers, Linked
      <4>. QED
        BY <3>5, <4>3 DEF Linked
    <3>8. ASSUME NEW i \in 1 .. n, i # Normal
          PROVE  \/ code[i].prev = i - 1
                 \/ /\ code[i].prev = Nil
                    /\ \E k \in 1 .. Len(frames) : frames[k].entry = i
      <4>1. PICK k \in 1 .. Len(frames) : HoldsFragmentOf(frames[k], code, i)
        BY <2>3, <3>3, <3>8
      <4>. QED
        BY <4>1 DEF HoldsFragmentOf, Linked
    <3>. QED
      BY <2>2, <2>5, <3>6, <3>7, <3>8 DEF NoInstructionLost
  <2>. QED
    BY <2>4, <2>5
<1>. QED
  BY <1>1, InvHolds, PTL

(* The calls that hold a value, when none of them loads a field. *)
LEMMA HoldingSet ==
  ASSUME Inv, ~LoadsField(ast)
  PROVE  LET w == Waiting(frames)
         IN  /\ w \in Nat
             /\ Returned(frames) => w + 2 < Len(frames)
             /\ Holding = 3 .. w + 2 \cup (IF Returned(frames) THEN {Len(frames)} ELSE {})
             /\ \A k \in 3 .. w + 2 : frames[k].stage = "right"
<1>1. PICK n \in Nat, L \in Nat \ {0} : n = Len(code) /\ L = Len(frames)
  BY BodiesAssumption DEF Inv, Typed
<1>2. /\ ast \in Bodies /\ Nesting(frames) /\ Temps(frames, code, temp_count_)
      /\ frames \in Seq(Calls(n)) /\ DOMAIN frames = 1 .. L /\ DOMAIN code = 1 .. n
      /\ Len(frames) \in Nat /\ Nil = 0
  BY <1>1 DEF Inv, Typed, Nil
<1>3. ASSUME NEW k \in 1 .. L - 1 PROVE WaitsFor(frames[k], frames[k + 1])
  BY <1>1, <1>2 DEF Nesting
<1>4. IsInnermost(frames[L])
  BY <1>1, <1>2 DEF Nesting
<1>5. ASSUME NEW k \in 1 .. L, k < L PROVE frames[k].stage # "done"
  BY <1>3, <1>5 DEF WaitsFor
<1>6. Held(L) # Nil <=> Returned(frames)
  <2>1. frames[L].stage # "right"
    BY <1>4 DEF IsInnermost
  <2>2. Held(L) = IF frames[L].stage = "done" THEN frames[L].result ELSE Nil
    BY <2>1 DEF Held
  <2>3. CASE Returned(frames)
    <3>1. frames[L].result \in 1 .. n
      BY <1>1, <1>2, <2>3 DEF Temps
    <3>. QED
      BY <1>1, <1>2, <2>2, <2>3, <3>1 DEF Returned
  <2>4. CASE frames[L].stage = "done" /\ frames[L].visitor # "Value"
    <3>1. L <= 2
      <4>1. L > 2 => frames[L].visitor = "Value"
        <5>1. L \in 1 .. Len(frames)
          BY <1>1
        <5>. QED
          BY <1>2, <5>1, KindAt
      <4>. QED
        BY <2>4, <4>1
    <3>2. frames[L].result = Nil
      <4>1. L \in 1 .. Len(frames)
        BY <1>1
      <4>. QED
        BY <1>2, <3>1, <4>1 DEF Temps
    <3>. QED
      BY <1>1, <2>2, <2>4, <3>2 DEF Returned
  <2>5. CASE frames[L].stage # "done"
    BY <1>1, <2>2, <2>5 DEF Returned
  <2>. QED
    BY <1>1, <2>3, <2>4, <2>5 DEF Returned
<1>7. ASSUME NEW k \in 1 .. L, k < L PROVE Held(k) # Nil <=> frames[k].stage = "right"
  <2>1. CASE frames[k].stage = "right"
    <3>1. k > 2
      <4>1. frames[k].node.kind = "BinaryOp"
        <5>1. k \in 1 .. L - 1
          BY <1>7
        <5>. QED
          BY <1>3, <2>1, <5>1 DEF WaitsFor
      <4>2. k \in 1 .. Len(frames)
        BY <1>1
      <4>. QED
        BY <1>2, <4>1, <4>2, PlaceOf
    <3>2. frames[k].left \in 1 .. n
      <4>1. k \in 3 .. Len(frames)
        BY <1>1, <3>1
      <4>. QED
        BY <1>2, <2>1, <4>1 DEF Temps
    <3>. QED
      BY <1>2, <2>1, <3>2 DEF Held
  <2>2. CASE frames[k].stage # "right"
    BY <1>5, <1>7, <2>2 DEF Held
  <2>. QED
    BY <2>1, <2>2
<1>8. \A k \in 1 .. L : k \in Holding <=> \/ k < L /\ frames[k].stage = "right"
                                          \/ k = L /\ Returned(frames)
  BY <1>2, <1>6, <1>7 DEF Holding
<1>9. Holding \subseteq 1 .. L
  BY <1>2 DEF Holding
<1>10. CASE L < 3
  <2>1. Waiting(frames) = 0
    BY <1>1, <1>10 DEF Waiting
  <2>2. ~Returned(frames)
    <3>1. L \in 1 .. Len(frames)
      BY <1>1
    <3>2. frames[L].visitor = "Effect"
      BY <1>2, <1>10, <3>1, KindAt
    <3>. QED
      BY <1>1, <3>2 DEF Returned
  <2>3. ASSUME NEW k \in 1 .. L, k < L PROVE frames[k].stage # "right"
    <3>1. k = 1 /\ k \in 1 .. L - 1 /\ k \in 1 .. Len(frames)
      BY <1>1, <1>10, <2>3
    <3>2. frames[k].node.kind = "Sequence"
      BY <1>2, <3>1, KindAt
    <3>. QED
      BY <1>3, <3>1, <3>2 DEF WaitsFor
  <2>. QED
    BY <1>8, <1>9, <2>1, <2>2, <2>3
<1>11. CASE L >= 3 /\ frames[2].node.kind = "Return"
  <2>1. Waiting(frames) = 0
    BY <1>11 DEF Waiting
  <2>2. ASSUME NEW k \in 1 .. L, k # 1 PROVE frames[k].node.kind = "Return"
    <3>1. k \in 1 .. Len(frames) /\ (k = 2 \/ k > 2)
      BY <1>1, <2>2
    <3>. QED
      BY <1>2, <1>11, <3>1, KindAt
  <2>3. ~Returned(frames)
    BY <1>1, <1>4, <1>11, <2>2 DEF Returned, IsInnermost
  <2>4. ASSUME NEW k \in 1 .. L, k < L PROVE frames[k].stage # "right"
    <3>1. k \in 1 .. L - 1 /\ 1 \in 1 .. Len(frames)
      BY <1>1, <2>4
    <3>2. frames[k].node.kind \in {"Sequence", "Return"}
      BY <1>2, <2>2, <3>1, KindAt
    <3>. QED
      BY <1>3, <3>1, <3>2 DEF WaitsFor
  <2>. QED
    BY <1>8, <1>9, <2>1, <2>3, <2>4
<1>12. CASE L >= 3 /\ frames[2].node.kind # "Return"
  <2>1. \A k \in 1 .. L : k > 2 => frames[k].node.kind \in LeafKinds \cup {"BinaryOp"}
    BY <1>1, <1>2, <1>12, KindAt
  <2>2. ASSUME NEW k \in 3 .. L - 1
        PROVE  /\ frames[k].node.kind = "BinaryOp"
               /\ \/ frames[k].stage = "right"
                  \/ frames[k].stage = "left" /\ k = L - 1
    <3>1. k \in 1 .. L - 1 /\ k \in 1 .. L /\ k > 2
      OBVIOUS
    <3>2. frames[k].node.kind = "BinaryOp" /\ frames[k].stage \in {"left", "right"}
      BY <1>3, <2>1, <3>1 DEF WaitsFor, LeafKinds
    <3>3. CASE frames[k].stage = "left" /\ k # L - 1
      <4>1. k + 1 \in 1 .. L - 1 /\ k + 1 \in 1 .. L /\ k + 1 > 2
        BY <3>1, <3>3
      <4>2. frames[k + 1].node.kind # "BinaryOp"
        BY <1>3, <3>1, <3>2, <3>3 DEF WaitsFor
      <4>3. frames[k + 1].node.kind \in LeafKinds
        BY <2>1, <4>1, <4>2
      <4>. QED
        BY <1>3, <4>1, <4>3 DEF WaitsFor, LeafKinds
    <3>. QED
      BY <3>2, <3>3
  <2>3. frames[1].stage # "right" /\ frames[2].stage \notin {"left", "right"}
    <3>1. 1 \in 1 .. L - 1 /\ 2 \in 1 .. L - 1 /\ 1 \in 1 .. Len(frames) /\ 2 \in 1 .. Len(frames)
      BY <1>1, <1>12
    <3>2. /\ frames[1].node.kind = "Sequence"
          /\ frames[2].node.kind \in {"Return", "StoreLocal", "StoreField"}
      BY <1>2, <3>1, KindAt
    <3>. QED
      BY <1>3, <3>1, <3>2 DEF WaitsFor
  <2>4. CASE frames[L - 1].stage = "left"
    <3>1. Waiting(frames) = L - 4 /\ L >= 4
      <4>1. L # 3
        BY <2>3, <2>4
      <4>. QED
        BY <1>1, <1>12, <2>4, <4>1 DEF Waiting
    <3>2. ASSUME NEW k \in 1 .. L, k < L PROVE frames[k].stage = "right" <=> k \in 3 .. L - 2
      <4>1. CASE k < 3
        BY <2>3, <4>1
      <4>2. CASE k >= 3
        BY <2>2, <2>4, <3>2, <4>2
      <4>. QED
        BY <4>1, <4>2
    <3>3. PICK w \in Nat : w = L - 4 /\ w + 2 = L - 2
      BY <1>12, <3>1
    <3>4. \A k \in 3 .. w + 2 : k \in 1 .. L /\ k < L /\ frames[k].stage = "right"
      BY <3>2, <3>3
    <3>5. ASSUME NEW k \in 1 .. L
          PROVE  k \in Holding <=> k \in 3 .. w + 2 \/ (k = L /\ Returned(frames))
      <4>1. CASE k < L
        BY <1>8, <3>2, <3>3, <4>1
      <4>2. CASE k = L
        BY <1>8, <3>3, <4>2
      <4>. QED
        BY <4>1, <4>2
    <3>6. Holding = 3 .. w + 2 \cup (IF Returned(frames) THEN {L} ELSE {})
      <4>1. 3 .. w + 2 \subseteq 1 .. L /\ L \in 1 .. L
        BY <3>4
      <4>2. CASE Returned(frames)
        BY <1>9, <3>5, <4>1, <4>2
      <4>3. CASE ~Returned(frames)
        <5>1. \A k \in 1 .. L : k \in Holding <=> k \in 3 .. w + 2
          BY <3>5, <4>3
        <5>2. Holding = 3 .. w + 2
          BY <1>9, <4>1, <5>1
        <5>. QED
          BY <4>3, <5>2
      <4>. QED
        BY <4>2, <4>3
    <3>7. w + 2 < L /\ w = Waiting(frames)
      BY <3>1, <3>3
    <3>. QED
      BY <1>1, <3>4, <3>6, <3>7
  <2>5. CASE frames[L - 1].stage # "left"
    <3>1. Waiting(frames) = L - 3
      BY <1>1, <1>12, <2>5 DEF Waiting
    <3>2. ASSUME NEW k \in 1 .. L, k < L PROVE frames[k].stage = "right" <=> k \in 3 .. L - 1
      <4>1. CASE k < 3
        BY <2>3, <4>1
      <4>2. CASE k >= 3
        BY <2>2, <2>5, <3>2, <4>2
      <4>. QED
        BY <4>1, <4>2
    <3>3. PICK w \in Nat : w = L - 3 /\ w + 2 = L - 1
      BY <1>12, <3>1
    <3>4. \A k \in 3 .. w + 2 : k \in 1 .. L /\ k < L /\ frames[k].stage = "right"
      BY <3>2, <3>3
    <3>5. ASSUME NEW k \in 1 .. L
          PROVE  k \in Holding <=> k \in 3 .. w + 2 \/ (k = L /\ Returned(frames))
      <4>1. CASE k < L
        BY <1>8, <3>2, <3>3, <4>1
      <4>2. CASE k = L
        BY <1>8, <3>3, <4>2
      <4>. QED
        BY <4>1, <4>2
    <3>6. Holding = 3 .. w + 2 \cup (IF Returned(frames) THEN {L} ELSE {})
      <4>1. 3 .. w + 2 \subseteq 1 .. L /\ L \in 1 .. L
        BY <3>4
      <4>2. CASE Returned(frames)
        BY <1>9, <3>5, <4>1, <4>2
      <4>3. CASE ~Returned(frames)
        <5>1. \A k \in 1 .. L : k \in Holding <=> k \in 3 .. w + 2
          BY <3>5, <4>3
        <5>2. Holding = 3 .. w + 2
          BY <1>9, <4>1, <5>1
        <5>. QED
          BY <4>3, <5>2
      <4>. QED
        BY <4>2, <4>3
    <3>7. w + 2 < L /\ w = Waiting(frames)
      BY <3>1, <3>3
    <3>. QED
      BY <1>1, <3>4, <3>6, <3>7
  <2>. QED
    BY <2>4, <2>5
<1>. QED
  BY <1>10, <1>11, <1>12

LEMMA SizeFromThree ==
  ASSUME NEW w \in Nat
  PROVE  IsFiniteSet(3 .. w + 2) /\ Cardinality(3 .. w + 2) = w
<1>1. PICK b \in Int : b = w + 2
  OBVIOUS
<1>2. /\ IsFiniteSet(3 .. b)
      /\ Cardinality(3 .. b) = IF 3 > b THEN 0 ELSE b - 3 + 1
  BY FS_Interval
<1>. QED
  BY <1>1, <1>2

(* While no field is loaded, the values that calls hold are in the         *)
(* temporaries from 0 up, outermost first, and temp_count_ is their        *)
(* number: AllocTemp and DeallocTemps follow the recursion of the visitors.*)
THEOREM TempsMatch == Spec => []TempsMatchDepth
<1>1. ASSUME Inv PROVE TempsMatchDepth
  <2>. SUFFICES ASSUME ~LoadsField(ast)
                PROVE  /\ temp_count_ = Cardinality(Holding)
                       /\ \A k \in Holding :
                            code[Held(k)].temp = Cardinality({ j \in Holding : j < k })
    BY DEF TempsMatchDepth
  <2>1. PICK w : w = Waiting(frames)
    OBVIOUS
  <2>2. PICK L \in Nat : L = Len(frames)
    BY <1>1 DEF Inv, Typed
  <2>3. /\ w \in Nat /\ (Returned(frames) => w + 2 < L)
        /\ Holding = 3 .. w + 2 \cup (IF Returned(frames) THEN {L} ELSE {})
        /\ \A k \in 3 .. w + 2 : frames[k].stage = "right"
    BY <1>1, <2>1, <2>2, HoldingSet
  <2>4. /\ Temps(frames, code, temp_count_) /\ temp_count_ = w + (IF Returned(frames) THEN 1 ELSE 0)
        /\ Holding \subseteq 1 .. L
    <3>1. DOMAIN frames = 1 .. L
      BY <1>1, <2>2 DEF Inv, Typed
    <3>. QED
      BY <1>1, <2>1, <3>1 DEF Inv, Temps, Holding
  <2>5. temp_count_ = Cardinality(Holding)
    <3>1. CASE Returned(frames)
      <4>1. PICK S : S = 3 .. w + 2
        OBVIOUS
      <4>2. IsFiniteSet(S) /\ Cardinality(S) = w /\ L \notin S
        BY <2>3, <3>1, <4>1, SizeFromThree
      <4>3. Cardinality(S \cup {L}) = w + 1
        BY <4>2, FS_AddElement
      <4>. QED
        BY <2>3, <2>4, <3>1, <4>1, <4>3
    <3>2. CASE ~Returned(frames)
      <4>1. Holding = 3 .. w + 2
        BY <2>3, <3>2
      <4>. QED
        BY <2>3, <2>4, <3>2, <4>1, SizeFromThree
    <3>. QED
      BY <3>1, <3>2
  <2>6. ASSUME NEW k \in Holding
        PROVE  code[Held(k)].temp = Cardinality({ j \in Holding : j < k })
    <3>1. CASE k \in 3 .. w + 2
      <4>1. frames[k].stage = "right" /\ k \in 3 .. Len(frames)
        BY <2>2, <2>3, <2>4, <3>1
      <4>2. Held(k) = frames[k].left
        BY <4>1 DEF Held
      <4>3. code[Held(k)].temp = k - 3
        BY <2>4, <4>1, <4>2 DEF Temps
      <4>4. PICK v \in Nat : v = k - 3
        BY <3>1
      <4>5. { j \in Holding : j < k } = 3 .. v + 2
        BY <2>3, <3>1, <4>4
      <4>. QED
        BY <4>3, <4>4, <4>5, SizeFromThree
    <3>2. CASE k = L /\ Returned(frames)
      <4>1. Held(k) = frames[L].result
        BY <2>2, <3>2 DEF Held, Returned
      <4>2. code[Held(k)].temp = w
        BY <2>1, <2>2, <2>4, <3>2, <4>1 DEF Temps
      <4>3. { j \in Holding : j < k } = 3 .. w + 2
        BY <2>3, <3>2
      <4>. QED
        BY <2>3, <4>2, <4>3, SizeFromThree
    <3>. QED
      BY <2>3, <3>1, <3>2
  <2>. QED
    BY <2>5, <2>6
<1>. QED
  BY <1>1, InvHolds, PTL

-----------------------------------------------------------------------------
(* What the graph computes.  The argument: every active call is at the     *)
(* child of its caller that the caller's stage names (Follows), so that    *)
(* the calls say which leaves have been visited; and executing the         *)
(* instructions made so far, in the order of creation, leaves in the       *)
(* temporaries the values that the active calls wait with, and in the      *)
(* locals what the completed statements store (Computes).                  *)
(*                                                                         *)
(* Execute and StoresUpTo are recursive functions on numbers.  What they   *)
(* compute is proved by induction, for each claim by the least number of   *)
(* which it fails (LeastMember).                                           *)

(* The node that a call has visited, or visits, for its caller.            *)
ChildNode(frame) ==
  CASE frame.node.kind = "Sequence" -> StatementNode(frame.next - 1)
    [] frame.node.kind = "StoreLocal" -> ExprNode(frame.node.stmt, 1)
    [] frame.node.kind = "BinaryOp" /\ frame.stage = "left" ->
         LeafNode(frame.node.stmt, frame.node.leaf)
    [] frame.node.kind = "BinaryOp" /\ frame.stage = "right" ->
         ExprNode(frame.node.stmt, frame.node.leaf + 1)
    [] OTHER -> frame.node

Follows(frs) == \A k \in 1 .. Len(frs) - 1 : frs[k + 1].node = ChildNode(frs[k])

(* VisitSequence stops only behind the last statement. *)
Counted(frs) ==
  /\ frs[1].next <= Len(ast) + 1
  /\ pc = "Done" => frs[1].next = Len(ast) + 1

(* Every instruction but `normal' reads values that exist.                 *)
Supplied(cd) ==
  \A i \in 2 .. Len(cd) :
    /\ cd[i].op \notin {"Constant", "LoadLocal"} => cd[i].inputs[1] \in 1 .. Len(cd)
    /\ cd[i].op = "BinaryOp" => cd[i].inputs[2] \in 1 .. Len(cd)

(* The value of the expression that starts at the j-th leaf of statement i. *)
Suffix(i, j) ==
  LET expr == ast[i].value
      last == Len(expr.leaves)
  IN  [k \in 1 .. 2 * (last - j) + 1 |->
         IF k <= last - j + 1 THEN expr.leaves[j + k - 1]
         ELSE OperatorPlace(expr.ops[2 * last - j + 1 - k])]

LeafValue(node) == <<ast[node.stmt].value.leaves[node.leaf]>>

NodeValue(node) ==
  IF node.kind = "BinaryOp" THEN Suffix(node.stmt, node.leaf) ELSE LeafValue(node)

(* How many statements have stored what they store. *)
Completed(frs) ==
  IF Len(frs) = 1 \/ frs[2].stage = "done" THEN frs[1].next - 1 ELSE frs[1].next - 2

(* What is in the temporaries and the locals when the instructions that    *)
(* there are have been executed in the order of creation.                  *)
Meaning(frs, state) ==
  /\ \A k \in 3 .. Len(frs) : frs[k].stage = "right" =>
       k - 3 \in DOMAIN state.temps /\ state.temps[k - 3] = LeafValue(frs[k].node)
  /\ Returned(frs) =>
       /\ Waiting(frs) \in DOMAIN state.temps
       /\ state.temps[Waiting(frs)] = NodeValue(frs[Len(frs)].node)
  /\ state.stores = StoresUpTo(ast)[Completed(frs)]


-----------------------------------------------------------------------------
(* Induction over a set of numbers *)

LEMMA LeastMember ==
  ASSUME NEW I \in SUBSET Nat, I # {}
  PROVE  \E m \in I : \A n \in I : m <= n
<1>. DEFINE less == { ss \in Nat \X Nat : ss[1] < ss[2] }
<1>1. IsWellFoundedOn(less, Nat)
  BY NatLessThanWellFounded DEF OpToRel
<1>. HIDE DEF less
<1>2. PICK m \in I : \A n \in I : <<n, m>> \notin less
  BY <1>1, WFMin
<1>3. ASSUME NEW n \in I PROVE m <= n
  <2>1. <<n, m>> \in Nat \X Nat
    BY <1>2
  <2>2. <<n, m>>[1] = n /\ <<n, m>>[2] = m
    OBVIOUS
  <2>3. ~(n < m)
    BY <1>2, <2>1, <2>2 DEF less
  <2>. QED
    BY <2>1, <2>3
<1>. QED
  BY <1>2, <1>3

(* A set that has 0 and, with a number, the next one has every number. *)
LEMMA Induction ==
  ASSUME NEW S, 0 \in S, \A n \in Nat : n \in S => n + 1 \in S
  PROVE  \A n \in Nat : n \in S
<1>. DEFINE out == { n \in Nat : n \notin S }
<1>1. CASE out = {}
  BY <1>1
<1>2. CASE out # {}
  <2>1. PICK m \in out : \A n \in out : m <= n
    BY <1>2, LeastMember
  <2>2. m \in Nat /\ m \notin S /\ m # 0
    OBVIOUS
  <2>3. m - 1 \in Nat /\ ~(m <= m - 1)
    BY <2>2
  <2>4. m - 1 \in S
    BY <2>1, <2>3
  <2>5. (m - 1) + 1 \in S
    BY <2>3, <2>4
  <2>. QED
    BY <2>2, <2>5
<1>. QED
  BY <1>1, <1>2

-----------------------------------------------------------------------------
(* The functions that the properties define by recursion *)

(* The stores after the first n statements, as a function f says. *)
StoresStep(f, n) ==
  IF ast[n].dest.on # "Local" THEN f[n - 1]
  ELSE Append(f[n - 1], [dest |-> ast[n].dest, value |-> SourceValue(ast[n].value)])

IsStores(f, last) ==
  /\ DOMAIN f = 0 .. last
  /\ f[0] = <<>>
  /\ \A n \in 1 .. last : f[n] = StoresStep(f, n)

LEMMA StoresExist == \A last \in Nat : \E f : IsStores(f, last)
<1>. DEFINE S == { last \in Nat : \E f : IsStores(f, last) }
<1>1. 0 \in S
  <2>1. IsStores([n \in 0 .. 0 |-> <<>>], 0)
    BY DEF IsStores
  <2>. QED
    BY <2>1
<1>2. ASSUME NEW last \in Nat, last \in S PROVE last + 1 \in S
  <2>1. PICK f : IsStores(f, last)
    BY <1>2
  <2>2. PICK v :
          v = IF ast[last + 1].dest.on # "Local" THEN f[last]
              ELSE Append(f[last], [dest |-> ast[last + 1].dest,
                                    value |-> SourceValue(ast[last + 1].value)])
    OBVIOUS
  <2>3. PICK g : g = [n \in 0 .. last + 1 |-> IF n = last + 1 THEN v ELSE f[n]]
    OBVIOUS
  <2>4. DOMAIN g = 0 .. last + 1 /\ g[0] = <<>>
    BY <2>1, <2>3 DEF IsStores
  <2>5. ASSUME NEW n \in 1 .. last + 1 PROVE g[n] = StoresStep(g, n)
    <3>1. g[n - 1] = f[n - 1]
      BY <2>3
    <3>2. CASE n = last + 1
      <4>1. g[n] = v /\ g[n - 1] = f[last]
        BY <2>3, <3>1, <3>2
      <4>. QED
        BY <2>2, <3>2, <4>1, Zenon DEF StoresStep
    <3>3. CASE n # last + 1
      <4>1. n \in 1 .. last /\ g[n] = f[n]
        BY <2>3, <3>3
      <4>2. f[n] = StoresStep(f, n)
        BY <2>1, <4>1 DEF IsStores
      <4>. QED
        BY <3>1, <4>1, <4>2, Zenon DEF StoresStep
    <3>. QED
      BY <3>2, <3>3
  <2>6. IsStores(g, last + 1)
    BY <2>4, <2>5 DEF IsStores
  <2>. QED
    BY <2>6
<1>. HIDE DEF S
<1>3. \A last \in Nat : last \in S
  BY <1>1, <1>2, Induction
<1>. QED
  BY <1>3 DEF S

LEMMA StoresUnfold ==
  ASSUME Len(ast) \in Nat
  PROVE  IsStores(StoresUpTo(ast), Len(ast))
<1>. DEFINE last == Len(ast)
            Is(f) == f = [n \in 0 .. last |-> IF n = 0 THEN <<>> ELSE StoresStep(f, n)]
<1>1. PICK f : IsStores(f, last)
  BY StoresExist
<1>2. PICK g : g = [n \in 0 .. last |-> f[n]]
  OBVIOUS
<1>3. Is(g)
  <2>1. ASSUME NEW n \in 0 .. last PROVE g[n] = IF n = 0 THEN <<>> ELSE StoresStep(g, n)
    <3>1. CASE n = 0
      BY <1>1, <1>2, <3>1 DEF IsStores
    <3>2. CASE n # 0
      <4>1. n \in 1 .. last /\ g[n] = f[n] /\ g[n - 1] = f[n - 1]
        BY <1>2, <3>2
      <4>2. f[n] = StoresStep(f, n)
        BY <1>1, <4>1 DEF IsStores
      <4>. QED
        BY <3>2, <4>1, <4>2, Zenon DEF StoresStep
    <3>. QED
      BY <3>1, <3>2
  <2>. QED
    BY <1>2, <2>1
<1>4. StoresUpTo(ast) = CHOOSE w : Is(w)
  BY Zenon DEF StoresUpTo, StoresStep
<1>5. Is(StoresUpTo(ast))
  <2>. HIDE DEF Is
  <2>. QED
    BY <1>3, <1>4
<1>6. PICK h : h = StoresUpTo(ast)
  OBVIOUS
<1>7. h = [n \in 0 .. last |-> IF n = 0 THEN <<>> ELSE StoresStep(h, n)]
  BY <1>5, <1>6
<1>8. IsStores(h, last)
  BY <1>7 DEF IsStores
<1>. QED
  BY <1>6, <1>8

(* The states between the instructions of a list, as a function f says.    *)
IsRunOf(f, list, last) ==
  /\ DOMAIN f = 0 .. last
  /\ f[0] = Blank
  /\ \A n \in 1 .. last : f[n] = Execute(code, f[n - 1], list[n])

LEMMA RunsExist == \A list : \A last \in Nat : \E f : IsRunOf(f, list, last)
<1>. SUFFICES ASSUME NEW list PROVE \A last \in Nat : \E f : IsRunOf(f, list, last)
  OBVIOUS
<1>. DEFINE S == { last \in Nat : \E f : IsRunOf(f, list, last) }
<1>1. 0 \in S
  <2>1. IsRunOf([n \in 0 .. 0 |-> Blank], list, 0)
    BY DEF IsRunOf
  <2>. QED
    BY <2>1
<1>2. ASSUME NEW last \in Nat, last \in S PROVE last + 1 \in S
  <2>1. PICK f : IsRunOf(f, list, last)
    BY <1>2
  <2>2. PICK v : v = Execute(code, f[last], list[last + 1])
    OBVIOUS
  <2>3. PICK g : g = [n \in 0 .. last + 1 |-> IF n = last + 1 THEN v ELSE f[n]]
    OBVIOUS
  <2>4. DOMAIN g = 0 .. last + 1 /\ g[0] = Blank
    BY <2>1, <2>3 DEF IsRunOf
  <2>5. ASSUME NEW n \in 1 .. last + 1 PROVE g[n] = Execute(code, g[n - 1], list[n])
    <3>1. g[n - 1] = f[n - 1]
      BY <2>3
    <3>2. CASE n = last + 1
      <4>1. g[n] = v /\ g[n - 1] = f[last]
        BY <2>3, <3>1, <3>2
      <4>. QED
        BY <2>2, <3>2, <4>1, Zenon
    <3>3. CASE n # last + 1
      <4>1. n \in 1 .. last /\ g[n] = f[n]
        BY <2>3, <3>3
      <4>2. f[n] = Execute(code, f[n - 1], list[n])
        BY <2>1, <4>1 DEF IsRunOf
      <4>. QED
        BY <3>1, <4>1, <4>2, Zenon
    <3>. QED
      BY <3>2, <3>3
  <2>6. IsRunOf(g, list, last + 1)
    BY <2>4, <2>5 DEF IsRunOf
  <2>. QED
    BY <2>6
<1>. HIDE DEF S
<1>3. \A last \in Nat : last \in S
  BY <1>1, <1>2, Induction
<1>. QED
  BY <1>3 DEF S

LEMMA RunUnfold ==
  ASSUME NEW list, Len(list) \in Nat
  PROVE  IsRunOf(Run(list), list, Len(list))
<1>. DEFINE last == Len(list)
            Is(w) == w = [n \in 0 .. last |-> IF n = 0 THEN Blank ELSE Execute(code, w[n - 1], list[n])]
<1>1. PICK f : IsRunOf(f, list, last)
  BY RunsExist
<1>2. PICK g : g = [n \in 0 .. last |-> f[n]]
  OBVIOUS
<1>3. Is(g)
  <2>1. ASSUME NEW n \in 0 .. last
        PROVE  g[n] = IF n = 0 THEN Blank ELSE Execute(code, g[n - 1], list[n])
    <3>1. CASE n = 0
      BY <1>1, <1>2, <3>1 DEF IsRunOf
    <3>2. CASE n # 0
      <4>1. n \in 1 .. last /\ g[n] = f[n] /\ g[n - 1] = f[n - 1]
        BY <1>2, <3>2
      <4>2. f[n] = Execute(code, f[n - 1], list[n])
        BY <1>1, <4>1 DEF IsRunOf
      <4>. QED
        BY <3>2, <4>1, <4>2, Zenon
    <3>. QED
      BY <3>1, <3>2
  <2>. QED
    BY <1>2, <2>1
<1>4. Run(list) = CHOOSE w : Is(w)
  BY Zenon DEF Run
<1>5. Is(Run(list))
  <2>. HIDE DEF Is
  <2>. QED
    BY <1>3, <1>4
<1>6. PICK h : h = Run(list)
  OBVIOUS
<1>7. h = [n \in 0 .. last |-> IF n = 0 THEN Blank ELSE Execute(code, h[n - 1], list[n])]
  BY <1>5, <1>6
<1>8. IsRunOf(h, list, last)
  BY <1>7 DEF IsRunOf
<1>. QED
  BY <1>6, <1>8

(* A finished list is walked in the order of creation.                     *)
LEMMA ChainListed ==
  ASSUME NEW last \in Nat \ {0}, last = Len(code), Listed(code)
  PROVE  /\ Len(Chain) = last
         /\ \A n \in 1 .. last - 1 : Chain[n] = n + 1
         /\ Chain[last] = Nil
<1>. DEFINE Is(w) == w = [n \in 0 .. Len(code) |->
                            IF n = 0 THEN Normal
                            ELSE IF w[n - 1] = Nil THEN Nil ELSE code[w[n - 1]].next]
            at == CHOOSE w : Is(w)
            walk == [n \in 0 .. last |-> IF n = last THEN Nil ELSE n + 1]
<1>1. \A n \in 1 .. last : code[n].next = IF n = last THEN Nil ELSE n + 1
  BY DEF Listed, Linked
<1>2. Is(walk)
  <2>1. ASSUME NEW n \in 0 .. last
        PROVE  walk[n] = IF n = 0 THEN Normal
                         ELSE IF walk[n - 1] = Nil THEN Nil ELSE code[walk[n - 1]].next
    <3>1. CASE n = 0
      BY <3>1 DEF Normal
    <3>2. CASE n # 0
      <4>1. walk[n - 1] = n /\ n \in 1 .. last
        BY <3>2
      <4>. QED
        BY <1>1, <3>2, <4>1 DEF Nil
    <3>. QED
      BY <3>1, <3>2
  <2>2. DOMAIN walk = 0 .. Len(code)
    OBVIOUS
  <2>. QED
    BY <2>1, <2>2
<1>3. Is(at)
  <2>. HIDE DEF Is
  <2>. QED
    BY <1>2
<1>4. PICK w : w = at
  OBVIOUS
<1>5. /\ w[0] = Normal
      /\ \A n \in 1 .. last : w[n] = IF w[n - 1] = Nil THEN Nil ELSE code[w[n - 1]].next
  <2>1. Is(w)
    <3>. HIDE DEF Is, at
    <3>. QED
      BY <1>3, <1>4
  <2>. HIDE DEF at
  <2>2. /\ DOMAIN w = 0 .. last
        /\ \A n \in 0 .. last : w[n] = IF n = 0 THEN Normal
                                      ELSE IF w[n - 1] = Nil THEN Nil ELSE code[w[n - 1]].next
    BY <2>1
  <2>. HIDE DEF Is
  <2>. QED
    BY <2>2
<1>6. \A n \in Nat : n <= last => w[n] = walk[n]
  <2>. DEFINE S == { k \in Nat : k <= last => w[k] = walk[k] }
  <2>1. 0 \in S
    BY <1>5 DEF Normal
  <2>2. ASSUME NEW n \in Nat, n \in S PROVE n + 1 \in S
    <3>. SUFFICES ASSUME n + 1 <= last PROVE w[n + 1] = walk[n + 1]
      OBVIOUS
    <3>1. w[n] = n + 1 /\ n + 1 \in 1 .. last /\ (n + 1) - 1 = n
      BY <2>2
    <3>2. w[n + 1] = code[n + 1].next
      BY <1>5, <3>1 DEF Nil
    <3>. QED
      BY <1>1, <3>1, <3>2
  <2>. HIDE DEF S
  <2>3. \A n \in Nat : n \in S
    BY <2>1, <2>2, Induction
  <2>. QED
    BY <2>3 DEF S
<1>7. Chain = [n \in 1 .. Len(code) |-> at[n]]
  BY Zenon DEF Chain
<1>. HIDE DEF at, Is
<1>8. Chain = [n \in 1 .. last |-> w[n]]
  BY <1>4, <1>7
<1>9. Len(Chain) = last /\ \A n \in 1 .. last : Chain[n] = w[n]
  BY <1>8
<1>10. ASSUME NEW n \in 1 .. last PROVE w[n] = IF n = last THEN Nil ELSE n + 1
  BY <1>6, n \in Nat, n <= last
<1>11. last \in 1 .. last /\ 1 .. last - 1 \subseteq 1 .. last /\ last \notin 1 .. last - 1
  OBVIOUS
<1>. HIDE DEF walk
<1>. QED
  BY <1>9, <1>10, <1>11

-----------------------------------------------------------------------------
(* The value of an expression *)

LEMMA ExprTyped ==
  ASSUME ast \in Bodies, NEW i \in DOMAIN ast
  PROVE  LET expr == ast[i].value
         IN  /\ Len(expr.leaves) \in Nat \ {0}
             /\ DOMAIN expr.leaves = 1 .. Len(expr.leaves)
             /\ expr.leaves \in Seq(Ats(ast))
             /\ Len(expr.ops) = Len(expr.leaves) - 1
             /\ DOMAIN expr.ops = 1 .. Len(expr.leaves) - 1
<1>. DEFINE leaves == ast[i].value.leaves
            ops == ast[i].value.ops
<1>1. /\ leaves \in Seq(Range(leaves)) /\ ops \in Seq(Range(ops)) /\ Len(ops) = Len(leaves) - 1
  BY BodiesAssumption DEF IsSequence
<1>2. Len(leaves) \in Nat \ {0} /\ DOMAIN leaves = 1 .. Len(leaves)
  BY TreeTyped
<1>3. \A j \in DOMAIN leaves : leaves[j] \in Ats(ast)
  BY PlaceIn
<1>. HIDE DEF leaves, ops
<1>4. DOMAIN ops = 1 .. Len(leaves) - 1
  BY <1>1
<1>5. leaves \in Seq(Ats(ast))
  BY <1>1, <1>2, <1>3
<1>. QED
  BY <1>1, <1>2, <1>4, <1>5 DEF leaves, ops

SpellsSuffix(s, i, j, last) ==
  /\ s \in Seq(Ats(ast)) /\ Len(s) = 2 * (last - j) + 1
  /\ \A k \in 1 .. last - j + 1 : s[k] = ast[i].value.leaves[j + k - 1]
  /\ \A k \in last - j + 2 .. 2 * (last - j) + 1 :
       s[k] = OperatorPlace(ast[i].value.ops[2 * last - j + 1 - k])

LEMMA SuffixTyped ==
  ASSUME ast \in Bodies, NEW i \in DOMAIN ast, NEW last, last = Len(ast[i].value.leaves),
         NEW j \in 1 .. last
  PROVE  SpellsSuffix(Suffix(i, j), i, j, last)
<1>. DEFINE leaves == ast[i].value.leaves
            Op(k) == OperatorPlace(ast[i].value.ops[k])
            suffix == [k \in 1 .. 2 * (last - j) + 1 |->
                         IF k <= last - j + 1 THEN leaves[j + k - 1] ELSE Op(2 * last - j + 1 - k)]
<1>1. last \in Nat \ {0} /\ \A k \in 1 .. last : leaves[k] \in Ats(ast) /\ Op(k) \in Ats(ast)
  <2>1. last \in Nat \ {0} /\ DOMAIN leaves = 1 .. last
    BY TreeTyped
  <2>2. \A k \in DOMAIN leaves : leaves[k] \in Ats(ast) /\ Op(k) \in Ats(ast)
    BY PlaceIn
  <2>. QED
    BY <2>1, <2>2
<1>2. Suffix(i, j) = suffix
  BY Zenon DEF Suffix
<1>. HIDE DEF leaves, Op
<1>3. ASSUME NEW k \in 1 .. 2 * (last - j) + 1 PROVE suffix[k] \in Ats(ast)
  <2>1. CASE k <= last - j + 1
    <3>1. j + k - 1 \in 1 .. last
      BY <1>1, <2>1
    <3>. QED
      BY <1>1, <2>1, <3>1
  <2>2. CASE ~(k <= last - j + 1)
    <3>1. 2 * last - j + 1 - k \in 1 .. last
      BY <1>1, <2>2
    <3>. QED
      BY <1>1, <2>2, <3>1
  <2>. QED
    BY <2>1, <2>2
<1>4. suffix \in Seq(Ats(ast)) /\ Len(suffix) = 2 * (last - j) + 1
  <2>1. PICK n \in Nat : n = 2 * (last - j) + 1
    BY <1>1
  <2>2. suffix \in [1 .. n -> Ats(ast)]
    BY <1>3, <2>1
  <2>3. PICK f \in [1 .. n -> Ats(ast)] : f = suffix
    BY <2>2
  <2>4. f \in Seq(Ats(ast)) /\ Len(f) = n
    OBVIOUS
  <2>. QED
    BY <2>1, <2>3, <2>4, Zenon
<1>5. /\ \A k \in 1 .. last - j + 1 : suffix[k] = leaves[j + k - 1]
      /\ \A k \in last - j + 2 .. 2 * (last - j) + 1 : suffix[k] = Op(2 * last - j + 1 - k)
  BY <1>1
<1>. HIDE DEF suffix
<1>. QED
  BY <1>2, <1>4, <1>5 DEF leaves, Op, SpellsSuffix

(* l op r, with r the rest of the expression, is l, r, op in postfix order. *)
LEMMA SuffixStep ==
  ASSUME ast \in Bodies, NEW i \in DOMAIN ast, NEW last, last = Len(ast[i].value.leaves),
         NEW j \in 1 .. last - 1
  PROVE  <<ast[i].value.leaves[j]>> \o Suffix(i, j + 1) \o <<OperatorPlace(ast[i].value.ops[j])>>
           = Suffix(i, j)
<1>1. last \in Nat \ {0} /\ j \in 1 .. last /\ j + 1 \in 1 .. last
  BY TreeTyped
<1>2. PICK leaf \in Ats(ast), op \in Ats(ast) :
        leaf = ast[i].value.leaves[j] /\ op = OperatorPlace(ast[i].value.ops[j])
  <2>1. j \in DOMAIN ast[i].value.leaves
    BY <1>1, TreeTyped
  <2>. QED
    BY <2>1, PlaceIn
<1>3. PICK m \in 1 .. last : m = j + 1
  BY <1>1
<1>31. PICK short, long : short = Suffix(i, m) /\ long = Suffix(i, j)
  OBVIOUS
<1>32. SpellsSuffix(short, i, m, last) /\ SpellsSuffix(long, i, j, last)
  BY <1>1, <1>31, SuffixTyped, Zenon
<1>33. short \in Seq(Ats(ast)) /\ long \in Seq(Ats(ast))
  BY <1>32 DEF SpellsSuffix
<1>4. /\ Len(short) = 2 * (last - j) - 1
      /\ \A k \in 1 .. last - j : short[k] = ast[i].value.leaves[j + k]
      /\ \A k \in last - j + 1 .. 2 * (last - j) - 1 :
           short[k] = OperatorPlace(ast[i].value.ops[2 * last - j - k])
  <2>2. /\ Len(short) = 2 * (last - m) + 1
        /\ \A k \in 1 .. last - m + 1 : short[k] = ast[i].value.leaves[m + k - 1]
        /\ \A k \in last - m + 2 .. 2 * (last - m) + 1 :
             short[k] = OperatorPlace(ast[i].value.ops[2 * last - m + 1 - k])
    BY <1>32 DEF SpellsSuffix
  <2>3. /\ 2 * (last - m) + 1 = 2 * (last - j) - 1 /\ last - m + 1 = last - j
        /\ last - m + 2 = last - j + 1
        /\ \A k \in Int : m + k - 1 = j + k /\ 2 * last - m + 1 - k = 2 * last - j - k
    BY <1>1, <1>3
  <2>4. ASSUME NEW k \in 1 .. last - j PROVE short[k] = ast[i].value.leaves[j + k]
    <3>1. m + k - 1 = j + k /\ k \in 1 .. last - m + 1
      BY <1>1, <1>3
    <3>. QED
      BY <2>2, <3>1
  <2>5. ASSUME NEW k \in last - j + 1 .. 2 * (last - j) - 1
        PROVE  short[k] = OperatorPlace(ast[i].value.ops[2 * last - j - k])
    <3>1. 2 * last - m + 1 - k = 2 * last - j - k /\ k \in last - m + 2 .. 2 * (last - m) + 1
      BY <1>1, <1>3
    <3>. QED
      BY <2>2, <3>1
  <2>. QED
    BY <2>2, <2>3, <2>4, <2>5
<1>5. /\ Len(long) = 2 * (last - j) + 1
      /\ \A k \in 1 .. last - j + 1 : long[k] = ast[i].value.leaves[j + k - 1]
      /\ \A k \in last - j + 2 .. 2 * (last - j) + 1 :
           long[k] = OperatorPlace(ast[i].value.ops[2 * last - j + 1 - k])
  BY <1>32 DEF SpellsSuffix
<1>6. PICK joined \in Seq(Ats(ast)) : joined = <<leaf>> \o short \o <<op>>
  <2>0. PICK A : A = Ats(ast)
    OBVIOUS
  <2>1. PICK s \in Seq(A) : s = short
    BY <1>33, <2>0
  <2>2. PICK l \in A, o \in A : l = leaf /\ o = op
    BY <2>0
  <2>3. <<l>> \o s \o <<o>> \in Seq(A)
    OBVIOUS
  <2>. QED
    BY <2>0, <2>1, <2>2, <2>3
<1>7. /\ Len(joined) = Len(short) + 2 /\ joined[1] = leaf
      /\ \A k \in 1 .. Len(short) : joined[k + 1] = short[k]
      /\ joined[Len(short) + 2] = op
  BY <1>6, <1>33
<1>80. last - j \in Nat \ {0}
  BY <1>1
<1>8. ASSUME NEW k \in 1 .. 2 * (last - j) + 1 PROVE joined[k] = long[k]
  <2>1. CASE k = 1
    <3>1. j + k - 1 = j /\ k \in 1 .. last - j + 1
      BY <1>1, <2>1
    <3>. QED
      BY <1>2, <1>5, <1>7, <2>1, <3>1
  <2>2. CASE k \in 2 .. last - j + 1
    <3>1. PICK h \in 1 .. last - j : k = h + 1 /\ h \in 1 .. Len(short) /\ j + k - 1 = j + h
      <4>1. k - 1 \in 1 .. last - j /\ k = (k - 1) + 1 /\ k - 1 \in 1 .. Len(short)
            /\ j + k - 1 = j + (k - 1)
        BY <1>1, <1>4, <2>2
      <4>. QED
        BY <4>1
    <3>2. joined[k] = short[h] /\ short[h] = ast[i].value.leaves[j + h]
      BY <1>4, <1>7, <3>1
    <3>3. long[k] = ast[i].value.leaves[j + k - 1]
      BY <1>5, <2>2
    <3>. QED
      BY <3>1, <3>2, <3>3
  <2>3. CASE k \in last - j + 2 .. 2 * (last - j)
    <3>1. PICK h \in last - j + 1 .. 2 * (last - j) - 1 :
            /\ k = h + 1 /\ h \in 1 .. Len(short)
            /\ 2 * last - j + 1 - k = 2 * last - j - h
      <4>1. /\ k - 1 \in last - j + 1 .. 2 * (last - j) - 1 /\ k = (k - 1) + 1
            /\ k - 1 \in 1 .. Len(short) /\ 2 * last - j + 1 - k = 2 * last - j - (k - 1)
        BY <1>1, <1>4, <2>3
      <4>. QED
        BY <4>1
    <3>2. joined[k] = short[h] /\ short[h] = OperatorPlace(ast[i].value.ops[2 * last - j - h])
      BY <1>4, <1>7, <3>1
    <3>3. long[k] = OperatorPlace(ast[i].value.ops[2 * last - j + 1 - k])
      BY <1>5, <2>3
    <3>. QED
      BY <3>1, <3>2, <3>3
  <2>4. CASE k = 2 * (last - j) + 1
    <3>1. k = Len(short) + 2 /\ k \in last - j + 2 .. 2 * (last - j) + 1
      <4>1. PICK d \in Nat \ {0} : d = last - j
        BY <1>80
      <4>2. Len(short) = 2 * d - 1 /\ k = 2 * d + 1 /\ last - j + 2 = d + 2
        BY <1>4, <2>4, <4>1
      <4>. QED
        BY <4>1, <4>2
    <3>2. 2 * last - j + 1 - k = j
      BY <1>1, <2>4
    <3>. QED
      BY <1>2, <1>5, <1>7, <3>1, <3>2, SMTT(30)
  <2>5. PICK d \in Nat \ {0} : d = last - j
    BY <1>80
  <2>6. k = 1 \/ k \in 2 .. d + 1 \/ k \in d + 2 .. 2 * d \/ k = 2 * d + 1
    BY <2>5
  <2>. QED
    BY <2>5, <2>6, <2>1, <2>2, <2>3, <2>4
<1>9. joined = long
  <2>1. Len(joined) = Len(long)
    BY <1>1, <1>4, <1>5, <1>7
  <2>2. \A k \in 1 .. Len(long) : joined[k] = long[k]
    BY <1>5, <1>8
  <2>. QED
    BY <1>33, <2>1, <2>2, SeqEqual
<1>. QED
  BY <1>2, <1>3, <1>31, <1>6, <1>9, Zenon

LEMMA SuffixWhole ==
  ASSUME ast \in Bodies, NEW i \in DOMAIN ast
  PROVE  Suffix(i, 1) = SourceValue(ast[i].value)
<1>1. PICK last \in Nat \ {0} : last = Len(ast[i].value.leaves)
  BY TreeTyped
<1>2. PICK leaves, ops : leaves = ast[i].value.leaves /\ ops = ast[i].value.ops
  OBVIOUS
<1>3. /\ leaves \in Seq(Ats(ast)) /\ Len(leaves) = last /\ DOMAIN leaves = 1 .. last
      /\ Len(ops) = last - 1 /\ DOMAIN ops = 1 .. last - 1
  BY <1>1, <1>2, ExprTyped, Zenon
<1>4. PICK places : places = [k \in 1 .. last - 1 |-> OperatorPlace(ops[k])]
  OBVIOUS
<1>5. \A k \in 1 .. last : OperatorPlace(ops[k]) \in Ats(ast)
  <2>1. \A k \in DOMAIN leaves : OperatorPlace(ops[k]) \in Ats(ast)
    BY <1>2, PlaceIn
  <2>. QED
    BY <1>3, <2>1
<1>6. PICK A : A = Ats(ast)
  OBVIOUS
<1>7. places \in Seq(A) /\ Len(places) = last - 1
  <2>1. PICK n \in Nat : n = last - 1
    BY <1>1
  <2>2. PICK f \in [1 .. n -> A] : f = places
    BY <1>4, <1>5, <1>6, <2>1
  <2>3. f \in Seq(A) /\ Len(f) = n
    OBVIOUS
  <2>. QED
    BY <2>1, <2>2, <2>3
<1>8. PICK reversed \in Seq(A) :
        reversed = Reverse(places) /\ Len(reversed) = last - 1
        /\ \A k \in 1 .. last - 1 : reversed[k] = places[last - k]
  <2>1. PICK n \in Nat : n = last - 1
    BY <1>1
  <2>2. Reverse(places) = [k \in 1 .. n |-> places[n - k + 1]]
    BY <1>7, <2>1 DEF Reverse
  <2>3. \A k \in 1 .. n : places[n - k + 1] \in A
    BY <1>7, <2>1
  <2>4. PICK f \in [1 .. n -> A] : f = Reverse(places)
    BY <2>2, <2>3
  <2>5. f \in Seq(A) /\ Len(f) = n
    OBVIOUS
  <2>6. \A k \in 1 .. last - 1 : f[k] = places[last - k]
    <3>1. \A k \in 1 .. n : n - k + 1 = last - k /\ f[k] = places[n - k + 1]
      BY <2>1, <2>2, <2>4
    <3>. QED
      BY <2>1, <3>1
  <2>. QED
    BY <2>1, <2>4, <2>5, <2>6
<1>9. SourceValue(ast[i].value) = leaves \o reversed
  <2>1. [k \in DOMAIN ops |-> OperatorPlace(ops[k])] = places
    BY <1>3, <1>4
  <2>. QED
    BY <1>2, <1>8, <2>1, Zenon DEF SourceValue
<1>10. PICK joined \in Seq(A) :
         /\ joined = leaves \o reversed /\ Len(joined) = 2 * last - 1
         /\ \A k \in 1 .. last : joined[k] = leaves[k]
         /\ \A k \in last + 1 .. 2 * last - 1 : joined[k] = reversed[k - last]
  <2>1. leaves \in Seq(A)
    BY <1>3, <1>6
  <2>2. leaves \o reversed \in Seq(A)
    BY <1>8, <2>1
  <2>3. /\ Len(leaves \o reversed) = last + (last - 1)
        /\ \A k \in 1 .. last + (last - 1) :
             (leaves \o reversed)[k] = IF k <= last THEN leaves[k] ELSE reversed[k - last]
    BY <1>3, <1>8, <2>1
  <2>4. \A k \in 1 .. last : k \in 1 .. last + (last - 1) /\ k <= last
    OBVIOUS
  <2>5. \A k \in last + 1 .. 2 * last - 1 : k \in 1 .. last + (last - 1) /\ ~(k <= last)
    OBVIOUS
  <2>6. last + (last - 1) = 2 * last - 1
    OBVIOUS
  <2>. QED
    BY <2>2, <2>3, <2>4, <2>5, <2>6
<1>11. PICK one \in 1 .. last : one = 1
  OBVIOUS
<1>111. PICK suffix : suffix = Suffix(i, one)
  OBVIOUS
<1>12. SpellsSuffix(suffix, i, one, last)
  BY <1>1, <1>111, SuffixTyped, Zenon
<1>13. /\ suffix \in Seq(A) /\ Len(suffix) = 2 * (last - one) + 1
       /\ \A k \in 1 .. last - one + 1 : suffix[k] = leaves[one + k - 1]
       /\ \A k \in last - one + 2 .. 2 * (last - one) + 1 :
            suffix[k] = OperatorPlace(ops[2 * last - one + 1 - k])
  BY <1>2, <1>6, <1>12 DEF SpellsSuffix
<1>14. ASSUME NEW k \in 1 .. 2 * last - 1 PROVE joined[k] = suffix[k]
  <2>1. CASE k <= last
    <3>1. one + k - 1 = k /\ k \in 1 .. last - one + 1
      BY <1>11, <2>1
    <3>. QED
      BY <1>10, <1>13, <2>1, <3>1
  <2>2. CASE ~(k <= last)
    <3>0. 2 * last - k \in 1 .. last - 1
      BY <2>2
    <3>1. PICK h \in 1 .. last - 1 : h = 2 * last - k
      BY <3>0
    <3>2. suffix[k] = OperatorPlace(ops[h])
      <4>1. 2 * last - one + 1 - k = h /\ k \in last - one + 2 .. 2 * (last - one) + 1
        BY <1>11, <2>2, <3>1
      <4>. QED
        BY <1>13, <4>1
    <3>3. joined[k] = places[h]
      <4>1. k - last \in 1 .. last - 1 /\ last - (k - last) = h /\ k \in last + 1 .. 2 * last - 1
        BY <2>2, <3>1
      <4>. QED
        BY <1>8, <1>10, <4>1
    <3>. QED
      BY <1>4, <3>2, <3>3
  <2>. QED
    BY <2>1, <2>2
<1>15. Len(suffix) = Len(joined) /\ Len(joined) = 2 * last - 1
  BY <1>10, <1>11, <1>13
<1>16. joined = suffix
  BY <1>13, <1>14, <1>15, SeqEqual
<1>. QED
  BY <1>9, <1>10, <1>11, <1>111, <1>16

(* What the visit of an expression returns. *)
LEMMA ExprValue ==
  ASSUME ast \in Bodies, NEW i \in DOMAIN ast, NEW j \in DOMAIN ast[i].value.leaves
  PROVE  NodeValue(ExprNode(i, j)) = Suffix(i, j)
<1>1. PICK last \in Nat \ {0} : last = Len(ast[i].value.leaves) /\ j \in 1 .. last
  BY TreeTyped
<1>2. CASE j # last
  BY <1>1, <1>2 DEF ExprNode, NodeValue
<1>3. CASE j = last
  <2>1. /\ ExprNode(i, j) = LeafNode(i, j) /\ LeafNode(i, j).kind # "BinaryOp"
        /\ LeafNode(i, j).stmt = i /\ LeafNode(i, j).leaf = j
    BY <1>1, <1>3 DEF ExprNode, LeafNode
  <2>2. NodeValue(ExprNode(i, j)) = <<ast[i].value.leaves[j]>>
    BY <2>1, Zenon DEF NodeValue, LeafValue
  <2>3. PICK suffix : suffix = Suffix(i, j)
    OBVIOUS
  <2>4. SpellsSuffix(suffix, i, j, last)
    BY <1>1, <2>3, SuffixTyped, Zenon
  <2>5. /\ suffix \in Seq(Ats(ast)) /\ Len(suffix) = 2 * (last - j) + 1
        /\ \A k \in 1 .. last - j + 1 : suffix[k] = ast[i].value.leaves[j + k - 1]
    BY <2>4 DEF SpellsSuffix
  <2>6. Len(suffix) = 1 /\ suffix[1] = ast[i].value.leaves[j]
    <3>1. last - j + 1 = 1 /\ j + 1 - 1 = j /\ 2 * (last - j) + 1 = 1
      BY <1>1, <1>3
    <3>. QED
      BY <2>5, <3>1
  <2>7. suffix = <<ast[i].value.leaves[j]>>
    <3>1. PICK A : A = Ats(ast)
      OBVIOUS
    <3>2. PICK s \in Seq(A) : s = suffix
      BY <2>5, <3>1
    <3>3. s = <<s[1]>>
      BY <2>6, <3>2
    <3>. QED
      BY <2>6, <3>2, <3>3
  <2>. QED
    BY <2>2, <2>3, <2>7
<1>. QED
  BY <1>2, <1>3

-----------------------------------------------------------------------------
(* What the instructions that there are compute does not change *)

SameFields(a, b) == a.op = b.op /\ a.at = b.at /\ a.inputs = b.inputs /\ a.temp = b.temp

(* new has the instructions of cd, whatever links they have.               *)
HasAllOf(new, cd) ==
  Len(cd) <= Len(new) /\ \A i \in 1 .. Len(cd) : SameFields(new[i], cd[i])

(* The states st when the instructions of cd run in order of creation.     *)
Runs(st, cd) ==
  /\ st[1] = Blank
  /\ \A n \in 2 .. Len(cd) : st[n] = Execute(cd, st[n - 1], n)

LEMMA ExecuteSame ==
  ASSUME NEW cd, Len(cd) \in Nat, Supplied(cd), NEW new, HasAllOf(new, cd),
         NEW n \in 2 .. Len(cd), NEW s
  PROVE  Execute(new, s, n) = Execute(cd, s, n)
<1>1. SameFields(new[n], cd[n])
  BY DEF HasAllOf
<1>2. CASE cd[n].op \in {"Constant", "LoadLocal"}
  BY <1>1, <1>2 DEF Execute, SameFields, Nil
<1>3. CASE cd[n].op = "BinaryOp"
  <2>1. /\ cd[n].inputs[1] \in 1 .. Len(cd) /\ cd[n].inputs[2] \in 1 .. Len(cd)
    BY <1>3 DEF Supplied
  <2>2. /\ new[cd[n].inputs[1]].temp = cd[cd[n].inputs[1]].temp
        /\ new[cd[n].inputs[2]].temp = cd[cd[n].inputs[2]].temp
    BY <2>1 DEF HasAllOf, SameFields
  <2>. QED
    BY <1>1, <1>3, <2>2 DEF Execute, SameFields, Nil
<1>4. CASE cd[n].op \notin {"Constant", "LoadLocal", "BinaryOp"}
  <2>1. cd[n].inputs[1] \in 1 .. Len(cd)
    BY <1>4 DEF Supplied
  <2>2. new[cd[n].inputs[1]].temp = cd[cd[n].inputs[1]].temp
    BY <2>1 DEF HasAllOf, SameFields
  <2>. QED
    BY <1>1, <1>4, <2>2 DEF Execute, SameFields, Nil
<1>. QED
  BY <1>2, <1>3, <1>4

LEMMA RunsKept ==
  ASSUME NEW cd, Len(cd) \in Nat, Supplied(cd), NEW new, Len(new) \in Nat, HasAllOf(new, cd),
         NEW st, Runs(st, new)
  PROVE  Runs(st, cd)
<1>1. ASSUME NEW n \in 2 .. Len(cd) PROVE st[n] = Execute(cd, st[n - 1], n)
  <2>1. n \in 2 .. Len(new)
    BY DEF HasAllOf
  <2>2. st[n] = Execute(new, st[n - 1], n)
    BY <2>1 DEF Runs
  <2>. QED
    BY <2>2, ExecuteSame
<1>. QED
  BY <1>1 DEF Runs

LEMMA SuppliedKept ==
  ASSUME NEW cd, Len(cd) \in Nat, Supplied(cd), NEW new, Len(new) = Len(cd), HasAllOf(new, cd)
  PROVE  Supplied(new)
  BY DEF Supplied, HasAllOf, SameFields

LEMMA SuppliedGrown ==
  ASSUME NEW n \in Nat, NEW cd, Len(cd) = n, Supplied(cd),
         NEW new, Len(new) = n + 1, HasAllOf(new, cd),
         new[n + 1].op \notin {"Constant", "LoadLocal"} => new[n + 1].inputs[1] \in 1 .. n,
         new[n + 1].op = "BinaryOp" => new[n + 1].inputs[2] \in 1 .. n
  PROVE  Supplied(new)
<1>1. ASSUME NEW i \in 2 .. n + 1
      PROVE  /\ new[i].op \notin {"Constant", "LoadLocal"} => new[i].inputs[1] \in 1 .. n
             /\ new[i].op = "BinaryOp" => new[i].inputs[2] \in 1 .. n
  <2>1. CASE i = n + 1
    BY <2>1
  <2>2. CASE i # n + 1
    <3>1. i \in 2 .. n /\ SameFields(new[i], cd[i])
      BY <2>2 DEF HasAllOf
    <3>2. /\ cd[i].op \notin {"Constant", "LoadLocal"} => cd[i].inputs[1] \in 1 .. n
          /\ cd[i].op = "BinaryOp" => cd[i].inputs[2] \in 1 .. n
      BY <3>1 DEF Supplied
    <3>. QED
      BY <3>1, <3>2 DEF SameFields
  <2>. QED
    BY <2>1, <2>2
<1>2. 1 .. n \subseteq 1 .. n + 1
  OBVIOUS
<1>. QED
  BY <1>1, <1>2 DEF Supplied

LEMMA LinkSame ==
  ASSUME NEW A, NEW n \in Nat, NEW cd \in Seq(Instrs(A, n)), NEW one, NEW two
  PROVE  /\ DOMAIN Link(cd, one, two) = DOMAIN cd
         /\ \A i \in 1 .. Len(cd) : SameFields(Link(cd, one, two)[i], cd[i])
<1>. DEFINE r1 == [cd[one] EXCEPT !.next = two]
            cd1 == [cd EXCEPT ![one] = r1]
            r2 == [cd1[two] EXCEPT !.prev = one]
<1>1. ASSUME NEW r \in Instrs(A, n), NEW v
      PROVE  SameFields([r EXCEPT !.next = v], r) /\ SameFields([r EXCEPT !.prev = v], r)
  BY DEF Instrs, SameFields
<1>2. DOMAIN cd1 = DOMAIN cd
  OBVIOUS
<1>3. ASSUME NEW i \in 1 .. Len(cd)
      PROVE  /\ SameFields(cd1[i], cd[i])
             /\ SameFields([cd1[i] EXCEPT !.prev = one], cd[i])
  <2>1. cd[i] \in Instrs(A, n) /\ i \in DOMAIN cd
    OBVIOUS
  <2>2. CASE i = one
    <3>1. cd1[i] = [cd[i] EXCEPT !.next = two]
      BY <2>1, <2>2
    <3>2. \A r \in Instrs(A, n) : SameFields([[r EXCEPT !.next = two] EXCEPT !.prev = one], r)
      BY DEF Instrs, SameFields
    <3>3. SameFields([[cd[i] EXCEPT !.next = two] EXCEPT !.prev = one], cd[i])
      BY <2>1, <3>2, Zenon
    <3>4. SameFields([cd[i] EXCEPT !.next = two], cd[i])
      BY <1>1, <2>1, Zenon
    <3>. QED
      BY <3>1, <3>3, <3>4, Zenon
  <2>3. CASE i # one
    <3>1. cd1[i] = cd[i]
      BY <2>1, <2>3
    <3>. QED
      BY <1>1, <2>1, <3>1 DEF SameFields
  <2>. QED
    BY <2>2, <2>3
<1>4. Link(cd, one, two) = [cd1 EXCEPT ![two] = r2]
  BY DEF Link
<1>. HIDE DEF cd1
<1>5. ASSUME NEW i \in 1 .. Len(cd) PROVE SameFields(Link(cd, one, two)[i], cd[i])
  <2>1. i \in DOMAIN cd1
    BY <1>2
  <2>2. CASE i = two
    <3>1. Link(cd, one, two)[i] = [cd1[i] EXCEPT !.prev = one]
      BY <1>4, <2>1, <2>2
    <3>. QED
      BY <1>3, <3>1
  <2>3. CASE i # two
    <3>1. Link(cd, one, two)[i] = cd1[i]
      BY <1>4, <2>1, <2>3
    <3>. QED
      BY <1>3, <3>1
  <2>. QED
    BY <2>2, <2>3
<1>. QED
  BY <1>2, <1>4, <1>5

(* What ReturnDefinition makes of the calls and of the instructions.       *)
ReturnsWith(m, frame, cd, instr) ==
  /\ Len(frames') = m
  /\ \A k \in 1 .. m - 1 : frames'[k] = frames[k]
  /\ frames'[m].stage = "done" /\ frames'[m].node = frame.node
  /\ frames'[m].visitor = frame.visitor
  /\ frame.visitor = "Value" => frames'[m].result = Len(cd) + 1
  /\ Len(code') = Len(cd) + 1 /\ HasAllOf(code', cd)
  /\ code'[Len(cd) + 1].op = instr.op /\ code'[Len(cd) + 1].at = instr.at
  /\ code'[Len(cd) + 1].inputs = instr.inputs

LEMMA CallGrows ==
  ASSUME NEW n \in Nat, NEW f \in Calls(n)
  PROVE  f \in Calls(n + 1)
  BY DEF Calls

LEMMA ReturnShape ==
  ASSUME NEW A, NEW n \in Nat, frames \in Seq(Calls(n)), temp_count_ \in Int,
         NEW m \in Nat \ {0}, NEW l \in Nat \ {0}, Len(frames) = m + l - 1,
         NEW frame \in Calls(n), NEW cd \in Seq(Instrs(A, n)), Len(cd) = n,
         NEW instr \in Instrs(A, n + 1), ReturnDefinition(Below(l), frame, cd, instr),
         Len(code') \in Nat, DOMAIN code' = 1 .. Len(code')
  PROVE  ReturnsWith(m, frame, cd, instr)
<1>1. PICK x \in Nat : x = n + 1
  OBVIOUS
<1>2. PICK free \in Int : free = DeallocTemps(instr)
  <2>1. Len(instr.inputs) \in Nat
    <3>1. instr.inputs \in Seq(0 .. n + 1)
      BY DEF Instrs
    <3>. QED
      BY <3>1
  <2>2. DeallocTemps(instr) \in Int
    BY <2>1 DEF DeallocTemps
  <2>. QED
    BY <2>2
<1>3. PICK bound : bound = [instr EXCEPT !.temp = IF frame.visitor = "Value" THEN free ELSE @]
  OBVIOUS
<1>4. /\ bound \in Instrs(A, x) /\ bound.op = instr.op /\ bound.at = instr.at
      /\ bound.inputs = instr.inputs
  BY <1>1, <1>3 DEF Instrs
<1>5. PICK grown : grown = Append(cd, bound)
  OBVIOUS
<1>6. /\ grown \in Seq(Instrs(A, x)) /\ Len(grown) = x /\ DOMAIN grown = 1 .. x
      /\ \A i \in 1 .. n : grown[i] = cd[i]
      /\ grown[x] = bound
  <2>1. cd \in Seq(Instrs(A, x))
    BY <1>1, InstrsGrow
  <2>. QED
    BY <1>1, <1>4, <1>5, <2>1
<1>7. /\ code' = IF IsEmpty(frame) THEN grown ELSE Link(grown, frame.exit, x)
      /\ frames' = Append(Below(l), [frame EXCEPT !.entry = IF IsEmpty(frame) THEN x ELSE @,
                                       !.exit = x, !.stage = "done",
                                       !.result = IF frame.visitor = "Value" THEN x ELSE @])
  BY <1>1, <1>2, <1>3, <1>5 DEF ReturnDefinition
<1>8. DOMAIN code' = 1 .. x /\ \A i \in 1 .. x : SameFields(code'[i], grown[i])
  <2>1. CASE IsEmpty(frame)
    BY <1>6, <1>7, <2>1 DEF SameFields
  <2>2. CASE ~IsEmpty(frame)
    <3>1. PICK e : e = frame.exit
      OBVIOUS
    <3>2. /\ DOMAIN Link(grown, e, x) = DOMAIN grown
          /\ \A i \in 1 .. Len(grown) : SameFields(Link(grown, e, x)[i], grown[i])
      BY <1>6, LinkSame
    <3>. QED
      BY <1>6, <1>7, <2>2, <3>1, <3>2
  <2>. QED
    BY <2>1, <2>2
<1>9. Len(code') = n + 1
  <2>1. PICK c \in Nat : c = Len(code')
    OBVIOUS
  <2>2. 1 .. c = 1 .. x
    BY <1>8, <2>1
  <2>3. c = 0 \/ c \in 1 .. x
    <3>1. c = 0 \/ c \in 1 .. c
      OBVIOUS
    <3>. QED
      BY <2>2, <3>1
  <2>4. x \in 1 .. c
    <3>1. x \in 1 .. x
      BY <1>1
    <3>. QED
      BY <2>2, <3>1
  <2>5. c = x
    BY <2>3, <2>4
  <2>. QED
    BY <1>1, <2>1, <2>5
<1>10. HasAllOf(code', cd)
  <2>1. \A i \in 1 .. n : i \in 1 .. x
    BY <1>1
  <2>. QED
    BY <1>6, <1>8, <1>9, <2>1 DEF HasAllOf, SameFields
<1>11. /\ code'[x].op = instr.op /\ code'[x].at = instr.at /\ code'[x].inputs = instr.inputs
  <2>1. x \in 1 .. x
    BY <1>1
  <2>. QED
    BY <1>4, <1>6, <1>8, <2>1 DEF SameFields
<1>12. PICK done : done = [frame EXCEPT !.entry = IF IsEmpty(frame) THEN x ELSE @,
                                       !.exit = x, !.stage = "done",
                                       !.result = IF frame.visitor = "Value" THEN x ELSE @]
  OBVIOUS
<1>13. /\ done \in Calls(x) /\ done.stage = "done" /\ done.node = frame.node
       /\ done.visitor = frame.visitor
       /\ frame.visitor = "Value" => done.result = x
  <2>0. /\ frame \in Calls(n + 1) /\ n + 1 \in 0 .. n + 1
        /\ (IF IsEmpty(frame) THEN n + 1 ELSE frame.entry) \in 0 .. n + 1
        /\ (IF frame.visitor = "Value" THEN n + 1 ELSE frame.result) \in 0 .. n + 1
    <3>1. /\ frame.entry \in 0 .. n /\ frame.result \in 0 .. n
          /\ 0 .. n \subseteq 0 .. n + 1 /\ n + 1 \in 0 .. n + 1
      BY DEF Calls
    <3>2. frame \in Calls(n + 1)
      BY CallGrows
    <3>. QED
      BY <3>1, <3>2
  <2>1. PICK e \in 0 .. x, r \in 0 .. x :
             /\ e = IF IsEmpty(frame) THEN x ELSE frame.entry
             /\ r = IF frame.visitor = "Value" THEN x ELSE frame.result
    BY <1>1, <2>0
  <2>2. frame \in Calls(x) /\ x \in 0 .. x
    BY <1>1, <2>0
  <2>3. IsDone(done, frame, e, x, r)
    BY <1>12, <2>1 DEF IsDone
  <2>4. /\ done \in Calls(x) /\ done.stage = "done" /\ done.result = r
        /\ done.visitor = frame.visitor /\ done.node = frame.node
    BY <2>2, <2>3, DoneSet
  <2>. QED
    BY <2>1, <2>4
<1>14. /\ Len(frames') = m /\ \A k \in 1 .. m - 1 : frames'[k] = frames[k]
       /\ frames'[m] = done
  <2>1. frames \in Seq(Calls(x))
    BY <1>1, CallsGrow
  <2>2. Below(l) = Callers(frames, m)
    <3>1. Len(frames) - l = m - 1
      OBVIOUS
    <3>. QED
      BY <3>1 DEF Below, Callers
  <2>3. IsReplaced(frames', frames, m, done) /\ m \in 1 .. Len(frames)
    BY <1>7, <1>12, <2>2 DEF IsReplaced
  <2>. QED
    BY <1>13, <2>1, <2>3, CallReplaced
<1>. QED
  BY <1>1, <1>9, <1>10, <1>11, <1>13, <1>14 DEF ReturnsWith

-----------------------------------------------------------------------------
(* However the instructions run, they have computed what the calls say.    *)
Computes(frs, cd) == \A st : Runs(st, cd) => Meaning(frs, st[Len(cd)])

Sound ==
  /\ Follows(frames)
  /\ Counted(frames)
  /\ ~LoadsField(ast) => Supplied(code) /\ Computes(frames, code)

LEMMA SoundPrimed ==
  ASSUME ast' = ast, Follows(frames'), frames'[1].next <= Len(ast) + 1,
         pc' = "Done" => frames'[1].next = Len(ast) + 1,
         ~LoadsField(ast) => Supplied(code') /\ Computes(frames', code')
  PROVE  Sound'
<1>1. Follows(frames)'
  BY DEF Follows, ChildNode, StatementNode, ExprNode, LeafNode
<1>2. Counted(frames)'
  BY DEF Counted
<1>3. ASSUME ~LoadsField(ast)' PROVE Supplied(code)' /\ Computes(frames, code)'
  <2>1. Supplied(code') /\ Computes(frames', code')
    BY <1>3 DEF LoadsField
  <2>2. Supplied(code)'
    BY <2>1 DEF Supplied
  <2>3. Computes(frames, code)'
    BY <2>1 DEF Computes, Meaning, Runs, NodeValue, LeafValue, Suffix, StoresUpTo
  <2>. QED
    BY <2>2, <2>3
<1>. QED
  BY <1>1, <1>2, <1>3 DEF Sound

(* The value of a return or of a store is begun, or another statement.     *)
LEMMA MeaningPushed ==
  ASSUME NEW frs, NEW m \in Nat \ {0}, Len(frs) = m, frs[m].stage = "enter",
         NEW new, Len(new) = m + 1, \A k \in 1 .. m - 1 : new[k] = frs[k],
         new[m].stage \notin {"done", "right"}, new[m + 1].stage = "enter",
         frs[1].next \in Nat, m = 1 => new[1].next = frs[1].next + 1,
         NEW state, Meaning(frs, state)
  PROVE  Meaning(new, state)
<1>1. ASSUME NEW k \in 3 .. m + 1, new[k].stage = "right"
      PROVE  k - 3 \in DOMAIN state.temps /\ state.temps[k - 3] = LeafValue(new[k].node)
  <2>1. k # m /\ k # m + 1
    BY <1>1
  <2>2. k \in 1 .. m - 1 /\ k \in 3 .. m
    BY <2>1
  <2>. QED
    BY <1>1, <2>2 DEF Meaning
<1>2. ~Returned(new)
  BY DEF Returned
<1>3. Completed(new) = Completed(frs)
  <2>1. CASE m = 1
    BY <2>1 DEF Completed
  <2>2. CASE m = 2
    <3>1. new[1] = frs[1]
      BY <2>2
    <3>. QED
      BY <2>2, <3>1 DEF Completed
  <2>3. CASE m > 2
    <3>1. new[1] = frs[1] /\ new[2] = frs[2]
      BY <2>3
    <3>. QED
      BY <2>3, <3>1 DEF Completed
  <2>. QED
    BY <2>1, <2>2, <2>3
<1>4. state.stores = StoresUpTo(ast)[Completed(frs)]
  BY DEF Meaning
<1>. QED
  BY <1>1, <1>2, <1>3, <1>4 DEF Meaning

LEMMA FollowsPushed ==
  ASSUME NEW frs, NEW m \in Nat \ {0}, Len(frs) >= m, Len(frs) \in Nat, Follows(frs),
         NEW new, Len(new) = m + 1, \A k \in 1 .. m - 1 : new[k] = frs[k],
         new[m].node = frs[m].node, new[m + 1].node = ChildNode(new[m])
  PROVE  Follows(new)
<1>1. ASSUME NEW k \in 1 .. m PROVE new[k + 1].node = ChildNode(new[k])
  <2>1. CASE k = m
    BY <2>1
  <2>2. CASE k # m
    <3>1. k \in 1 .. m - 1 /\ k \in 1 .. Len(frs) - 1
      BY <2>2
    <3>2. new[k] = frs[k] /\ frs[k + 1].node = ChildNode(frs[k])
      BY <3>1 DEF Follows
    <3>3. new[k + 1].node = frs[k + 1].node
      <4>1. k + 1 = m \/ k + 1 \in 1 .. m - 1
        BY <3>1
      <4>. QED
        BY <4>1
    <3>. QED
      BY <3>2, <3>3
  <2>. QED
    BY <2>1, <2>2
<1>. QED
  BY <1>1 DEF Follows

LEMMA FollowsReplaced ==
  ASSUME NEW frs, NEW m \in Nat \ {0}, Len(frs) >= m, Len(frs) \in Nat, Follows(frs),
         NEW new, Len(new) = m, \A k \in 1 .. m - 1 : new[k] = frs[k],
         new[m].node = frs[m].node
  PROVE  Follows(new)
<1>1. ASSUME NEW k \in 1 .. m - 1 PROVE new[k + 1].node = ChildNode(new[k])
  <2>1. k \in 1 .. Len(frs) - 1
    OBVIOUS
  <2>2. new[k] = frs[k] /\ frs[k + 1].node = ChildNode(frs[k])
    BY <2>1 DEF Follows
  <2>3. new[k + 1].node = frs[k + 1].node
    <3>1. k + 1 = m \/ k + 1 \in 1 .. m - 1
      OBVIOUS
    <3>. QED
      BY <3>1
  <2>. QED
    BY <2>2, <2>3
<1>. QED
  BY <1>1 DEF Follows

(* The shape of the stack after Visit. *)
LEMMA VisitShape ==
  ASSUME Inv, pc = "Building", NEW n \in Nat, n = Len(code), NEW m \in Nat \ {0},
         NEW l \in Nat \ {0}, Len(frames) = m + l - 1, NEW f \in Calls(n),
         NEW visitor \in {"Effect", "Value"}, NEW node \in NodeType,
         Visit(Below(l), f, visitor, node)
  PROVE  \/ pc' = "Crashed" /\ frames' = frames
         \/ /\ pc' = "Building" /\ Len(frames') = m + 1
            /\ \A k \in 1 .. m - 1 : frames'[k] = frames[k]
            /\ frames'[m] = f
            /\ frames'[m + 1].stage = "enter" /\ frames'[m + 1].node = node
<1>1. PICK g : g = NewFrame(visitor, node)
  OBVIOUS
<1>2. g \in Calls(n) /\ g.stage = "enter" /\ g.node = node
  BY <1>1, NewFrameTyped
<1>3. frames \in Seq(Calls(n)) /\ m \in 1 .. Len(frames)
  BY Building
<1>4. Below(l) = Callers(frames, m)
  <2>1. Len(frames) - l = m - 1
    OBVIOUS
  <2>. QED
    BY <2>1 DEF Below, Callers
<1>5. CASE Len(Below(l)) + 1 < StackLimit
  <2>1. pc' = "Building" /\ frames' = Below(l) \o <<f, g>>
    BY <1>1, <1>5 DEF Visit
  <2>2. PICK new : new = frames'
    OBVIOUS
  <2>3. IsPushed(new, frames, m, f, g)
    BY <1>4, <2>1, <2>2 DEF IsPushed
  <2>4. /\ Len(new) = m + 1 /\ \A k \in 1 .. m - 1 : new[k] = frames[k]
        /\ new[m] = f /\ new[m + 1] = g
    BY <1>2, <1>3, <2>3, CallPushed
  <2>. QED
    BY <1>2, <2>1, <2>2, <2>4
<1>6. CASE ~(Len(Below(l)) + 1 < StackLimit)
  BY <1>6 DEF Visit
<1>. QED
  BY <1>5, <1>6

LEMMA PushSound ==
  ASSUME Inv, Sound, pc = "Building", Top.stage = "enter",
         NEW f \in Calls(Len(code)), f.node = Top.node, f.stage \notin {"done", "right"},
         NEW visitor \in {"Effect", "Value"}, NEW node \in NodeType, node = ChildNode(f),
         Len(frames) = 1 => f.next = Top.next + 1 /\ Top.next <= Len(ast),
         Visit(Below(1), f, visitor, node), UNCHANGED <<ast, code, temp_count_>>
  PROVE  Sound'
<1>1. PICK m \in Nat \ {0}, n \in Nat, l \in Nat \ {0} :
        /\ m = Len(frames) /\ n = Len(code) /\ l = 1
        /\ Top = frames[m] /\ frames \in Seq(Calls(n))
  BY Building
<1>2. \/ pc' = "Crashed" /\ frames' = frames
      \/ /\ pc' = "Building" /\ Len(frames') = m + 1
         /\ \A k \in 1 .. m - 1 : frames'[k] = frames[k]
         /\ frames'[m] = f
         /\ frames'[m + 1].stage = "enter" /\ frames'[m + 1].node = node
  <2>1. /\ Len(frames) = m + l - 1 /\ Visit(Below(l), f, visitor, node) /\ f \in Calls(n)
        /\ Inv /\ pc = "Building" /\ n = Len(code)
        /\ n \in Nat /\ m \in Nat \ {0} /\ l \in Nat \ {0}
        /\ visitor \in {"Effect", "Value"} /\ node \in NodeType
    BY <1>1
  <2>. QED
    BY <2>1, VisitShape, SMTT(30)
<1>3. frames[1].next \in Nat /\ Len(ast) \in Nat
  <2>1. 1 \in 1 .. Len(frames) /\ ast \in Bodies
    BY <1>1, Building
  <2>2. frames[1] \in Calls(n)
    BY <1>1, <2>1
  <2>3. frames[1].next \in Nat
    BY <2>2 DEF Calls
  <2>. QED
    BY <2>1, <2>3, TreeTyped
<1>4. Follows(frames) /\ frames[1].next <= Len(ast) + 1
  BY DEF Sound, Counted
<1>5. CASE pc' # "Building"
  BY <1>2, <1>4, <1>5, SoundPrimed DEF Sound
<1>6. CASE pc' = "Building"
  <2>1. PICK new : new = frames'
    OBVIOUS
  <2>2. /\ Len(new) = m + 1 /\ \A k \in 1 .. m - 1 : new[k] = frames[k]
        /\ new[m] = f /\ new[m + 1].stage = "enter" /\ new[m + 1].node = node
    BY <1>2, <1>6, <2>1
  <2>3. Follows(new)
    <3>1. new[m].node = frames[m].node /\ new[m + 1].node = ChildNode(new[m])
      BY <1>1, <2>2
    <3>. QED
      BY <1>1, <1>4, <2>2, <3>1, FollowsPushed
  <2>4. m = 1 => new[1].next = frames[1].next + 1 /\ frames[1].next <= Len(ast)
    BY <1>1, <2>2
  <2>5. new[1].next <= Len(ast) + 1
    <3>1. CASE m = 1
      BY <1>3, <2>4, <3>1
    <3>2. CASE m # 1
      <4>1. new[1] = frames[1]
        BY <2>2, <3>2
      <4>. QED
        BY <1>4, <4>1
    <3>. QED
      BY <3>1, <3>2
  <2>6. ASSUME ~LoadsField(ast) PROVE Supplied(code') /\ Computes(new, code')
    <3>1. ASSUME NEW st, Runs(st, code) PROVE Meaning(new, st[Len(code)])
      <4>1. PICK state : state = st[Len(code)]
        OBVIOUS
      <4>2. Meaning(frames, state)
        BY <2>6, <3>1, <4>1 DEF Sound, Computes
      <4>3. new[m].stage \notin {"done", "right"} /\ frames[m].stage = "enter"
        BY <1>1, <2>2
      <4>4. Meaning(new, state)
        BY <1>1, <1>3, <2>2, <2>4, <4>2, <4>3, MeaningPushed
      <4>. QED
        BY <4>1, <4>4
    <3>2. Computes(new, code)
      BY <3>1 DEF Computes
    <3>. QED
      BY <2>6, <3>2 DEF Sound
  <2>. QED
    BY <1>6, <2>1, <2>3, <2>5, <2>6, SoundPrimed
<1>. QED
  BY <1>5, <1>6

LEMMA VisitChildSound ==
  ASSUME Inv, Sound, VisitChild
  PROVE  Sound'
<1>. DEFINE f == [Top EXCEPT !.stage = "child", !.next = @ + 1]
            node == StatementNode(Top.next)
<1>1. /\ pc = "Building" /\ Top.node.kind = "Sequence" /\ Top.stage = "enter"
      /\ Top.next <= Len(ast) /\ Visit(Below(1), f, "Effect", node)
      /\ UNCHANGED <<ast, code, temp_count_>>
  BY DEF VisitChild, Visiting, MoreChildren
<1>2. f \in Calls(Len(code)) /\ f.stage = "child" /\ f.node = Top.node
  BY <1>1, Building, ChildSet
<1>3. f.next = Top.next + 1 /\ Top.next \in Nat \ {0}
  <2>1. Top \in Calls(Len(code))
    BY <1>1, Building
  <2>. QED
    BY <2>1 DEF Calls
<1>4. node \in NodeType
  <2>1. Top.next \in DOMAIN ast
    BY <1>1, <1>3, Building, TreeTyped
  <2>. QED
    BY <1>1, <2>1, Building, StatementKinds
<1>5. node = ChildNode(f)
  <2>1. f.next - 1 = Top.next
    BY <1>3
  <2>. QED
    BY <1>1, <1>2, <2>1 DEF ChildNode
<1>. HIDE DEF f, node
<1>. QED
  BY <1>1, <1>2, <1>3, <1>4, <1>5, PushSound

LEMMA VisitReturnSound ==
  ASSUME Inv, Sound, VisitReturn
  PROVE  Sound'
<1>. DEFINE f == [Top EXCEPT !.stage = "value"]
<1>1. /\ pc = "Building" /\ Top.node.kind = "Return" /\ Top.stage = "enter"
      /\ Visit(Below(1), f, "Value", Top.node) /\ UNCHANGED <<ast, code, temp_count_>>
  BY DEF VisitReturn, Visiting
<1>2. f \in Calls(Len(code)) /\ f.stage = "value" /\ f.node = Top.node
  <2>1. "value" \in Stages
    BY DEF Stages
  <2>. QED
    BY <1>1, <2>1, Building, StageSet
<1>3. Len(frames) # 1 /\ Top.node \in NodeType
  <2>1. Len(frames) \in Nat \ {0} /\ Top = frames[Len(frames)] /\ ast \in Bodies /\ Nesting(frames)
    BY <1>1, Building
  <2>2. Top.node \in NodeType
    BY <1>1, Building DEF Calls
  <2>. QED
    BY <1>1, <2>1, <2>2, PlaceOf DEF LeafKinds
<1>4. Top.node = ChildNode(f)
  BY <1>1, <1>2 DEF ChildNode
<1>. HIDE DEF f
<1>. QED
  BY <1>1, <1>2, <1>3, <1>4, PushSound

LEMMA VisitStoreLocalSound ==
  ASSUME Inv, Sound, VisitStoreLocal
  PROVE  Sound'
<1>. DEFINE f == [Top EXCEPT !.stage = "value"]
            node == ExprNode(Top.node.stmt, 1)
<1>1. /\ pc = "Building" /\ Top.node.kind = "StoreLocal" /\ Top.stage = "enter"
      /\ Visit(Below(1), f, "Value", node) /\ UNCHANGED <<ast, code, temp_count_>>
  BY DEF VisitStoreLocal, Visiting
<1>2. f \in Calls(Len(code)) /\ f.stage = "value" /\ f.node = Top.node
  <2>1. "value" \in Stages
    BY DEF Stages
  <2>. QED
    BY <1>1, <2>1, Building, StageSet
<1>3. Len(frames) # 1 /\ Top.node.stmt \in DOMAIN ast
  <2>1. Len(frames) \in Nat \ {0} /\ Top = frames[Len(frames)] /\ ast \in Bodies /\ Nesting(frames)
    BY <1>1, Building
  <2>. QED
    BY <1>1, <2>1, PlaceOf DEF LeafKinds
<1>4. node \in NodeType
  <2>1. ast \in Bodies /\ 1 \in DOMAIN ast[Top.node.stmt].value.leaves
    BY <1>1, <1>3, Building, TreeTyped
  <2>. QED
    BY <1>3, <2>1, ExprKind
<1>5. node = ChildNode(f)
  BY <1>1, <1>2 DEF ChildNode
<1>. HIDE DEF f, node
<1>. QED
  BY <1>1, <1>2, <1>3, <1>4, <1>5, PushSound

LEMMA VisitLeftSound ==
  ASSUME Inv, Sound, VisitLeft
  PROVE  Sound'
<1>. DEFINE f == [Top EXCEPT !.stage = "left"]
            node == LeafNode(Top.node.stmt, Top.node.leaf)
<1>1. /\ pc = "Building" /\ Top.node.kind = "BinaryOp" /\ Top.stage = "enter"
      /\ Visit(Below(1), f, "Value", node) /\ UNCHANGED <<ast, code, temp_count_>>
  BY DEF VisitLeft, Visiting
<1>2. f \in Calls(Len(code)) /\ f.stage = "left" /\ f.node = Top.node
  <2>1. "left" \in Stages
    BY DEF Stages
  <2>. QED
    BY <1>1, <2>1, Building, StageSet
<1>3. Len(frames) # 1 /\ IsExpr(Top.node)
  <2>1. Len(frames) \in Nat \ {0} /\ Top = frames[Len(frames)] /\ ast \in Bodies /\ Nesting(frames)
    BY <1>1, Building
  <2>. QED
    BY <1>1, <2>1, PlaceOf DEF LeafKinds
<1>4. node \in NodeType
  <2>1. ast \in Bodies /\ Top.node.stmt \in DOMAIN ast
        /\ Top.node.leaf \in DOMAIN ast[Top.node.stmt].value.leaves
    BY <1>1, <1>3, Building, ExprFacts
  <2>. QED
    BY <2>1, LeafKind
<1>5. node = ChildNode(f)
  BY <1>1, <1>2 DEF ChildNode
<1>. HIDE DEF f, node
<1>. QED
  BY <1>1, <1>2, <1>3, <1>4, <1>5, PushSound

-----------------------------------------------------------------------------
(* A fragment is appended: the same instructions. *)
LEMMA AppendedSame ==
  ASSUME Inv, pc = "Building", Len(frames) > 1, NEW n \in Nat, n = Len(code),
         NEW cd, cd = LinkVisitor(Caller, Top)
  PROVE  Len(cd) = n /\ HasAllOf(cd, code) /\ (Supplied(code) => Supplied(cd))
<1>1. code \in Seq(Instrs(Ats(ast), n))
  BY Building
<1>2. Len(cd) = n
  <2>1. PICK L \in Nat : L = Len(frames)
    BY Building
  <2>. QED
    BY <2>1, MergeFacts
<1>3. \A i \in 1 .. n : SameFields(cd[i], code[i])
  <2>1. CASE IsEmpty(Caller) \/ IsEmpty(Top)
    BY <2>1 DEF LinkVisitor, SameFields
  <2>2. CASE ~IsEmpty(Caller) /\ ~IsEmpty(Top)
    <3>1. PICK one, two : one = Caller.exit /\ two = Top.entry
      OBVIOUS
    <3>2. cd = Link(code, one, two)
      BY <2>2, <3>1 DEF LinkVisitor
    <3>. QED
      BY <1>1, <3>2, LinkSame
  <2>. QED
    BY <2>1, <2>2
<1>4. HasAllOf(cd, code)
  BY <1>2, <1>3 DEF HasAllOf
<1>. QED
  BY <1>2, <1>4, SuppliedKept

(* What the calls said of the state that runs before an instruction.       *)
LEMMA MeaningBefore ==
  ASSUME Sound, ~LoadsField(ast), NEW n \in Nat, n = Len(code),
         NEW new, Len(new) \in Nat, HasAllOf(new, code), NEW st, Runs(st, new)
  PROVE  Runs(st, code) /\ Meaning(frames, st[n])
<1>1. Runs(st, code)
  BY RunsKept DEF Sound
<1>. QED
  BY <1>1 DEF Sound, Computes

LEMMA AppendChildSound ==
  ASSUME Inv, Sound, AppendChild
  PROVE  Sound'
<1>1. /\ pc = "Building" /\ Len(frames) > 1 /\ Top.stage = "done"
      /\ Caller.node.kind = "Sequence"
      /\ code' = LinkVisitor(Caller, Top)
      /\ frames' = Append(Below(2), [AppendVisitor(Caller, Top) EXCEPT !.stage = "enter"])
      /\ pc' = pc /\ ast' = ast
  BY DEF AppendChild, Returning
<1>2. PICK n \in Nat, L \in Nat, merged \in {AppendVisitor(Caller, Top)}, cd \in {code'} :
        n = Len(code) /\ L = Len(frames)
  BY <1>1, Building
<1>3. /\ Caller = frames[L - 1] /\ Top = frames[L] /\ merged \in Calls(n)
      /\ merged.node = Caller.node
  BY <1>1, <1>2, MergeFacts
<1>4. L = 2
  <2>1. L - 1 \in 1 .. Len(frames) /\ ast \in Bodies /\ Nesting(frames) /\ Len(frames) \in Nat
    BY <1>1, <1>2, Building
  <2>. QED
    BY <1>1, <1>3, <2>1, PlaceOf
<1>5. PICK f : f = [merged EXCEPT !.stage = "enter"]
  OBVIOUS
<1>6. f \in Calls(n) /\ f.next = frames[1].next /\ f.node = frames[1].node /\ f.stage = "enter"
  <2>1. "enter" \in Stages
    BY DEF Stages
  <2>2. f \in Calls(n) /\ f.stage = "enter" /\ f.node = merged.node /\ f.next = merged.next
    BY <1>3, <1>5, <2>1, StageSet
  <2>3. merged.next = Caller.next
    <3>1. Caller \in Calls(n) /\ Top \in Calls(n)
      BY <1>1, <1>2, MergeFacts
    <3>. QED
      BY <1>2, <3>1, AppendVisitorTyped
  <2>. QED
    BY <1>3, <1>4, <2>2, <2>3
<1>7. PICK new : new = frames'
  OBVIOUS
<1>8. Len(new) = 1 /\ new[1] = f
  <2>1. PICK m \in Nat : m = 1
    OBVIOUS
  <2>2. IsReplaced(new, frames, m, f)
    <3>1. Len(frames) - 2 = m - 1
      BY <1>2, <1>4, <2>1
    <3>. QED
      BY <1>1, <1>2, <1>5, <1>7, <3>1 DEF IsReplaced, Below, Callers
  <2>3. frames \in Seq(Calls(n)) /\ m \in 1 .. Len(frames)
    BY <1>1, <1>2, <2>1, Building
  <2>4. Len(new) = m /\ new[m] = f
    BY <1>6, <2>2, <2>3, CallReplaced
  <2>. QED
    BY <2>1, <2>4
<1>9. Follows(new)
  BY <1>8 DEF Follows
<1>10. ASSUME ~LoadsField(ast) PROVE Supplied(cd) /\ Computes(new, cd)
  <2>1. Len(cd) = n /\ HasAllOf(cd, code) /\ Supplied(cd)
    BY <1>1, <1>2, <1>10, AppendedSame DEF Sound
  <2>2. ASSUME NEW st, Runs(st, cd) PROVE Meaning(new, st[n])
    <3>1. Meaning(frames, st[n])
      BY <1>2, <1>10, <2>1, <2>2, MeaningBefore
    <3>2. ~Returned(new)
      BY <1>6, <1>8 DEF Returned
    <3>3. Completed(new) = Completed(frames)
      BY <1>1, <1>2, <1>3, <1>4, <1>6, <1>8 DEF Completed
    <3>. QED
      BY <1>8, <3>1, <3>2, <3>3 DEF Meaning
  <2>. QED
    BY <2>1, <2>2 DEF Computes
<1>11. new[1].next <= Len(ast) + 1
  BY <1>6, <1>8 DEF Sound, Counted
<1>. QED
  BY <1>1, <1>2, <1>7, <1>9, <1>10, <1>11, SoundPrimed

LEMMA FinishGraphSound ==
  ASSUME Inv, Sound, FinishGraph
  PROVE  Sound'
<1>1. /\ pc = "Building" /\ Top.node.kind = "Sequence" /\ ~MoreChildren
      /\ code' = IF IsEmpty(Top) THEN code ELSE Link(code, Normal, Top.entry)
      /\ UNCHANGED <<ast, frames>>
  BY DEF FinishGraph, Visiting
<1>2. PICK n \in Nat, cd \in {code'} : n = Len(code)
  BY <1>1, Building
<1>3. /\ Top \in Calls(n) /\ Top = frames[Len(frames)] /\ ast \in Bodies
      /\ Nesting(frames) /\ Len(frames) \in Nat /\ Len(frames) \in 1 .. Len(frames)
      /\ Fragments(frames, code) /\ code \in Seq(Instrs(Ats(ast), n))
  BY <1>1, <1>2, Building
<1>4. Len(frames) = 1 /\ Top = frames[1]
  <2>1. Len(frames) = 1
    BY <1>1, <1>3, PlaceOf
  <2>. QED
    BY <1>3, <2>1
<1>5. Len(cd) = n /\ HasAllOf(cd, code)
  <2>1. DOMAIN cd = DOMAIN code /\ \A i \in 1 .. n : SameFields(cd[i], code[i])
    <3>1. CASE IsEmpty(Top)
      BY <1>1, <1>2, <3>1 DEF SameFields
    <3>2. CASE ~IsEmpty(Top)
      <4>1. PICK one, two : one = Normal /\ two = Top.entry
        OBVIOUS
      <4>2. cd = Link(code, one, two)
        BY <1>1, <1>2, <3>2, <4>1
      <4>. QED
        BY <1>2, <1>3, <4>2, LinkSame
    <3>. QED
      BY <3>1, <3>2
  <2>2. Len(cd) = n
    <3>1. Inv'
      BY FinishGraphStep
    <3>2. DOMAIN cd = 1 .. Len(cd) /\ Len(cd) \in Nat
      BY <1>2, <3>1 DEF Inv, Typed
    <3>3. DOMAIN code = 1 .. n
      BY <1>2, <1>3
    <3>4. PICK c \in Nat : c = Len(cd) /\ 1 .. c = 1 .. n
      BY <2>1, <3>2, <3>3
    <3>5. c = n
      <4>1. c = 0 \/ c \in 1 .. c
        OBVIOUS
      <4>2. n = 0 \/ n \in 1 .. n
        OBVIOUS
      <4>. QED
        BY <3>4, <4>1, <4>2
    <3>. QED
      BY <3>4, <3>5
  <2>. QED
    BY <1>2, <2>1, <2>2 DEF HasAllOf
<1>6. frames[1].next = Len(ast) + 1
  <2>1. IsOpen(Top)
    <3>1. CASE Top.entry = Nil
      BY <3>1 DEF IsOpen, IsEmpty
    <3>2. CASE Top.entry # Nil
      <4>1. Top.entry \in Nat /\ Top.exit \in Nat
        BY <1>3 DEF Calls
      <4>2. Normal < Top.entry /\ Top.entry <= Top.exit
        <5>1. 1 \in 1 .. Len(frames)
          BY <1>3, <1>4
        <5>. QED
          BY <1>3, <1>4, <3>2, <5>1 DEF Fragments, Bounded
      <4>3. Top.exit # Nil
        BY <4>1, <4>2 DEF Normal, Nil
      <4>. QED
        BY <4>3 DEF IsOpen
    <3>. QED
      BY <3>1, <3>2
  <2>2. Top.next \in Nat /\ Len(ast) \in Nat
    <3>1. Top.next \in Nat
      BY <1>3 DEF Calls
    <3>. QED
      BY <1>3, <3>1, TreeTyped
  <2>3. frames[1].next <= Len(ast) + 1
    BY DEF Sound, Counted
  <2>. QED
    BY <1>1, <1>4, <2>1, <2>2, <2>3 DEF MoreChildren
<1>7. ASSUME ~LoadsField(ast) PROVE Supplied(cd) /\ Computes(frames, cd)
  <2>1. Supplied(cd)
    BY <1>2, <1>5, <1>7, SuppliedKept DEF Sound
  <2>2. ASSUME NEW st, Runs(st, cd) PROVE Meaning(frames, st[Len(cd)])
    BY <1>2, <1>5, <1>7, <2>2, MeaningBefore
  <2>. QED
    BY <2>1, <2>2 DEF Computes
<1>8. frames[1].next <= Len(ast) + 1
  BY DEF Sound, Counted
<1>. QED
  BY <1>1, <1>2, <1>6, <1>7, <1>8, SoundPrimed DEF Sound

LEMMA VisitFieldSound ==
  ASSUME Inv, Sound, VisitField
  PROVE  Sound'
<1>1. /\ pc = "Building" /\ Top.node.kind \in {"LoadField", "StoreField"} /\ Top.stage = "enter"
      /\ frames' = Append(Below(1), [Top EXCEPT !.stage = "done"])
      /\ UNCHANGED <<pc, ast, code>>
  BY DEF VisitField, Visiting
<1>2. PICK n \in Nat \ {0}, m \in Nat \ {0} : n = Len(code) /\ Len(frames) = m
  BY <1>1, Building
<1>3. PICK f : f = [Top EXCEPT !.stage = "done"]
  OBVIOUS
<1>4. /\ Top \in Calls(n) /\ Top = frames[m] /\ frames \in Seq(Calls(n)) /\ ast \in Bodies
      /\ Nesting(frames) /\ Len(frames) \in Nat /\ m \in 1 .. Len(frames)
  BY <1>1, <1>2, Building
<1>5. /\ f \in Calls(n) /\ f.stage = "done" /\ f.visitor = Top.visitor /\ f.node = Top.node
      /\ f.next = Top.next
  <2>1. "done" \in Stages
    BY DEF Stages
  <2>. QED
    BY <1>3, <1>4, <2>1, StageSet
<1>6. PICK new : new = frames'
  OBVIOUS
<1>7. /\ Len(new) = m /\ \A k \in 1 .. m - 1 : new[k] = frames[k]
      /\ new[m] = f
  <2>1. IsReplaced(new, frames, m, f)
    BY <1>1, <1>2, <1>3, <1>6 DEF IsReplaced, Below, Callers
  <2>. QED
    BY <1>4, <1>5, <2>1, CallReplaced
<1>8. Follows(frames) /\ frames[1].next <= Len(ast) + 1
  BY DEF Sound, Counted
<1>9. Follows(new)
  BY <1>2, <1>4, <1>5, <1>7, <1>8, FollowsReplaced
<1>10. new[1].next = frames[1].next
  <2>1. m = 1 \/ 1 \in 1 .. m - 1
    OBVIOUS
  <2>. QED
    BY <1>4, <1>5, <1>7, <2>1
<1>11. ASSUME ~LoadsField(ast) PROVE Computes(new, code)
  <2>1. Top.node.kind = "StoreField"
    <3>1. CASE Top.node.kind = "LoadField"
      <4>1. IsExpr(Top.node)
        BY <1>4, <3>1, PlaceOf DEF LeafKinds
      <4>. QED
        BY <1>4, <1>11, <3>1, <4>1, ExprFacts
    <3>. QED
      BY <1>1, <3>1
  <2>2. m = 2 /\ f.visitor = "Effect"
    BY <1>4, <1>5, <2>1, PlaceOf
  <2>3. PICK i \in Nat : i = frames[1].next - 1 /\ frames[1].next = i + 1
    <3>1. 1 \in 1 .. Len(frames)
      BY <1>2, <2>2
    <3>2. frames[1] \in Calls(n)
      BY <1>4, <3>1
    <3>3. frames[1].next \in Nat \ {0}
      BY <3>2 DEF Calls
    <3>. QED
      BY <3>3
  <2>4. Top.node = StatementNode(i)
    <3>1. 1 \in 1 .. Len(frames) - 1 /\ 1 \in 1 .. Len(frames)
      BY <1>2, <2>2
    <3>2. frames[2].node = ChildNode(frames[1])
      BY <1>8, <3>1 DEF Follows
    <3>3. frames[1].node.kind = "Sequence"
      BY <1>4, <3>1, KindAt
    <3>. QED
      BY <1>4, <2>2, <2>3, <3>2, <3>3 DEF ChildNode
  <2>5. ast[i].dest.on # "Local" /\ i \in DOMAIN ast
    <3>1. ast[i].dest.on # "Local"
      BY <2>1, <2>4 DEF StatementNode
    <3>2. IsStatement(Top.node)
      <4>1. VisitsNode(frames, m)
        BY <1>4 DEF Nesting
      <4>. QED
        BY <1>4, <2>2, <4>1 DEF VisitsNode
    <3>3. Top.node.stmt = i
      BY <2>4 DEF StatementNode
    <3>. QED
      BY <3>1, <3>2, <3>3 DEF IsStatement
  <2>6. StoresUpTo(ast)[i] = StoresUpTo(ast)[i - 1]
    <3>1. Len(ast) \in Nat /\ i \in 1 .. Len(ast)
      BY <1>4, <2>5, TreeTyped
    <3>2. PICK f0 : f0 = StoresUpTo(ast)
      OBVIOUS
    <3>3. f0[i] = StoresStep(f0, i)
      BY <3>1, <3>2, StoresUnfold DEF IsStores
    <3>. QED
      BY <2>5, <3>2, <3>3 DEF StoresStep
  <2>7. ASSUME NEW st, Runs(st, code) PROVE Meaning(new, st[Len(code)])
    <3>1. PICK state : state = st[Len(code)]
      OBVIOUS
    <3>2. state.stores = StoresUpTo(ast)[Completed(frames)]
      BY <1>11, <2>7, <3>1 DEF Sound, Computes, Meaning
    <3>3. Completed(frames) = i - 1
      <4>1. Completed(frames) = frames[1].next - 2
        BY <1>1, <1>2, <1>4, <2>2 DEF Completed
      <4>. QED
        BY <2>3, <4>1
    <3>4. Completed(new) = i
      BY <1>5, <1>7, <1>10, <2>2, <2>3 DEF Completed
    <3>5. ~Returned(new)
      BY <1>5, <1>7, <2>2 DEF Returned
    <3>. QED
      BY <1>7, <2>2, <2>6, <3>1, <3>2, <3>3, <3>4, <3>5 DEF Meaning
  <2>. QED
    BY <2>7 DEF Computes
<1>. QED
  BY <1>1, <1>6, <1>8, <1>9, <1>10, <1>11, SoundPrimed DEF Sound

(* The left operand's value waits in the temporary of its call.            *)
LEMMA VisitRightSound ==
  ASSUME Inv, Sound, VisitRight
  PROVE  Sound'
<1>1. PICK n \in Nat, m \in Nat \ {0}, l \in Nat \ {0},
          merged \in {AppendVisitor(Caller, Top)}, cd \in {LinkVisitor(Caller, Top)} :
        n = Len(code) /\ Len(frames) = m + 1 /\ l = 2
  <2>1. Len(frames) > 1 /\ pc = "Building"
    BY DEF VisitRight, Returning
  <2>2. PICK m \in Nat \ {0} : Len(frames) = m + 1
    <3>1. Len(frames) - 1 \in Nat \ {0} /\ Len(frames) = Len(frames) - 1 + 1
      BY <2>1, Building
    <3>. QED
      BY <3>1
  <2>. QED
    BY <2>1, <2>2, Building
<1>2. PICK f, node :
        /\ f = [merged EXCEPT !.stage = "right", !.left = Top.result]
        /\ node = ExprNode(Caller.node.stmt, Caller.node.leaf + 1)
  OBVIOUS
<1>3. /\ pc = "Building" /\ Len(frames) > 1 /\ Top.stage = "done"
      /\ Caller.node.kind = "BinaryOp" /\ Caller.stage = "left"
      /\ code' = cd /\ Visit(Below(l), f, "Value", node)
      /\ UNCHANGED <<ast, temp_count_>>
  BY <1>1, <1>2 DEF VisitRight, Returning
<1>4. /\ Caller = frames[m] /\ Top \in Calls(n) /\ Top = frames[m + 1]
      /\ merged \in Calls(n) /\ merged.node = Caller.node
  <2>1. PICK L \in Nat : L = Len(frames) /\ L - 1 = m
    BY <1>1
  <2>. QED
    BY <1>1, <1>3, <2>1, MergeFacts
<1>5. /\ ast \in Bodies /\ Nesting(frames) /\ m \in 1 .. Len(frames) /\ Len(frames) \in Nat
      /\ frames \in Seq(Calls(n))
  BY <1>1, <1>3, Building
<1>6. m > 2 /\ IsExpr(Caller.node) /\ frames[2].node.kind # "Return"
  BY <1>3, <1>4, <1>5, PlaceOf
<1>7. node \in NodeType
  <2>1. PICK j : j = Caller.node.leaf + 1
    OBVIOUS
  <2>2. Caller.node.stmt \in DOMAIN ast /\ j \in DOMAIN ast[Caller.node.stmt].value.leaves
    BY <1>3, <1>5, <1>6, <2>1, ExprFacts
  <2>3. node = ExprNode(Caller.node.stmt, j)
    BY <1>2, <2>1
  <2>. QED
    BY <1>5, <2>2, <2>3, ExprKind
<1>8. f \in Calls(n) /\ f.stage = "right" /\ f.node = Caller.node
  <2>1. PICK v \in 0 .. n : v = Top.result
    BY <1>4 DEF Calls
  <2>2. IsRight(f, merged, v)
    BY <1>2, <2>1 DEF IsRight
  <2>. QED
    BY <1>4, <2>1, <2>2, LeftSet
<1>9. \/ pc' = "Crashed" /\ frames' = frames
      \/ /\ pc' = "Building" /\ Len(frames') = m + 1
         /\ \A k \in 1 .. m - 1 : frames'[k] = frames[k]
         /\ frames'[m] = f
         /\ frames'[m + 1].stage = "enter" /\ frames'[m + 1].node = node
  <2>1. /\ Len(frames) = m + l - 1 /\ Visit(Below(l), f, "Value", node) /\ f \in Calls(n)
        /\ Inv /\ pc = "Building" /\ n = Len(code)
        /\ n \in Nat /\ m \in Nat \ {0} /\ l \in Nat \ {0}
        /\ "Value" \in {"Effect", "Value"} /\ node \in NodeType
    BY <1>1, <1>3, <1>7, <1>8
  <2>. QED
    BY <2>1, VisitShape, SMTT(30)
<1>10. Len(cd) = n /\ HasAllOf(cd, code) /\ (Supplied(code) => Supplied(cd))
  BY <1>1, <1>3, AppendedSame
<1>11. Follows(frames) /\ frames[1].next <= Len(ast) + 1
  BY DEF Sound, Counted
<1>12. CASE pc' # "Building"
  <2>1. ASSUME ~LoadsField(ast) PROVE Supplied(code') /\ Computes(frames, code')
    <3>1. ASSUME NEW st, Runs(st, cd) PROVE Meaning(frames, st[n])
      BY <1>1, <1>10, <2>1, <3>1, MeaningBefore
    <3>. QED
      BY <1>3, <1>10, <2>1, <3>1 DEF Sound, Computes
  <2>. QED
    BY <1>3, <1>9, <1>11, <1>12, <2>1, SoundPrimed
<1>13. CASE pc' = "Building"
  <2>1. PICK new : new = frames'
    OBVIOUS
  <2>2. /\ Len(new) = m + 1 /\ \A k \in 1 .. m - 1 : new[k] = frames[k]
        /\ new[m] = f /\ new[m + 1].stage = "enter" /\ new[m + 1].node = node
    BY <1>9, <1>13, <2>1
  <2>3. Follows(new)
    <3>1. new[m].node = frames[m].node /\ new[m + 1].node = ChildNode(new[m])
      BY <1>2, <1>3, <1>4, <1>8, <2>2 DEF ChildNode
    <3>. QED
      BY <1>1, <1>5, <1>11, <2>2, <3>1, FollowsPushed
  <2>4. new[1] = frames[1] /\ new[2] = frames[2]
    BY <1>6, <2>2
  <2>5. ASSUME ~LoadsField(ast) PROVE Supplied(cd) /\ Computes(new, cd)
    <3>1. ASSUME NEW st, Runs(st, cd) PROVE Meaning(new, st[n])
      <4>1. PICK state : state = st[n]
        OBVIOUS
      <4>2. Meaning(frames, state)
        BY <1>1, <1>10, <2>5, <3>1, <4>1, MeaningBefore
      <4>3. m - 3 \in DOMAIN state.temps /\ state.temps[m - 3] = LeafValue(Caller.node)
        <5>1. Returned(frames)
          BY <1>3, <2>5, OperandReturned
        <5>2. Waiting(frames) = m - 3
          <6>1. /\ Len(frames) - 4 = m - 3 /\ ~(Len(frames) < 3)
                /\ frames[Len(frames) - 1].stage = "left"
            BY <1>1, <1>3, <1>4, <1>6
          <6>. QED
            BY <1>6, <6>1 DEF Waiting
        <5>3. Top.node = LeafNode(Caller.node.stmt, Caller.node.leaf)
          <6>1. m \in 1 .. Len(frames) - 1
            BY <1>1
          <6>2. frames[m + 1].node = ChildNode(frames[m])
            BY <1>11, <6>1 DEF Follows
          <6>. QED
            BY <1>3, <1>4, <6>2 DEF ChildNode
        <5>4. NodeValue(Top.node) = LeafValue(Caller.node)
          BY <5>3 DEF NodeValue, LeafValue, LeafNode
        <5>5. Top = frames[Len(frames)]
          BY <1>1, <1>4
        <5>. QED
          BY <4>2, <5>1, <5>2, <5>4, <5>5 DEF Meaning
      <4>4. ASSUME NEW k \in 3 .. m + 1, new[k].stage = "right"
            PROVE  k - 3 \in DOMAIN state.temps /\ state.temps[k - 3] = LeafValue(new[k].node)
        <5>1. CASE k = m
          BY <1>8, <2>2, <4>3, <5>1
        <5>2. CASE k # m
          <6>1. k # m + 1
            BY <2>2, <4>4
          <6>2. k \in 1 .. m - 1 /\ k \in 3 .. Len(frames)
            BY <1>1, <5>2, <6>1
          <6>. QED
            BY <2>2, <4>2, <4>4, <6>2 DEF Meaning
        <5>. QED
          BY <5>1, <5>2
      <4>5. ~Returned(new)
        BY <2>2 DEF Returned
      <4>6. Completed(new) = Completed(frames)
        BY <1>1, <1>6, <2>2, <2>4 DEF Completed
      <4>. QED
        BY <2>2, <4>1, <4>2, <4>4, <4>5, <4>6 DEF Meaning
    <3>. QED
      BY <1>10, <2>5, <3>1 DEF Sound, Computes
  <2>. QED
    BY <1>3, <1>11, <1>13, <2>1, <2>3, <2>4, <2>5, SoundPrimed
<1>. QED
  BY <1>12, <1>13

-----------------------------------------------------------------------------
(* The calls that return an instruction *)

LEMMA CodePrimed ==
  ASSUME Inv'
  PROVE  Len(code') \in Nat /\ DOMAIN code' = 1 .. Len(code')
<1>1. Typed'
  BY DEF Inv
<1>. QED
  BY <1>1 DEF Typed

(* A ValueVisitor has bound its instruction to the temporary that is free. *)
LEMMA BoundTemp ==
  ASSUME Inv', ast' = ast, ~LoadsField(ast), NEW m, Len(frames') = m,
         frames'[m].stage = "done", frames'[m].visitor = "Value"
  PROVE  code'[frames'[m].result].temp = Waiting(frames')
<1>1. ~LoadsField(ast)'
  BY DEF LoadsField
<1>2. Temps(frames, code, temp_count_)'
  BY <1>1 DEF Inv
<1>. QED
  BY <1>2 DEF Temps, Returned, Waiting

LEMMA MeaningReturned ==
  ASSUME NEW m \in Nat, m > 2, NEW frs, Len(frs) \in Nat, Len(frs) >= m,
         frs[2].node.kind # "Return",
         NEW new, Len(new) = m, \A k \in 1 .. m - 1 : new[k] = frs[k], new[m].stage = "done",
         NEW state, Meaning(frs, state),
         NEW after, after = Put(state, Waiting(new), NodeValue(new[m].node))
  PROVE  Meaning(new, after)
<1>1. new[1] = frs[1] /\ new[2] = frs[2]
  OBVIOUS
<1>2. PICK t \in Int : t = Waiting(new) /\ t = IF new[m - 1].stage = "left" THEN m - 4 ELSE m - 3
  BY <1>1 DEF Waiting
<1>3. PICK v : v = NodeValue(new[m].node)
  OBVIOUS
<1>4. /\ DOMAIN after.temps = DOMAIN state.temps \cup {t}
      /\ \A u \in DOMAIN after.temps : after.temps[u] = IF u = t THEN v ELSE state.temps[u]
      /\ after.stores = state.stores
  BY <1>2, <1>3 DEF Put
<1>5. ASSUME NEW k \in 3 .. m, new[k].stage = "right"
      PROVE  k - 3 \in DOMAIN after.temps /\ after.temps[k - 3] = LeafValue(new[k].node)
  <2>1. k # m
    BY <1>5
  <2>2. k \in 1 .. m - 1 /\ k \in 3 .. Len(frs) /\ new[k] = frs[k]
    BY <2>1
  <2>3. k - 3 \in DOMAIN state.temps /\ state.temps[k - 3] = LeafValue(new[k].node)
    BY <1>5, <2>2 DEF Meaning
  <2>4. k - 3 # t
    <3>1. CASE new[m - 1].stage = "left"
      <4>1. k # m - 1
        BY <1>5, <3>1
      <4>. QED
        BY <1>2, <2>2, <3>1, <4>1
    <3>2. CASE new[m - 1].stage # "left"
      BY <1>2, <2>2, <3>2
    <3>. QED
      BY <3>1, <3>2
  <2>. QED
    BY <1>4, <2>3, <2>4
<1>6. Waiting(new) \in DOMAIN after.temps /\ after.temps[Waiting(new)] = NodeValue(new[m].node)
  BY <1>2, <1>3, <1>4
<1>7. Completed(new) = Completed(frs)
  BY <1>1 DEF Completed
<1>8. state.stores = StoresUpTo(ast)[Completed(frs)]
  BY DEF Meaning
<1>. QED
  BY <1>4, <1>5, <1>6, <1>7, <1>8 DEF Meaning

LEMMA ReturnSound ==
  ASSUME Inv, Sound, pc = "Building", NEW n \in Nat, n = Len(code),
         NEW m \in Nat, m > 1, m <= Len(frames), NEW frame, frame.node = frames[m].node,
         NEW cd, Len(cd) = n, HasAllOf(cd, code), Supplied(code) => Supplied(cd),
         NEW instr, ReturnsWith(m, frame, cd, instr), UNCHANGED <<pc, ast>>,
         ~LoadsField(ast) =>
           /\ instr.op \notin {"Constant", "LoadLocal"} => instr.inputs[1] \in 1 .. n
           /\ instr.op = "BinaryOp" => instr.inputs[2] \in 1 .. n
           /\ \A st : Runs(st, code') => Meaning(frames', st[n + 1])
  PROVE  Sound'
<1>1. PICK new, grown : new = frames' /\ grown = code'
  OBVIOUS
<1>2. /\ Len(new) = m /\ \A k \in 1 .. m - 1 : new[k] = frames[k]
      /\ new[m].node = frames[m].node
      /\ Len(grown) = n + 1 /\ HasAllOf(grown, cd)
      /\ grown[n + 1].op = instr.op /\ grown[n + 1].inputs = instr.inputs
  BY <1>1 DEF ReturnsWith
<1>3. Follows(frames) /\ frames[1].next <= Len(ast) + 1
  BY DEF Sound, Counted
<1>4. Len(frames) \in Nat
  BY Building
<1>5. Follows(new)
  BY <1>2, <1>3, <1>4, FollowsReplaced
<1>6. new[1] = frames[1]
  BY <1>2
<1>7. ASSUME ~LoadsField(ast) PROVE Supplied(grown) /\ Computes(new, grown)
  <2>1. Supplied(cd)
    BY <1>7 DEF Sound
  <2>2. Supplied(grown)
    BY <1>2, <1>7, <2>1, SuppliedGrown
  <2>3. \A st : Runs(st, grown) => Meaning(new, st[n + 1])
    BY <1>1, <1>7
  <2>. QED
    BY <1>2, <2>2, <2>3 DEF Computes
<1>. QED
  BY <1>1, <1>3, <1>5, <1>6, <1>7, SoundPrimed

LEMMA HasAllChained ==
  ASSUME NEW cd, Len(cd) \in Nat, NEW new, Len(new) \in Nat, NEW newer, Len(newer) \in Nat,
         HasAllOf(new, cd), HasAllOf(newer, new)
  PROVE  HasAllOf(newer, cd)
<1>1. ASSUME NEW i \in 1 .. Len(cd) PROVE SameFields(newer[i], cd[i])
  <2>1. i \in 1 .. Len(new)
    BY DEF HasAllOf
  <2>. QED
    BY <2>1 DEF HasAllOf, SameFields
<1>. QED
  BY <1>1 DEF HasAllOf

(* What has run when the instruction that a call returns runs. *)
LEMMA LastStep ==
  ASSUME Inv, Sound, ~LoadsField(ast), pc = "Building", NEW n \in Nat \ {0}, n = Len(code),
         NEW cd, Len(cd) = n, HasAllOf(cd, code),
         NEW new, Len(new) = n + 1, HasAllOf(new, cd), NEW st, Runs(st, new)
  PROVE  Meaning(frames, st[n]) /\ st[n + 1] = Execute(new, st[n], n + 1)
<1>1. HasAllOf(new, code)
  BY HasAllChained
<1>2. Meaning(frames, st[n])
  BY <1>1, MeaningBefore
<1>3. n + 1 \in 2 .. Len(new) /\ n + 1 - 1 = n
  OBVIOUS
<1>. QED
  BY <1>2, <1>3 DEF Runs

LEMMA VisitLeafSound ==
  ASSUME Inv, Sound, VisitLeaf
  PROVE  Sound'
<1>. DEFINE kind == IF Top.node.kind = "Literal" THEN "Constant" ELSE "LoadLocal"
            place == ast[Top.node.stmt].value.leaves[Top.node.leaf]
<1>1. /\ pc = "Building" /\ Top.node.kind \in {"Literal", "LoadLocal"} /\ Top.stage = "enter"
      /\ ReturnDefinition(Below(1), Top, code, NewInstr(kind, place, <<>>))
      /\ UNCHANGED <<pc, ast>>
  BY DEF VisitLeaf, Visiting
<1>2. PICK n \in Nat \ {0}, m \in Nat \ {0}, l \in Nat \ {0} :
        /\ n = Len(code) /\ Len(frames) = m /\ l = 1
  BY <1>1, Building
<1>3. PICK instr, op, at :
        op = kind /\ at = place /\ instr = NewInstr(op, at, <<>>)
  OBVIOUS
<1>. HIDE DEF kind, place
<1>5. /\ Top \in Calls(n) /\ Top = frames[m] /\ frames \in Seq(Calls(n)) /\ ast \in Bodies
      /\ Nesting(frames) /\ Len(frames) \in Nat /\ m \in 1 .. Len(frames)
      /\ code \in Seq(Instrs(Ats(ast), n)) /\ Len(code) = n /\ temp_count_ \in Int
  BY <1>1, <1>2, Building
<1>6. m > 2 /\ IsExpr(Top.node) /\ frames[2].node.kind # "Return" /\ Top.visitor = "Value"
  BY <1>1, <1>5, PlaceOf DEF LeafKinds
<1>7. op \in {"Constant", "LoadLocal"} /\ instr.op = op /\ instr.at = at
  BY <1>3 DEF kind, NewInstr
<1>8. instr \in Instrs(Ats(ast), n + 1)
  <2>1. PICK x \in Nat : x = n + 1
    OBVIOUS
  <2>2. at \in Ats(ast)
    <3>1. Top.node.stmt \in DOMAIN ast /\ Top.node.leaf \in DOMAIN ast[Top.node.stmt].value.leaves
      BY <1>5, <1>6, ExprFacts
    <3>. QED
      BY <1>3, <3>1, PlaceIn DEF place
  <2>3. PICK inputs \in Seq(0 .. x) : inputs = <<>>
    <3>1. <<>> \in Seq(0 .. x)
      OBVIOUS
    <3>. QED
      BY <3>1
  <2>4. op \in Opcodes
    BY <1>7 DEF Opcodes
  <2>5. instr = NewInstr(op, at, inputs)
    BY <1>3, <2>3
  <2>. QED
    BY <2>1, <2>2, <2>4, <2>5, NewInstrTyped
<1>9. Inv'
  BY VisitLeafStep
<1>10. ReturnsWith(m, Top, code, instr)
  <2>1. ReturnDefinition(Below(l), Top, code, instr)
    BY <1>1, <1>2, <1>3
  <2>2. Len(code') \in Nat /\ DOMAIN code' = 1 .. Len(code')
    BY <1>9, CodePrimed
  <2>3. Len(frames) = m + l - 1
    BY <1>2
  <2>. QED
    BY SMTT(30), <1>5, <1>8, <2>1, <2>2, <2>3, ReturnShape
<1>11. HasAllOf(code, code)
  BY <1>5 DEF HasAllOf, SameFields
<1>12. ASSUME ~LoadsField(ast), NEW st, Runs(st, code') PROVE Meaning(frames', st[n + 1])
  <2>1. PICK new, grown, t : new = frames' /\ grown = code' /\ t = Waiting(new)
    OBVIOUS
  <2>2. /\ Len(new) = m /\ \A k \in 1 .. m - 1 : new[k] = frames[k]
        /\ new[m].stage = "done" /\ new[m].node = Top.node /\ new[m].visitor = "Value"
        /\ new[m].result = n + 1 /\ Len(grown) = n + 1 /\ HasAllOf(grown, code)
        /\ grown[n + 1].op = op /\ grown[n + 1].at = at
    BY <1>5, <1>6, <1>7, <1>10, <2>1 DEF ReturnsWith
  <2>3. Meaning(frames, st[n]) /\ st[n + 1] = Execute(grown, st[n], n + 1)
    BY <1>1, <1>2, <1>11, <1>12, <2>1, <2>2, LastStep
  <2>4. grown[n + 1].temp = t
    <3>1. Len(frames') = m /\ frames'[m].stage = "done" /\ frames'[m].visitor = "Value"
      BY <2>1, <2>2
    <3>2. code'[frames'[m].result].temp = Waiting(frames')
      BY <1>1, <1>9, <1>12, <3>1, BoundTemp
    <3>. QED
      BY <2>1, <2>2, <3>2
  <2>5. Execute(grown, st[n], n + 1) = Put(st[n], t, <<at>>)
    <3>1. n + 1 # Nil
      BY DEF Nil
    <3>. QED
      BY <1>7, <2>2, <2>4, <3>1, Zenon DEF Execute
  <2>6. NodeValue(new[m].node) = <<at>>
    BY <1>1, <1>3, <2>2 DEF NodeValue, LeafValue, place
  <2>7. Meaning(new, st[n + 1])
    BY <1>2, <1>5, <1>6, <2>1, <2>2, <2>3, <2>5, <2>6, MeaningReturned
  <2>. QED
    BY <2>1, <2>7
<1>13. /\ UNCHANGED <<pc, ast>> /\ Top.node = frames[m].node /\ m > 1 /\ m <= Len(frames)
       /\ instr.op \in {"Constant", "LoadLocal"}
  BY <1>1, <1>2, <1>5, <1>6, <1>7
<1>. QED
  BY <1>1, <1>2, <1>10, <1>11, <1>12, <1>13, ReturnSound

(* A caller's operand has returned: its value is the one that waits. *)
LEMMA OperandValue ==
  ASSUME Inv, Sound, pc = "Building", ~LoadsField(ast), Len(frames) > 1, Top.stage = "done",
         Caller.node.kind \in {"StoreLocal", "BinaryOp"}, NEW state, Meaning(frames, state)
  PROVE  /\ Top.result \in 1 .. Len(code) /\ code[Top.result].temp = Waiting(frames)
         /\ state.temps[Waiting(frames)] = NodeValue(ChildNode(Caller))
<1>1. PICK L \in Nat : L = Len(frames)
  BY Building
<1>2. Top = frames[L] /\ Caller = frames[L - 1] /\ L - 1 \in 1 .. L - 1 /\ L - 1 + 1 = L
  BY <1>1 DEF Top, Caller
<1>3. Top.node = ChildNode(Caller)
  BY <1>1, <1>2 DEF Sound, Follows
<1>4. /\ Returned(frames) /\ Top.result \in DOMAIN code
      /\ code[Top.result].temp = Waiting(frames)
  BY OperandReturned
<1>5. DOMAIN code = 1 .. Len(code)
  <2>1. code \in Seq(Instrs(Ats(ast), Len(code)))
    BY Building
  <2>. QED
    BY <2>1
<1>. QED
  BY <1>1, <1>2, <1>3, <1>4, <1>5 DEF Meaning

LEMMA BinaryOpSound ==
  ASSUME Inv, Sound, BinaryOp
  PROVE  Sound'
<1>1. PICK n \in Nat \ {0}, m \in Nat \ {0}, l \in Nat \ {0},
          merged \in {AppendVisitor(Caller, Top)}, cd \in {LinkVisitor(Caller, Top)} :
        /\ n = Len(code) /\ Len(frames) = m + 1 /\ l = 2
        /\ merged = AppendVisitor(Caller, Top) /\ cd = LinkVisitor(Caller, Top)
  <2>1. Len(frames) > 1 /\ pc = "Building"
    BY DEF BinaryOp, Returning
  <2>2. PICK m \in Nat \ {0} : Len(frames) = m + 1
    <3>1. Len(frames) - 1 \in Nat \ {0} /\ Len(frames) = Len(frames) - 1 + 1
      BY <2>1, Building
    <3>. QED
      BY <3>1
  <2>. QED
    BY <2>1, <2>2, Building
<1>2. PICK instr, at, left, right :
        /\ at = OperatorPlace(ast[Caller.node.stmt].value.ops[Caller.node.leaf])
        /\ left = Caller.left /\ right = Top.result
        /\ instr = NewInstr("BinaryOp", at, Operands(left, right))
  OBVIOUS
<1>3. /\ pc = "Building" /\ Len(frames) > 1 /\ Top.stage = "done"
      /\ Caller.node.kind = "BinaryOp" /\ Caller.stage = "right"
      /\ ReturnDefinition(Below(l), merged, cd, instr)
      /\ UNCHANGED <<pc, ast>>
  BY <1>1, <1>2 DEF BinaryOp, Returning
<1>4. /\ Caller \in Calls(n) /\ Caller = frames[m] /\ Top \in Calls(n)
      /\ merged \in Calls(n) /\ merged.visitor = Caller.visitor /\ merged.node = Caller.node
      /\ cd \in Seq(Instrs(Ats(ast), n)) /\ Len(cd) = n
  <2>1. PICK L \in Nat : L = Len(frames) /\ L - 1 = m
    BY <1>1
  <2>. QED
    BY <1>1, <1>3, <2>1, MergeFacts
<1>5. /\ ast \in Bodies /\ Nesting(frames) /\ m \in 1 .. Len(frames) /\ Len(frames) \in Nat
      /\ frames \in Seq(Calls(n)) /\ temp_count_ \in Int
  BY <1>1, <1>3, Building
<1>6. m > 2 /\ IsExpr(Caller.node) /\ frames[2].node.kind # "Return" /\ Caller.visitor = "Value"
  BY <1>3, <1>4, <1>5, PlaceOf
<1>7. PICK i, j :
        /\ i = Caller.node.stmt /\ j = Caller.node.leaf
        /\ i \in DOMAIN ast /\ j \in DOMAIN ast[i].value.leaves
        /\ j + 1 \in DOMAIN ast[i].value.leaves
  BY <1>3, <1>5, <1>6, ExprFacts
<1>8. /\ instr.op = "BinaryOp" /\ instr.at = at /\ instr.inputs = <<left, right>>
  BY <1>2 DEF NewInstr, Operands
<1>9. instr \in Instrs(Ats(ast), n + 1)
  <2>1. PICK x \in Nat : x = n + 1
    OBVIOUS
  <2>2. at \in Ats(ast)
    BY <1>2, <1>7, PlaceIn
  <2>3. PICK inputs \in Seq(0 .. x) : inputs = Operands(left, right)
    <3>1. left \in 0 .. x /\ right \in 0 .. x
      <4>1. Caller.left \in 0 .. n /\ Top.result \in 0 .. n
        BY <1>4 DEF Calls
      <4>. QED
        BY <1>2, <2>1, <4>1
    <3>2. <<left, right>> \in Seq(0 .. x)
      BY <3>1
    <3>. QED
      BY <3>2 DEF Operands
  <2>4. PICK op \in Opcodes : op = "BinaryOp"
    BY DEF Opcodes
  <2>5. instr = NewInstr(op, at, inputs)
    BY <1>2, <2>3, <2>4
  <2>. QED
    BY <2>1, <2>2, <2>5, NewInstrTyped
<1>10. Inv'
  BY BinaryOpStep
<1>11. ReturnsWith(m, merged, cd, instr)
  <2>1. Len(code') \in Nat /\ DOMAIN code' = 1 .. Len(code')
    BY <1>10, CodePrimed
  <2>2. Len(frames) = m + l - 1
    BY <1>1
  <2>. QED
    BY SMTT(30), <1>3, <1>4, <1>5, <1>9, <2>1, <2>2, ReturnShape
<1>12. Len(cd) = n /\ HasAllOf(cd, code) /\ (Supplied(code) => Supplied(cd))
  BY <1>1, <1>3, AppendedSame
<1>13. ASSUME ~LoadsField(ast) PROVE left \in 1 .. n /\ code[left].temp = m - 3
  <2>1. Temps(frames, code, temp_count_)
    BY <1>3, <1>13, Building
  <2>2. m \in 3 .. Len(frames)
    BY <1>5, <1>6
  <2>3. left \in DOMAIN code /\ code[left].temp = m - 3
    BY <1>2, <1>3, <1>4, <2>1, <2>2 DEF Temps
  <2>4. DOMAIN code = 1 .. n
    <3>1. code \in Seq(Instrs(Ats(ast), n))
      BY <1>1, <1>3, Building
    <3>. QED
      BY <1>1, <3>1
  <2>. QED
    BY <2>3, <2>4
<1>14. ASSUME ~LoadsField(ast) PROVE right \in 1 .. n
  <2>1. Top.result \in DOMAIN code
    BY <1>3, <1>14, OperandReturned
  <2>2. code \in Seq(Instrs(Ats(ast), n))
    BY <1>1, <1>3, Building
  <2>. QED
    BY <1>1, <1>2, <2>1, <2>2
<1>15. ASSUME ~LoadsField(ast), NEW st, Runs(st, code') PROVE Meaning(frames', st[n + 1])
  <2>1. PICK new, grown, t, state :
          new = frames' /\ grown = code' /\ t = Waiting(new) /\ state = st[n]
    OBVIOUS
  <2>2. /\ Len(new) = m /\ \A k \in 1 .. m - 1 : new[k] = frames[k]
        /\ new[m].stage = "done" /\ new[m].node = Caller.node /\ new[m].visitor = "Value"
        /\ new[m].result = n + 1 /\ Len(grown) = n + 1 /\ HasAllOf(grown, cd)
        /\ grown[n + 1].op = "BinaryOp" /\ grown[n + 1].at = at
        /\ grown[n + 1].inputs = <<left, right>>
    BY <1>4, <1>6, <1>8, <1>11, <2>1 DEF ReturnsWith
  <2>3. Meaning(frames, state) /\ st[n + 1] = Execute(grown, state, n + 1)
    BY <1>1, <1>3, <1>12, <1>15, <2>1, <2>2, LastStep
  <2>4. grown[n + 1].temp = t
    <3>1. Len(frames') = m /\ frames'[m].stage = "done" /\ frames'[m].visitor = "Value"
      BY <2>1, <2>2
    <3>2. code'[frames'[m].result].temp = Waiting(frames')
      BY <1>3, <1>10, <1>15, <3>1, BoundTemp
    <3>. QED
      BY <2>1, <2>2, <3>2
  <2>5. HasAllOf(grown, code)
    BY <1>1, <1>12, <2>2, HasAllChained
  <2>6. PICK v1, v2 :
          /\ v1 = <<ast[i].value.leaves[j]>> /\ v2 = Suffix(i, j + 1)
          /\ v1 \o v2 \o <<at>> = Suffix(i, j)
    <3>1. PICK last \in Nat : last = Len(ast[i].value.leaves) /\ j \in 1 .. last - 1
      <4>1. /\ Len(ast[i].value.leaves) \in Nat \ {0}
            /\ DOMAIN ast[i].value.leaves = 1 .. Len(ast[i].value.leaves)
        BY <1>5, <1>7, TreeTyped
      <4>. QED
        BY <1>7, <4>1
    <3>2. <<ast[i].value.leaves[j]>> \o Suffix(i, j + 1) \o <<OperatorPlace(ast[i].value.ops[j])>>
            = Suffix(i, j)
      BY <1>5, <1>7, <3>1, SuffixStep
    <3>. QED
      BY <1>2, <1>7, <3>2
  <2>7. state.temps[grown[left].temp] = v1
    <3>1. grown[left].temp = m - 3
      BY <1>1, <1>13, <1>15, <2>5 DEF HasAllOf, SameFields
    <3>2. m \in 3 .. Len(frames)
      BY <1>5, <1>6
    <3>3. state.temps[m - 3] = LeafValue(Caller.node)
      BY <1>3, <1>4, <2>3, <3>2 DEF Meaning
    <3>. QED
      BY <1>7, <2>6, <3>1, <3>3 DEF LeafValue
  <2>8. state.temps[grown[right].temp] = v2
    <3>1. /\ code[Top.result].temp = Waiting(frames)
          /\ state.temps[Waiting(frames)] = NodeValue(ChildNode(Caller))
      BY <1>3, <1>15, <2>3, OperandValue
    <3>2. grown[right].temp = code[right].temp
      BY <1>1, <1>14, <1>15, <2>5 DEF HasAllOf, SameFields
    <3>3. PICK j1 \in DOMAIN ast[i].value.leaves : j1 = j + 1
      BY <1>7
    <3>4. ChildNode(Caller) = ExprNode(i, j1)
      BY <1>3, <1>7, <3>3 DEF ChildNode
    <3>5. NodeValue(ExprNode(i, j1)) = Suffix(i, j1)
      BY <1>5, <1>7, ExprValue
    <3>. QED
      BY <1>2, <2>6, <3>1, <3>2, <3>3, <3>4, <3>5
  <2>9. Execute(grown, state, n + 1) = Put(state, t, v1 \o v2 \o <<at>>)
    <3>1. n + 1 # Nil
      BY DEF Nil
    <3>2. grown[n + 1].inputs[1] = left /\ grown[n + 1].inputs[2] = right
      BY <2>2
    <3>3. "BinaryOp" \notin {"Constant", "LoadLocal"}
      OBVIOUS
    <3>. QED
      BY <2>2, <2>4, <2>7, <2>8, <3>1, <3>2, <3>3, Zenon DEF Execute
  <2>10. NodeValue(new[m].node) = Suffix(i, j)
    BY <1>3, <1>7, <2>2 DEF NodeValue
  <2>11. st[n + 1] = Put(state, Waiting(new), NodeValue(new[m].node))
    BY <2>1, <2>3, <2>6, <2>9, <2>10
  <2>12. m <= Len(frames)
    BY <1>1
  <2>13. Meaning(new, st[n + 1])
    BY SMTT(30), <1>5, <1>6, <2>2, <2>3, <2>11, <2>12, MeaningReturned
  <2>. QED
    BY <2>1, <2>13
<1>16. /\ UNCHANGED <<pc, ast>> /\ merged.node = frames[m].node /\ m > 1 /\ m <= Len(frames)
       /\ instr.op = "BinaryOp" /\ instr.inputs[1] = left /\ instr.inputs[2] = right
  BY <1>1, <1>3, <1>4, <1>6, <1>8
<1>. QED
  BY <1>1, <1>3, <1>11, <1>12, <1>13, <1>14, <1>15, <1>16, ReturnSound

LEMMA StoreLocalSound ==
  ASSUME Inv, Sound, StoreLocal
  PROVE  Sound'
<1>1. PICK n \in Nat \ {0}, m \in Nat \ {0}, l \in Nat \ {0},
          merged \in {AppendVisitor(Caller, Top)}, cd \in {LinkVisitor(Caller, Top)} :
        /\ n = Len(code) /\ Len(frames) = m + 1 /\ l = 2
        /\ merged = AppendVisitor(Caller, Top) /\ cd = LinkVisitor(Caller, Top)
  <2>1. Len(frames) > 1 /\ pc = "Building"
    BY DEF StoreLocal, Returning
  <2>2. PICK m \in Nat \ {0} : Len(frames) = m + 1
    <3>1. Len(frames) - 1 \in Nat \ {0} /\ Len(frames) = Len(frames) - 1 + 1
      BY <2>1, Building
    <3>. QED
      BY <3>1
  <2>. QED
    BY <2>1, <2>2, Building
<1>2. PICK instr, at, value :
        /\ at = ast[Caller.node.stmt].dest /\ value = Top.result
        /\ instr = NewInstr("StoreLocal", at, <<value>>)
  OBVIOUS
<1>3. /\ pc = "Building" /\ Len(frames) > 1 /\ Top.stage = "done"
      /\ Caller.node.kind = "StoreLocal" /\ Caller.stage = "value"
      /\ ReturnDefinition(Below(l), merged, cd, instr)
      /\ UNCHANGED <<pc, ast>>
  BY <1>1, <1>2 DEF StoreLocal, Returning
<1>4. /\ Caller = frames[m] /\ Top \in Calls(n)
      /\ merged \in Calls(n) /\ merged.visitor = Caller.visitor /\ merged.node = Caller.node
      /\ cd \in Seq(Instrs(Ats(ast), n)) /\ Len(cd) = n
  <2>1. PICK L \in Nat : L = Len(frames) /\ L - 1 = m
    BY <1>1
  <2>. QED
    BY <1>1, <1>3, <2>1, MergeFacts
<1>5. /\ ast \in Bodies /\ Nesting(frames) /\ m \in 1 .. Len(frames) /\ Len(frames) \in Nat
      /\ frames \in Seq(Calls(n)) /\ temp_count_ \in Int
  BY <1>1, <1>3, Building
<1>6. m = 2 /\ Caller.visitor = "Effect"
  BY <1>3, <1>4, <1>5, PlaceOf
<1>7. PICK i \in Nat :
        /\ frames[1].next = i + 1 /\ i \in DOMAIN ast /\ i = Caller.node.stmt
        /\ ast[i].dest.on = "Local"
  <2>1. 1 \in 1 .. Len(frames) /\ 1 \in 1 .. Len(frames) - 1
    BY <1>1, <1>6
  <2>2. frames[2].node = ChildNode(frames[1]) /\ frames[1].node.kind = "Sequence"
    BY <1>5, <2>1, KindAt DEF Sound, Follows
  <2>3. PICK i \in Nat : frames[1].next = i + 1 /\ frames[1].next - 1 = i
    <3>1. frames[1] \in Calls(n)
      BY <1>5, <2>1
    <3>2. frames[1].next \in Nat \ {0}
      BY <3>1 DEF Calls
    <3>3. frames[1].next - 1 \in Nat /\ frames[1].next = frames[1].next - 1 + 1
      BY <3>2
    <3>. QED
      BY <3>3
  <2>4. Caller.node = StatementNode(i)
    BY <1>4, <1>6, <2>2, <2>3 DEF ChildNode
  <2>5. Caller.node.stmt = i /\ ast[i].dest.on = "Local"
    BY <1>3, <2>4 DEF StatementNode
  <2>6. Caller.node.stmt \in DOMAIN ast
    BY <1>3, <1>4, <1>5, PlaceOf
  <2>. QED
    BY <2>3, <2>5, <2>6
<1>8. instr.op = "StoreLocal" /\ instr.at = at /\ instr.inputs = <<value>>
  BY <1>2 DEF NewInstr
<1>9. instr \in Instrs(Ats(ast), n + 1)
  <2>1. PICK x \in Nat : x = n + 1
    OBVIOUS
  <2>2. at \in Ats(ast)
    BY <1>2, <1>7 DEF Ats
  <2>3. PICK inputs \in Seq(0 .. x) : inputs = <<value>>
    <3>1. value \in 0 .. x
      <4>1. Top.result \in 0 .. n
        BY <1>4 DEF Calls
      <4>. QED
        BY <1>2, <2>1, <4>1
    <3>2. <<value>> \in Seq(0 .. x)
      BY <3>1
    <3>. QED
      BY <3>2
  <2>4. PICK op \in Opcodes : op = "StoreLocal"
    BY DEF Opcodes
  <2>5. instr = NewInstr(op, at, inputs)
    BY <1>2, <2>3, <2>4
  <2>. QED
    BY <2>1, <2>2, <2>5, NewInstrTyped
<1>10. Inv'
  BY StoreLocalStep
<1>11. ReturnsWith(m, merged, cd, instr)
  <2>1. Len(code') \in Nat /\ DOMAIN code' = 1 .. Len(code')
    BY <1>10, CodePrimed
  <2>2. Len(frames) = m + l - 1
    BY <1>1
  <2>. QED
    BY SMTT(30), <1>3, <1>4, <1>5, <1>9, <2>1, <2>2, ReturnShape
<1>12. Len(cd) = n /\ HasAllOf(cd, code) /\ (Supplied(code) => Supplied(cd))
  BY <1>1, <1>3, AppendedSame
<1>13. ASSUME ~LoadsField(ast) PROVE value \in 1 .. n
  <2>1. Top.result \in DOMAIN code
    BY <1>3, <1>13, OperandReturned
  <2>2. code \in Seq(Instrs(Ats(ast), n))
    BY <1>1, <1>3, Building
  <2>. QED
    BY <1>1, <1>2, <2>1, <2>2
<1>14. ASSUME ~LoadsField(ast), NEW st, Runs(st, code') PROVE Meaning(frames', st[n + 1])
  <2>1. PICK new, grown, state, after :
          new = frames' /\ grown = code' /\ state = st[n] /\ after = st[n + 1]
    OBVIOUS
  <2>2. /\ Len(new) = 2 /\ new[1] = frames[1]
        /\ new[2].stage = "done" /\ new[2].visitor = "Effect"
        /\ Len(grown) = n + 1 /\ HasAllOf(grown, cd)
        /\ grown[n + 1].op = "StoreLocal" /\ grown[n + 1].at = at
        /\ grown[n + 1].inputs = <<value>>
    <3>1. 1 \in 1 .. m - 1
      BY <1>6
    <3>. QED
      BY <1>4, <1>6, <1>8, <1>11, <2>1, <3>1 DEF ReturnsWith
  <2>3. Meaning(frames, state) /\ after = Execute(grown, state, n + 1)
    BY <1>1, <1>3, <1>12, <1>14, <2>1, <2>2, LastStep
  <2>4. HasAllOf(grown, code)
    BY <1>1, <1>12, <2>2, HasAllChained
  <2>5. state.temps[grown[value].temp] = SourceValue(ast[i].value)
    <3>1. /\ code[Top.result].temp = Waiting(frames)
          /\ state.temps[Waiting(frames)] = NodeValue(ChildNode(Caller))
      BY <1>3, <1>14, <2>3, OperandValue
    <3>2. grown[value].temp = code[value].temp
      BY <1>1, <1>13, <1>14, <2>4 DEF HasAllOf, SameFields
    <3>3. PICK one \in DOMAIN ast[i].value.leaves : one = 1
      BY <1>5, <1>7, TreeTyped
    <3>4. ChildNode(Caller) = ExprNode(i, one)
      BY <1>3, <1>7, <3>3 DEF ChildNode
    <3>5. NodeValue(ExprNode(i, one)) = Suffix(i, one)
      BY <1>5, <1>7, ExprValue
    <3>6. Suffix(i, one) = SourceValue(ast[i].value)
      BY <1>5, <1>7, <3>3, SuffixWhole
    <3>. QED
      BY <1>2, <3>1, <3>2, <3>4, <3>5, <3>6
  <2>6. after = [temps |-> state.temps,
                 stores |-> Append(state.stores,
                                   [dest |-> at, value |-> SourceValue(ast[i].value)])]
    <3>1. n + 1 # Nil
      BY DEF Nil
    <3>2. grown[n + 1].inputs[1] = value
      BY <2>2
    <3>3. "StoreLocal" \notin {"Constant", "LoadLocal"} /\ "StoreLocal" # "BinaryOp"
      OBVIOUS
    <3>. QED
      BY <2>2, <2>3, <2>5, <3>1, <3>2, <3>3, Zenon DEF Execute
  <2>7. state.stores = StoresUpTo(ast)[i - 1]
    <3>1. Completed(frames) = frames[1].next - 2
      BY <1>1, <1>3, <1>4, <1>6 DEF Completed
    <3>2. Completed(frames) = i - 1
      BY <1>7, <3>1
    <3>. QED
      BY <2>3, <3>2 DEF Meaning
  <2>8. StoresUpTo(ast)[i] = Append(StoresUpTo(ast)[i - 1],
                                    [dest |-> at, value |-> SourceValue(ast[i].value)])
    <3>1. Len(ast) \in Nat /\ i \in 1 .. Len(ast)
      BY <1>5, <1>7, TreeTyped
    <3>2. PICK f0 : f0 = StoresUpTo(ast)
      OBVIOUS
    <3>3. f0[i] = StoresStep(f0, i)
      BY <3>1, <3>2, StoresUnfold DEF IsStores
    <3>4. at = ast[i].dest
      BY <1>2, <1>7
    <3>. QED
      BY <1>7, <3>2, <3>3, <3>4, Zenon DEF StoresStep
  <2>9. after.stores = StoresUpTo(ast)[Completed(new)]
    <3>1. Completed(new) = i
      BY <1>7, <2>2 DEF Completed
    <3>2. after.stores = Append(state.stores, [dest |-> at, value |-> SourceValue(ast[i].value)])
      BY <2>6
    <3>. QED
      BY <2>7, <2>8, <3>1, <3>2
  <2>10. Meaning(new, after)
    BY <2>2, <2>9 DEF Meaning, Returned
  <2>. QED
    BY <2>1, <2>10
<1>15. /\ UNCHANGED <<pc, ast>> /\ merged.node = frames[m].node /\ m > 1 /\ m <= Len(frames)
       /\ instr.op = "StoreLocal" /\ instr.inputs[1] = value
  BY <1>1, <1>3, <1>4, <1>6, <1>8
<1>. QED
  BY <1>1, <1>3, <1>11, <1>12, <1>13, <1>14, <1>15, ReturnSound

-----------------------------------------------------------------------------
LEMMA SoundInit == Init => Sound
<1>. SUFFICES ASSUME Init PROVE Sound
  OBVIOUS
<1>1. /\ Len(frames) = 1 /\ frames[1].next = 1 /\ frames[1].stage = "enter" /\ Len(code) = 1
      /\ pc = "Building" /\ ast \in Bodies
  BY DEF Init, NewFrame
<1>2. Len(ast) \in Nat
  BY <1>1, TreeTyped
<1>3. Counted(frames)
  BY <1>1, <1>2 DEF Counted
<1>4. Follows(frames)
  BY <1>1 DEF Follows
<1>5. Supplied(code)
  BY <1>1 DEF Supplied
<1>6. ASSUME NEW st, Runs(st, code) PROVE Meaning(frames, st[Len(code)])
  <2>1. st[Len(code)] = Blank
    BY <1>1, <1>6 DEF Runs
  <2>2. StoresUpTo(ast)[0] = <<>>
    <3>1. PICK f : f = StoresUpTo(ast)
      OBVIOUS
    <3>. QED
      BY <1>2, <3>1, StoresUnfold DEF IsStores
  <2>3. Completed(frames) = 0
    BY <1>1 DEF Completed
  <2>4. ~Returned(frames)
    BY <1>1 DEF Returned
  <2>. QED
    BY <1>1, <2>1, <2>2, <2>3, <2>4 DEF Meaning, Blank
<1>. QED
  BY <1>3, <1>4, <1>5, <1>6 DEF Sound, Computes

LEMMA SoundNext == Inv /\ Sound /\ [Next]_vars => Sound'
<1>. SUFFICES ASSUME Inv, Sound, [Next]_vars PROVE Sound'
  OBVIOUS
<1>1. CASE UNCHANGED vars
  <2>1. pc' = pc /\ ast' = ast /\ frames' = frames /\ code' = code
    BY <1>1 DEF vars
  <2>. QED
    BY <2>1, SoundPrimed DEF Sound, Counted
<1>2. CASE Terminated
  BY <1>1, <1>2 DEF Terminated
<1>3. CASE VisitChild
  BY <1>3, VisitChildSound
<1>4. CASE AppendChild
  BY <1>4, AppendChildSound
<1>5. CASE FinishGraph
  BY <1>5, FinishGraphSound
<1>6. CASE VisitReturn
  BY <1>6, VisitReturnSound
<1>7. CASE VisitStoreLocal
  BY <1>7, VisitStoreLocalSound
<1>8. CASE StoreLocal
  BY <1>8, StoreLocalSound
<1>9. CASE VisitField
  BY <1>9, VisitFieldSound
<1>10. CASE VisitLeaf
  BY <1>10, VisitLeafSound
<1>11. CASE VisitLeft
  BY <1>11, VisitLeftSound
<1>12. CASE VisitRight
  BY <1>12, VisitRightSound
<1>13. CASE BinaryOp
  BY <1>13, BinaryOpSound
<1>. QED
  BY <1>1, <1>2, <1>3, <1>4, <1>5, <1>6, <1>7, <1>8, <1>9, <1>10, <1>11, <1>12, <1>13 DEF Next

LEMMA SoundHolds == Spec => []Sound
<1>1. Inv /\ Sound /\ [Next]_vars => Sound'
  BY SoundNext
<1>. QED
  BY <1>1, SoundInit, InvHolds, PTL DEF Spec

(* When BuildGraph is done, every statement has stored what it stores.     *)
LEMMA FinishedGraph ==
  ASSUME Inv, Sound, pc = "Done"
  PROVE  /\ Len(code) \in Nat \ {0} /\ Listed(code)
         /\ Completed(frames) = Len(ast)
         /\ ~LoadsField(ast) => Computes(frames, code)
<1>1. Len(frames) = 1 /\ Listed(code) /\ ast \in Bodies /\ Len(code) \in Nat \ {0}
  BY DEF Inv, Typed
<1>2. frames[1].next = Len(ast) + 1
  BY DEF Sound, Counted
<1>3. Len(ast) \in Nat
  BY <1>1, TreeTyped
<1>4. Completed(frames) = Len(ast)
  BY <1>1, <1>2, <1>3 DEF Completed
<1>. QED
  BY <1>1, <1>4 DEF Sound

(* The last instruction of a list that ends has run, and nothing after it. *)
LEMMA ChainStores ==
  ASSUME NEW n \in Nat \ {0}, n = Len(code), Listed(code), Computes(frames, code)
  PROVE  StoresOf(Chain) = StoresUpTo(ast)[Completed(frames)]
<1>1. PICK list, r : list = Chain /\ r = Run(list)
  OBVIOUS
<1>2. /\ Len(list) = n /\ list[n] = Nil
      /\ \A k \in 1 .. n - 1 : list[k] = k + 1
  BY <1>1, ChainListed
<1>3. /\ r[0] = Blank
      /\ \A k \in 1 .. n : r[k] = Execute(code, r[k - 1], list[k])
  BY <1>1, <1>2, RunUnfold DEF IsRunOf
<1>4. PICK st : st = [k \in 1 .. n |-> r[k - 1]]
  OBVIOUS
<1>5. Runs(st, code)
  <2>1. st[1] = Blank
    BY <1>3, <1>4
  <2>2. ASSUME NEW k \in 2 .. n PROVE st[k] = Execute(code, st[k - 1], k)
    <3>1. PICK j \in 1 .. n - 1 : j = k - 1
      <4>1. k - 1 \in 1 .. n - 1
        OBVIOUS
      <4>. QED
        BY <4>1
    <3>2. list[j] = k /\ st[k] = r[j] /\ st[j] = r[j - 1] /\ j \in 1 .. n
      BY <1>2, <1>4, <3>1
    <3>3. r[j] = Execute(code, r[j - 1], list[j])
      BY <1>3, <3>2
    <3>. QED
      BY <3>1, <3>2, <3>3
  <2>. QED
    BY <2>1, <2>2 DEF Runs
<1>6. r[n] = st[n]
  <2>1. n \in 1 .. n
    OBVIOUS
  <2>2. r[n] = Execute(code, r[n - 1], Nil)
    BY <1>2, <1>3, <2>1
  <2>3. Execute(code, r[n - 1], Nil) = r[n - 1]
    BY Zenon DEF Execute
  <2>. QED
    BY <1>4, <2>1, <2>2, <2>3
<1>7. st[n].stores = StoresUpTo(ast)[Completed(frames)]
  BY <1>5 DEF Computes, Meaning
<1>. QED
  BY <1>1, <1>2, <1>6, <1>7 DEF StoresOf

(* The same for the instructions behind `normal' in the order of creation, *)
(* however they are listed.                                                *)
LEMMA ListStores ==
  ASSUME NEW n \in Nat \ {0}, n = Len(code), Computes(frames, code),
         NEW list, Len(list) = n - 1, \A k \in 1 .. n - 1 : list[k] = k + 1
  PROVE  StoresOf(list) = StoresUpTo(ast)[Completed(frames)]
<1>1. PICK r : r = Run(list)
  OBVIOUS
<1>2. /\ r[0] = Blank
      /\ \A k \in 1 .. n - 1 : r[k] = Execute(code, r[k - 1], list[k])
  BY <1>1, RunUnfold DEF IsRunOf
<1>3. PICK st : st = [k \in 1 .. n |-> r[k - 1]]
  OBVIOUS
<1>4. Runs(st, code)
  <2>1. st[1] = Blank
    BY <1>2, <1>3
  <2>2. ASSUME NEW k \in 2 .. n PROVE st[k] = Execute(code, st[k - 1], k)
    <3>1. PICK j \in 1 .. n - 1 : j = k - 1
      <4>1. k - 1 \in 1 .. n - 1
        OBVIOUS
      <4>. QED
        BY <4>1
    <3>2. list[j] = k /\ st[k] = r[j] /\ st[j] = r[j - 1]
      BY <1>3, <3>1
    <3>3. r[j] = Execute(code, r[j - 1], list[j])
      BY <1>2, <3>1
    <3>. QED
      BY <3>1, <3>2, <3>3
  <2>. QED
    BY <2>1, <2>2 DEF Runs
<1>5. r[n - 1] = st[n] /\ n \in 1 .. n
  BY <1>3
<1>6. st[n].stores = StoresUpTo(ast)[Completed(frames)]
  BY <1>4 DEF Computes, Meaning
<1>. QED
  BY <1>1, <1>5, <1>6 DEF StoresOf

(* When no field is loaded, executing the finished list through its        *)
(* temporaries stores into the same locals, in the same order, the values  *)
(* that the source computes: BuildGraph and the visitors translate every   *)
(* body faithfully, however long it is and however deep its expressions.   *)
THEOREM GraphIsFaithful == Spec => []GraphComputesSource
<1>1. ASSUME Inv, Sound PROVE GraphComputesSource
  <2>. SUFFICES ASSUME pc = "Done", ~LoadsField(ast) PROVE StoresOf(Chain) = SourceStores(ast)
    BY DEF GraphComputesSource
  <2>1. PICK n \in Nat \ {0} : n = Len(code)
    BY <1>1 DEF Inv, Typed
  <2>2. Listed(code) /\ Computes(frames, code) /\ Completed(frames) = Len(ast)
    BY <1>1, FinishedGraph
  <2>3. StoresOf(Chain) = StoresUpTo(ast)[Completed(frames)]
    BY <2>1, <2>2, ChainStores
  <2>. QED
    BY <2>2, <2>3 DEF SourceStores
<1>. QED
  BY <1>1, InvHolds, SoundHolds, PTL
=============================================================================
