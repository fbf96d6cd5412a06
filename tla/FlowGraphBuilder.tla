-------------------------- MODULE FlowGraphBuilder ---------------------------
(***************************************************************************)
(* FlowGraphBuilder of Sources/flow_graph_builder.h and .cc: the visitors  *)
(* that turn the syntax tree of one function into a list of instructions   *)
(* (Sources/irep.h).  A frame is one visitor object together with the      *)
(* Visit call that runs on it; a step is what happens between two calls or *)
(* returns of Visit.                                                       *)
(*                                                                         *)
(* An Instruction* is an index into code, which keeps the instructions in  *)
(* the order they are created; a Value* is the index of its definition.    *)
(* The tree is the statement list that Parser builds (Objects.tla).        *)
(***************************************************************************)
EXTENDS Objects, Integers

CONSTANTS
  Bodies,      \* the syntax trees a function may have
  StackLimit   \* how many Visit calls the process's stack can hold

IsSequence(s) == s \in Seq(Range(s))

(* A body is a list of statements; an expression has an operator between   *)
(* every two of its leaves.                                                *)
ASSUME BodiesAssumption ==
  /\ StackLimit \in Nat \ {0}
  /\ \A body \in Bodies :
       /\ IsSequence(body)
       /\ \A i \in DOMAIN body :
            /\ IsSequence(body[i].value.leaves) /\ body[i].value.leaves # <<>>
            /\ IsSequence(body[i].value.ops)
            /\ Len(body[i].value.ops) = Len(body[i].value.leaves) - 1

VARIABLES
  pc,          \* "Building", "Done" or "Crashed"
  ast,         \* ast_, the function's syntax tree
  frames,      \* the Visit calls that are active, the innermost last
  code,        \* every Instruction there is
  temp_count_  \* the temporaries in use

vars == <<pc, ast, frames, code, temp_count_>>

-----------------------------------------------------------------------------
(* The nodes of the tree *)

(* The node of the i-th statement, and of the expression that starts at    *)
(* its j-th leaf: l_j op_j (l_j+1 ...).                                    *)
StatementNode(i) ==
  [kind |-> CASE ast[i].dest.on = "Return" -> "Return"
              [] ast[i].dest.on = "Local" -> "StoreLocal"
              [] OTHER -> "StoreField",
   stmt |-> i, leaf |-> 0]

LeafNode(i, j) ==
  [kind |-> CASE ast[i].value.leaves[j].on = "Literal" -> "Literal"
              [] ast[i].value.leaves[j].on = "Local" -> "LoadLocal"
              [] OTHER -> "LoadField",
   stmt |-> i, leaf |-> j]

ExprNode(i, j) ==
  IF j = Len(ast[i].value.leaves) THEN LeafNode(i, j)
  ELSE [kind |-> "BinaryOp", stmt |-> i, leaf |-> j]

SequenceNode == [kind |-> "Sequence", stmt |-> 0, leaf |-> 0]

-----------------------------------------------------------------------------
(* Instructions *)

(* An instruction before it is linked.  Only Bind sets temp.               *)
NewInstr(op, at, inputs) ==
  [op |-> op, at |-> at, inputs |-> inputs, temp |-> 0, next |-> Nil, prev |-> Nil]

OperatorPlace(kind) == Place(kind, Nil, Nil)

(* Instruction::Link *)
Link(instrs, one, two) == [instrs EXCEPT ![one].next = two, ![two].prev = one]

(* The TargetEntryInstr `normal' that BuildGraph creates first.            *)
Normal == 1

-----------------------------------------------------------------------------
(* Visitors *)

(* stage: how far the Visit call is; next: VisitSequence's i; left: the    *)
(* value of for_left_value; result: value_ of a ValueVisitor.              *)
NewFrame(visitor, node) ==
  [visitor |-> visitor, node |-> node, stage |-> "enter", next |-> 1,
   entry |-> Nil, exit |-> Nil, left |-> Nil, result |-> Nil]

Top == frames[Len(frames)]
Caller == frames[Len(frames) - 1]
IsEmpty(frame) == frame.entry = Nil
IsOpen(frame) == IsEmpty(frame) \/ frame.exit # Nil

(* Mutant: only the first fragment is kept. *)
AppendFirst(frame, other) ==
  IF IsEmpty(frame) THEN [frame EXCEPT !.entry = other.entry, !.exit = other.exit]
  ELSE frame

(* Mutant: exit_ moves on only where the fragments are linked. *)
AppendKeepsExit(frame, other) ==
  IF IsEmpty(other) THEN frame
  ELSE IF IsEmpty(frame) THEN [frame EXCEPT !.entry = other.entry]
  ELSE [frame EXCEPT !.exit = other.exit]

(* EffectVisitor::Append: what it makes of the visitor and of the code.    *)
AppendVisitor(frame, other) ==
  IF IsEmpty(other) THEN frame
  ELSE [frame EXCEPT !.entry = IF IsEmpty(frame) THEN other.entry ELSE @,
                     !.exit = other.exit]

LinkVisitor(frame, other) ==
  IF IsEmpty(frame) \/ IsEmpty(other) THEN code
  ELSE Link(code, frame.exit, other.entry)

(* Mutant: the inputs keep their temporaries. *)
DeallocNothing(instr) == temp_count_

(* DeallocTemps(defn->GetInputCount()): an input that is nullptr counts.   *)
DeallocTemps(instr) == temp_count_ - Len(instr.inputs)

(* ReturnDefinition of the visitor in frame, whose callers are beneath it: *)
(* a ValueVisitor binds the instruction to a temporary, an EffectVisitor   *)
(* only adds it, which it does for constants too, because no instruction   *)
(* overrides AsConstant.  The Visit call ends here.                        *)
ReturnDefinition(callers, frame, instrs, instr) ==
  LET binds == frame.visitor = "Value"
      free  == DeallocTemps(instr)
      new   == Len(instrs) + 1
      grown == Append(instrs, [instr EXCEPT !.temp = IF binds THEN free ELSE @])
  IN  /\ code' = IF IsEmpty(frame) THEN grown ELSE Link(grown, frame.exit, new)
      /\ temp_count_' = IF binds THEN free + 1 ELSE free
      /\ frames' = Append(callers,
                     [frame EXCEPT !.entry = IF IsEmpty(frame) THEN new ELSE @,
                                   !.exit = new, !.stage = "done",
                                   !.result = IF binds THEN new ELSE @])

(* Mutant: one call fewer. *)
VisitWithReserve(callers, frame, visitor, node) ==
  IF Len(callers) + 2 < StackLimit
  THEN /\ frames' = callers \o <<frame, NewFrame(visitor, node)>>
       /\ UNCHANGED pc
  ELSE pc' = "Crashed" /\ UNCHANGED frames

(* node->Visit(&visitor), the caller waiting at a stage of its own; the    *)
(* process dies when its stack is exhausted.                               *)
Visit(callers, frame, visitor, node) ==
  IF Len(callers) + 1 < StackLimit
  THEN /\ frames' = callers \o <<frame, NewFrame(visitor, node)>>
       /\ UNCHANGED pc
  ELSE pc' = "Crashed" /\ UNCHANGED frames

-----------------------------------------------------------------------------
(* BuildGraph *)

(* BuildGraph creates `normal' and visits ast_, whose function is one that *)
(* the parser has built.                                                   *)
Init ==
  /\ pc = "Building"
  /\ ast \in Bodies
  /\ frames = <<NewFrame("Effect", SequenceNode)>>
  /\ code = <<NewInstr("TargetEntry", NoPlace, <<>>)>>
  /\ temp_count_ = 0

Visiting(kind, stage) ==
  /\ pc = "Building"
  /\ Top.node.kind = kind
  /\ Top.stage = stage

(* The innermost call has ended; its caller waits at this stage.           *)
Returning(kind, stage) ==
  /\ pc = "Building"
  /\ Len(frames) > 1
  /\ Top.stage = "done"
  /\ Caller.node.kind = kind
  /\ Caller.stage = stage

Below(n) == SubSeq(frames, 1, Len(frames) - n)

MoreChildren == IsOpen(Top) /\ Top.next <= Len(ast)

(* Mutant: the same child again. *)
VisitSameChild ==
  /\ Visiting("Sequence", "enter")
  /\ MoreChildren
  /\ Visit(Below(1), [Top EXCEPT !.stage = "child"], "Effect", StatementNode(Top.next))
  /\ UNCHANGED <<ast, code, temp_count_>>

(* VisitSequence: each child has an EffectVisitor of its own, appended     *)
(* when it returns.                                                        *)
VisitChild ==
  /\ Visiting("Sequence", "enter")
  /\ MoreChildren
  /\ Visit(Below(1), [Top EXCEPT !.stage = "child", !.next = @ + 1],
           "Effect", StatementNode(Top.next))
  /\ UNCHANGED <<ast, code, temp_count_>>

AppendChild ==
  /\ Returning("Sequence", "child")
  /\ code' = LinkVisitor(Caller, Top)
  /\ frames' = Append(Below(2), [AppendVisitor(Caller, Top) EXCEPT !.stage = "enter"])
  /\ UNCHANGED <<pc, ast, temp_count_>>

(* AppendFragment, after the last child. *)
FinishGraph ==
  /\ Visiting("Sequence", "enter")
  /\ ~MoreChildren
  /\ code' = IF IsEmpty(Top) THEN code ELSE Link(code, Normal, Top.entry)
  /\ pc' = "Done"
  /\ UNCHANGED <<ast, frames, temp_count_>>

(* VisitReturn visits the return node itself, not its value, so that the   *)
(* ValueVisitor comes back here: the call never reaches AddReturnExit.     *)
VisitReturn ==
  /\ Visiting("Return", "enter")
  /\ Visit(Below(1), [Top EXCEPT !.stage = "value"], "Value", Top.node)
  /\ UNCHANGED <<ast, code, temp_count_>>

VisitStoreLocal ==
  /\ Visiting("StoreLocal", "enter")
  /\ Visit(Below(1), [Top EXCEPT !.stage = "value"], "Value", ExprNode(Top.node.stmt, 1))
  /\ UNCHANGED <<ast, code, temp_count_>>

(* Append(for_value), then ReturnDefinition of the store. *)
StoreLocal ==
  /\ Returning("StoreLocal", "value")
  /\ ReturnDefinition(Below(2), AppendVisitor(Caller, Top), LinkVisitor(Caller, Top),
       NewInstr("StoreLocal", ast[Caller.node.stmt].dest, <<Top.result>>))
  /\ UNCHANGED <<pc, ast>>

(* VisitLiteral and ValueVisitor::VisitLoadLocal.  No local is ever        *)
(* IsConstant: the only caller of SetConstantValue is behind an abort.     *)
VisitLeaf ==
  LET op == IF Top.node.kind = "Literal" THEN "Constant" ELSE "LoadLocal"
  IN  /\ Visiting("Literal", "enter") \/ Visiting("LoadLocal", "enter")
      /\ ReturnDefinition(Below(1), Top, code,
           NewInstr(op, ast[Top.node.stmt].value.leaves[Top.node.leaf], <<>>))
      /\ UNCHANGED <<pc, ast>>

(* The visits of fields are empty: no instruction and, for a load, no      *)
(* value.                                                                  *)
VisitField ==
  /\ Visiting("LoadField", "enter") \/ Visiting("StoreField", "enter")
  /\ frames' = Append(Below(1), [Top EXCEPT !.stage = "done"])
  /\ UNCHANGED <<pc, ast, code, temp_count_>>

VisitLeft ==
  /\ Visiting("BinaryOp", "enter")
  /\ Visit(Below(1), [Top EXCEPT !.stage = "left"], "Value",
           LeafNode(Top.node.stmt, Top.node.leaf))
  /\ UNCHANGED <<ast, code, temp_count_>>

(* Append(for_left_value), then the visit of the right operand. *)
VisitRight ==
  /\ Returning("BinaryOp", "left")
  /\ code' = LinkVisitor(Caller, Top)
  /\ Visit(Below(2),
           [AppendVisitor(Caller, Top) EXCEPT !.stage = "right", !.left = Top.result],
           "Value", ExprNode(Caller.node.stmt, Caller.node.leaf + 1))
  /\ UNCHANGED <<ast, temp_count_>>

(* Mutant: the operands change places. *)
OperandsSwapped(left, right) == <<right, left>>

Operands(left, right) == <<left, right>>

BinaryOp ==
  /\ Returning("BinaryOp", "right")
  /\ ReturnDefinition(Below(2), AppendVisitor(Caller, Top), LinkVisitor(Caller, Top),
       NewInstr("BinaryOp",
                OperatorPlace(ast[Caller.node.stmt].value.ops[Caller.node.leaf]),
                Operands(Caller.left, Top.result)))
  /\ UNCHANGED <<pc, ast>>

(* BuildGraph returns once, or the process dies.                           *)
Terminated == pc # "Building" /\ UNCHANGED vars

Next ==
  \/ VisitChild \/ AppendChild \/ FinishGraph
  \/ VisitReturn \/ VisitStoreLocal \/ StoreLocal \/ VisitField \/ VisitLeaf
  \/ VisitLeft \/ VisitRight \/ BinaryOp
  \/ Terminated

Spec == Init /\ [][Next]_vars
FairSpec == Spec /\ WF_vars(Next)
=============================================================================
