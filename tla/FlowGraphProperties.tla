------------------------ MODULE FlowGraphProperties -------------------------
(***************************************************************************)
(* What FlowGraphBuilder must guarantee: its types, the discipline of the  *)
(* temporaries, the instruction list, and that running the list does what  *)
(* the source says.                                                        *)
(***************************************************************************)
EXTENDS FlowGraphBuilder

NodeType ==
  [kind : {"Sequence", "Return", "StoreLocal", "StoreField", "Literal", "LoadLocal",
           "LoadField", "BinaryOp"},
   stmt : Nat, leaf : Nat]

InstrRef == 0 .. Len(code)

FrameType ==
  [visitor : {"Effect", "Value"}, node : NodeType,
   stage : {"enter", "child", "value", "left", "right", "done"}, next : Nat \ {0},
   entry : InstrRef, exit : InstrRef, left : InstrRef, result : InstrRef]

Opcodes == {"TargetEntry", "Constant", "LoadLocal", "BinaryOp", "StoreLocal"}

(* Types of the builder's members, its visitors and its instructions:      *)
(* every pointer between instructions is null or leads to one that exists, *)
(* and a visitor that has an entry_ has an exit_ to link from, also while  *)
(* it waits for a visit (no AddReturnExit is ever reached).                *)
TypeOK ==
  /\ pc \in {"Building", "Done", "Crashed"}
  /\ ast \in Bodies
  /\ Len(frames) \in 1 .. StackLimit
  /\ \A k \in DOMAIN frames :
       frames[k] \in FrameType /\ (frames[k].entry = Nil <=> frames[k].exit = Nil)
  /\ \A i \in DOMAIN code :
       /\ code[i].op \in Opcodes
       /\ \A k \in DOMAIN code[i].inputs : code[i].inputs[k] \in InstrRef
       /\ {code[i].next, code[i].prev} \subseteq InstrRef
  /\ {temp_count_} \cup { code[i].temp : i \in DOMAIN code } \subseteq Int

-----------------------------------------------------------------------------
(* Which bodies the builder can translate. *)
LoadsField(body) ==
  \E i \in DOMAIN body : \E j \in DOMAIN body[i].value.leaves :
    body[i].value.leaves[j].on \notin {"Literal", "Local"}

Returns(body) == \E i \in DOMAIN body : body[i].dest.on = "Return"

(* The value that a frame keeps for a later instruction: a left operand    *)
(* that waits for its right one, or the result that is being returned.     *)
Held(k) == IF frames[k].stage = "right" THEN frames[k].left
           ELSE IF frames[k].stage = "done" THEN frames[k].result ELSE Nil

Holding == { k \in DOMAIN frames : Held(k) # Nil }

(* While no field is loaded, the values held by the active calls are, from *)
(* the outermost in, in the temporaries 0, 1, 2, ... and temp_count_ is    *)
(* their number: no value is overwritten while it is needed, and none is   *)
(* left over.  AllocTemp and DeallocTemps against the recursion of the     *)
(* visitors.                                                               *)
TempsMatchDepth ==
  ~LoadsField(ast) =>
    /\ temp_count_ = Cardinality(Holding)
    /\ \A k \in Holding : code[Held(k)].temp = Cardinality({ j \in Holding : j < k })

(* The list is doubly linked, and every instruction follows the one that   *)
(* was created before it or starts a fragment that a visitor still holds;  *)
(* none is lost when fragments are appended.  Instruction::Link through    *)
(* EffectVisitor::Append, Bind, Do and AppendFragment.                     *)
NoInstructionLost ==
  /\ \A i, j \in DOMAIN code : code[i].next = j <=> code[j].prev = i
  /\ \A i \in DOMAIN code \ {Normal} :
       \/ code[i].prev = i - 1
       \/ /\ code[i].prev = Nil
          /\ pc # "Done"
          /\ \E k \in DOMAIN frames : frames[k].entry = i

-----------------------------------------------------------------------------
(* Running the list.  A value is written in postfix order, as the sequence *)
(* of its leaves and operators.                                            *)

(* The instructions main prints: from `normal' along GetNext, and Nil      *)
(* after the last one.                                                     *)
Chain ==
  LET at[n \in 0 .. Len(code)] ==
        IF n = 0 THEN Normal ELSE IF at[n - 1] = Nil THEN Nil ELSE code[at[n - 1]].next
  IN  [n \in 1 .. Len(code) |-> at[n]]

(* The temporaries and the stores before the first instruction. *)
Blank == [temps |-> [t \in {} |-> <<>>], stores |-> <<>>]

Put(state, t, v) ==
  [temps |-> [u \in DOMAIN state.temps \cup {t} |-> IF u = t THEN v ELSE state.temps[u]],
   stores |-> state.stores]

(* The i-th of instrs, on the temporaries and the stores made so far.      *)
Execute(instrs, state, i) ==
  LET instr == instrs[i]
      input(k) == state.temps[instrs[instr.inputs[k]].temp]
  IN  IF i = Nil THEN state
      ELSE CASE instr.op \in {"Constant", "LoadLocal"} ->
                  Put(state, instr.temp, <<instr.at>>)
             [] instr.op = "BinaryOp" ->
                  Put(state, instr.temp, input(1) \o input(2) \o <<instr.at>>)
             [] OTHER ->
                  [temps |-> state.temps,
                   stores |-> Append(state.stores, [dest |-> instr.at, value |-> input(1)])]

(* The states between the instructions of a list. *)
Run(list) ==
  LET state[n \in 0 .. Len(list)] ==
        IF n = 0 THEN Blank ELSE Execute(code, state[n - 1], list[n])
  IN  state

StoresOf(list) == Run(list)[Len(list)].stores

(* What the source says: a right comb in postfix order, stored where the   *)
(* statement says.  Stores to fields are not translated.                   *)
SourceValue(expr) ==
  expr.leaves \o Reverse([k \in DOMAIN expr.ops |-> OperatorPlace(expr.ops[k])])

(* The stores of the first n statements. *)
StoresUpTo(body) ==
  LET stores[n \in 0 .. Len(body)] ==
        IF n = 0 THEN <<>>
        ELSE IF body[n].dest.on # "Local" THEN stores[n - 1]
        ELSE Append(stores[n - 1],
                    [dest |-> body[n].dest, value |-> SourceValue(body[n].value)])
  IN  stores

SourceStores(body) == StoresUpTo(body)[Len(body)]

(* When no field is loaded, executing the finished list through its        *)
(* temporaries stores into the same locals, in the same order, the values  *)
(* that the source computes.  BuildGraph and the visitors as a whole.      *)
GraphComputesSource ==
  pc = "Done" /\ ~LoadsField(ast) => StoresOf(Chain) = SourceStores(ast)

(* BuildGraph returns for every body without a return statement that the   *)
(* stack has room for, and never for one with a return statement.          *)
BuildEnds ==
  <>(pc = IF Returns(ast) THEN "Crashed" ELSE "Done")
=============================================================================
