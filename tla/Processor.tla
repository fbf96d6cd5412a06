------------------------------ MODULE Processor ------------------------------
(***************************************************************************)
(* A processor that runs the code of an Assembler as it is emitted: the    *)
(* reference for what the code means.  It decodes the instructions the     *)
(* Assembler emits by the x86-64 encoding rules.                           *)
(***************************************************************************)
EXTENDS Assembler

VARIABLE machine   \* the item that comes next, registers, memory, has the code returned

Flag(rex, bit) == (rex \div Weight[bit]) % 2

(* Past the code that was emitted there is nothing but zeros. *)
Value(code, i) == IF i \in DOMAIN code THEN code[i].value ELSE 0

(* Where a ModRM byte at i leads: a register, or an address of memory; and *)
(* the item after the operand.                                             *)
Decode(code, m, rex, i) ==
  LET mod == Value(code, i) \div 64
      rm  == Value(code, i) % 8
      sib == Value(code, i + 1)
      sibBase == sib % 8
      sibIndex == ((sib \div 8) % 8) + 8 * Flag(rex, "X")
      hasSib == rm = 4
      noBase == mod = 0 /\ (IF hasSib THEN sibBase ELSE rm) = 5
      hasDisp == mod = 2 \/ noBase
      dispAt == IF hasSib THEN i + 2 ELSE i + 1
      base == IF noBase THEN 0
              ELSE m.regs[(IF hasSib THEN sibBase ELSE rm) + 8 * Flag(rex, "B")]
      index == IF hasSib /\ sibIndex # 4 THEN m.regs[sibIndex] * 2 ^ (sib \div 64) ELSE 0
      disp == IF hasDisp THEN Value(code, dispAt) ELSE 0
  IN  IF mod = 3 THEN [isReg |-> TRUE, place |-> rm + 8 * Flag(rex, "B"), next |-> i + 1]
      ELSE [isReg |-> FALSE, place |-> base + index + disp,
            next |-> IF hasDisp THEN dispAt + 1 ELSE dispAt]

(* One instruction. *)
Execute(code, m) ==
  LET rex    == Value(code, m.at)
      opcode == Value(code, m.at + 1)
      oper   == Decode(code, m, rex, m.at + 2)
      reg    == ((Value(code, m.at + 2) \div 8) % 8) + 8 * Flag(rex, "R")
      inOper == IF oper.isReg THEN m.regs[oper.place] ELSE ReadMem(m.mem, oper.place)
      sum    == m.regs[reg] + inOper
  IN  CASE rex = 195 -> [m EXCEPT !.at = @ + 1, !.returned = TRUE]
        [] rex # 195 /\ opcode \in 184 .. 191 ->
             [m EXCEPT !.at = @ + 3,
                       !.regs[opcode - 184 + 8 * Flag(rex, "B")] = Value(code, m.at + 2)]
        [] rex # 195 /\ (opcode = 3 \/ (opcode = 1 /\ oper.isReg)) ->
             [m EXCEPT !.at = oper.next, !.regs[IF opcode = 3 THEN reg ELSE oper.place] = sum]
        [] OTHER ->
             [m EXCEPT !.at = oper.next, !.mem = WriteMem(@, oper.place, sum)]

(* The next instruction, if there is one.  A call emits two at most.       *)
Continue(code, m) == IF m.returned \/ m.at > Len(code) THEN m ELSE Execute(code, m)

RunInit ==
  /\ Init
  /\ machine = [at |-> 1, regs |-> InitialRegs, mem |-> NoMem, returned |-> FALSE]

RunNext ==
  /\ Next
  /\ machine' = Continue(buffer_', Continue(buffer_', machine))

RunSpec == RunInit /\ [][RunNext]_<<vars, machine>>
=============================================================================
