------------------------------ MODULE Assembler ------------------------------
(***************************************************************************)
(* The x64 Assembler of Sources/x64/asm.h and asm.cc with its operands, the*)
(* AssemblerBuffer of Sources/asm.h and asm.cc it writes to, and Compile,  *)
(* which copies the code into a MemoryRegion (Sources/vmemory_osx.cc).     *)
(*                                                                         *)
(* The code is a sequence of items: a byte, or an integer of four or eight *)
(* bytes that is not taken apart.  A REX prefix is a set of its bits.      *)
(***************************************************************************)
EXTENDS AssemblerCalls

CONSTANTS
  Calls,      \* the calls that may be made
  Capacity,   \* kInitialBufferCapacity, in bytes
  MaxCalls    \* a bound for the model

ASSUME CallsAssumption == Calls \subseteq CallType /\ Capacity \in Nat

VARIABLES
  stage,    \* "Emitting", a step of Compile, or how the process ended
  calls,    \* the calls made so far (history)
  buffer_,  \* the code emitted so far
  region    \* the MemoryRegion of the last Compile, and (history) how many
            \* calls that Compile came after

vars == <<stage, calls, buffer_, region>>

Item(size, value) == [size |-> size, value |-> value]
Byte(value) == Item(1, value)

Weight == [B |-> 1, X |-> 2, R |-> 4, W |-> 8]

RexByte(rex) ==
  LET bit(b) == IF b \in rex THEN Weight[b] ELSE 0
  IN  Byte(64 + bit("B") + bit("X") + bit("R") + bit("W"))

Extended(bit, r) == IF r > 7 THEN {bit} ELSE {}

-----------------------------------------------------------------------------
(* Operands: REX bits and encoding *)

(* SetModRM leaves R12's bit to SetSIB when a SIB byte follows.            *)
SetModRM(mod, rm) ==
  [rex |-> IF rm = R12 /\ mod # 3 THEN {} ELSE Extended("B", rm),
   encoding |-> <<Byte(mod * 64 + (rm % 8))>>]

(* Mutant: the scale is not cut to a byte. *)
SetSIBWide(oper, scale, index, base) ==
  [rex |-> oper.rex \cup Extended("B", base) \cup Extended("X", index),
   encoding |-> Append(oper.encoding, Byte(scale * 64 + (index % 8) * 8 + (base % 8)))]

SetSIB(oper, scale, index, base) ==
  [rex |-> oper.rex \cup Extended("B", base) \cup Extended("X", index),
   encoding |-> Append(oper.encoding,
                       Byte((scale * 64 + (index % 8) * 8 + (base % 8)) % 256))]

SetDisp32(oper, disp) == [oper EXCEPT !.encoding = Append(@, Item(4, disp))]

(* A base of RSP or R12 needs a SIB byte without an index. *)
SetBase(mod, base) ==
  IF base % 8 = RSP THEN SetSIB(SetModRM(mod, base), 0, RSP, base) ELSE SetModRM(mod, base)

(* Mutant: RBP and R13 are bases like the others. *)
NoDisplacementIfZero(base, disp) == disp = 0

NoDisplacement(base, disp) == disp = 0 /\ base % 8 # RBP

(* The three constructors of Address, by which of its registers are given. *)
Address(a) ==
  CASE a.index = None ->
         IF NoDisplacement(a.base, a.disp) THEN SetBase(0, a.base)
         ELSE SetDisp32(SetBase(2, a.base), a.disp)
    [] a.base = None ->
         SetDisp32(SetSIB(SetModRM(0, RSP), a.scale, a.index, RBP), a.disp)
    [] OTHER ->
         IF NoDisplacement(a.base, a.disp)
         THEN SetSIB(SetModRM(0, RSP), a.scale, a.index, a.base)
         ELSE SetDisp32(SetSIB(SetModRM(2, RSP), a.scale, a.index, a.base), a.disp)

-----------------------------------------------------------------------------
(* Instructions *)

(* EmitOperandRex, the opcode and EmitOperand. *)
WithOperand(opcode, r, oper) ==
  <<RexByte({"W"} \cup Extended("R", r) \cup oper.rex), Byte(opcode),
    Byte(oper.encoding[1].value + (r % 8) * 8)>> \o Tail(oper.encoding)

MoveImmediate(dst, imm) ==
  <<RexByte({"W"} \cup Extended("B", dst)), Byte(184 + (dst % 8)), Item(8, imm)>>

AddRegister(dst, src) == WithOperand(3, dst, SetModRM(3, src))

AddMemory(dst, a) == WithOperand(3, dst, Address(a))

AddToMemory(a, src) == WithOperand(1, src, Address(a))

(* The overloads of addq, movq and ret. *)
Encode(c) ==
  CASE c.op = "addRR" -> AddRegister(c.reg, c.src)
    [] c.op = "addRI" -> MoveImmediate(TMP, c.imm) \o AddRegister(c.reg, TMP)
    [] c.op = "addRA" -> AddMemory(c.reg, c.address)
    [] c.op = "addAR" -> AddToMemory(c.address, c.reg)
    [] c.op = "addAI" -> MoveImmediate(TMP, c.imm) \o AddToMemory(c.address, TMP)
    [] c.op = "movRI" -> MoveImmediate(c.reg, c.imm)
    [] OTHER -> <<Byte(195)>>

Size(code) == FoldLeft(LAMBDA sum, item : sum + item.size, 0, code)

Init ==
  /\ stage = "Emitting"
  /\ calls = <<>>
  /\ buffer_ = <<>>
  /\ region = [ptr |-> "none", prot |-> {}, code |-> <<>>, after |-> 0]

(* Emit does not look at limit_: past the capacity it writes outside the   *)
(* buffer, and the model ends.                                             *)
Assemble(c) ==
  /\ stage = "Emitting"
  /\ Len(calls) < MaxCalls
  /\ IF Size(buffer_ \o Encode(c)) <= Capacity
     THEN /\ buffer_' = buffer_ \o Encode(c)
          /\ calls' = Append(calls, c)
          /\ UNCHANGED stage
     ELSE stage' = "Overrun" /\ UNCHANGED <<calls, buffer_>>
  /\ UNCHANGED region

-----------------------------------------------------------------------------
(* Compile *)

(* new MemoryRegion: mmap of nothing fails, and any other may.  Then ptr_  *)
(* and size_ are never set.                                                *)
MapRegion ==
  /\ stage = "Emitting"
  /\ \E mapped \in BOOLEAN :
       /\ mapped => buffer_ # <<>>
       /\ region' = [ptr |-> IF mapped THEN "mapped" ELSE "unset", prot |-> {}, code |-> <<>>,
                     after |-> Len(calls)]
  /\ stage' = "Mapped"
  /\ UNCHANGED <<calls, buffer_>>

(* Protect; Commit does not look at its result. *)
Protect(before, after, prot) ==
  /\ stage = before
  /\ stage' = after
  /\ region' = region \/ (region.ptr = "mapped" /\ region' = [region EXCEPT !.prot = prot])
  /\ UNCHANGED <<calls, buffer_>>

MakeWritable == Protect("Mapped", "Writable", {"r", "w", "x"})

(* Mutant: without the last item. *)
CopyButLast ==
  /\ stage = "Writable"
  /\ \/ /\ region.ptr = "mapped" /\ "w" \in region.prot
        /\ region' = [region EXCEPT !.code = Front(buffer_)]
        /\ stage' = "Copied"
     \/ /\ buffer_ # <<>> /\ ~(region.ptr = "mapped" /\ "w" \in region.prot)
        /\ stage' = "Crashed" /\ UNCHANGED region
     \/ /\ buffer_ = <<>>
        /\ stage' = "Copied" /\ UNCHANGED region
  /\ UNCHANGED <<calls, buffer_>>

(* CopyFrom: memcpy of some bytes to a region that is not writable, or to  *)
(* an address that was never set, ends the process (or its memory is not   *)
(* to be trusted any more).                                                *)
Copy ==
  /\ stage = "Writable"
  /\ \/ /\ region.ptr = "mapped" /\ "w" \in region.prot
        /\ region' = [region EXCEPT !.code = buffer_]
        /\ stage' = "Copied"
     \/ /\ buffer_ # <<>> /\ ~(region.ptr = "mapped" /\ "w" \in region.prot)
        /\ stage' = "Crashed" /\ UNCHANGED region
     \/ /\ buffer_ = <<>>
        /\ stage' = "Copied" /\ UNCHANGED region
  /\ UNCHANGED <<calls, buffer_>>

MakeExecutable == Protect("Copied", "Emitting", {"r", "x"})

Ended == stage \in {"Overrun", "Crashed"} /\ UNCHANGED vars

Next ==
  \/ \E c \in Calls : Assemble(c)
  \/ MapRegion \/ MakeWritable \/ Copy \/ MakeExecutable
  \/ Ended

Spec == Init /\ [][Next]_vars
=============================================================================
