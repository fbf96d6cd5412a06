----------------------------- MODULE AddMachine ------------------------------
(***************************************************************************)
(* What a user of the Assembler may rely on: running the code emitted so   *)
(* far does to registers and memory what the calls say, in order.  Adding  *)
(* an immediate may leave anything in TMP.  Nothing is promised after an   *)
(* address that x86-64 cannot encode, or an immediate that is added to     *)
(* something TMP is part of.                                               *)
(***************************************************************************)
EXTENDS AssemblerCalls

VARIABLES
  calls,      \* the calls so far
  trusted,    \* none of them was outside the promise
  regs, mem,  \* what running the code leaves
  returned    \* the code has returned

vars == <<calls, trusted, regs, mem, returned>>

(* An address as its constructor is told: None stands for no base or index. *)
EffectiveAddress(a) ==
  (IF a.base = None THEN 0 ELSE regs[a.base])
    + (IF a.index = None THEN 0 ELSE regs[a.index] * 2 ^ a.scale)
    + a.disp

Sets(r, v) == regs' = [regs EXCEPT ![r] = v] /\ UNCHANGED mem
Writes(a, v) == mem' = WriteMem(mem, EffectiveAddress(a), v)
Content(a) == ReadMem(mem, EffectiveAddress(a))

Does(c) ==
  CASE c.op = "addRR" -> Sets(c.reg, regs[c.reg] + regs[c.src])
    [] c.op = "addRA" -> Sets(c.reg, regs[c.reg] + Content(c.address))
    [] c.op = "addAR" -> /\ Writes(c.address, Content(c.address) + regs[c.reg])
                         /\ UNCHANGED regs
    [] c.op = "addRI" -> /\ regs'[c.reg] = regs[c.reg] + c.imm
                         /\ \A r \in Registers \ {TMP, c.reg} : regs'[r] = regs[r]
                         /\ UNCHANGED mem
    [] c.op = "addAI" -> /\ Writes(c.address, Content(c.address) + c.imm)
                         /\ \A r \in Registers \ {TMP} : regs'[r] = regs[r]
    [] c.op = "movRI" -> Sets(c.reg, c.imm)
    [] OTHER -> UNCHANGED <<regs, mem>>

Init ==
  /\ calls = <<>>
  /\ trusted = TRUE
  /\ regs = InitialRegs
  /\ mem = NoMem
  /\ returned = FALSE

Call(c) ==
  /\ calls' = Append(calls, c)
  /\ trusted' = (trusted /\ Promised(c))
  /\ trusted' =>
       /\ IF returned THEN UNCHANGED <<regs, mem>> ELSE Does(c)
       /\ returned' = (returned \/ c.op = "ret")

Next == calls' # <<>> /\ \E c \in {Last(calls')} : Call(c)

Spec == Init /\ [][Next]_vars
=============================================================================
