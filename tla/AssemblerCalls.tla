--------------------------- MODULE AssemblerCalls ----------------------------
(***************************************************************************)
(* The calls of the x64 Assembler (Sources/x64/asm.h:224-232): a call is a *)
(* record of its op and its arguments.  An address is what one of Address's*)
(* constructors is told, with None for a register it does not take.        *)
(***************************************************************************)
EXTENDS Integers, Sequences, SequencesExt

(* enum Register *)
Registers == 0 .. 15
RSP  == 4
RBP  == 5
TMP  == 11
R12  == 12
None == -1

(* An address has a base, an index or both; ScaleFactor is an exponent.    *)
AddressType ==
  { a \in [base : Registers \cup {None}, index : Registers \cup {None}, scale : Nat, disp : Int] :
      a.base # None \/ a.index # None }

(* The overloads of addq, movq and ret. *)
CallType ==
  [op : {"addRR"}, reg : Registers, src : Registers]
    \cup [op : {"addRI", "movRI"}, reg : Registers, imm : Int]
    \cup [op : {"addRA", "addAR"}, reg : Registers, address : AddressType]
    \cup [op : {"addAI"}, address : AddressType, imm : Int]
    \cup [op : {"ret"}]

(* What x86-64 can encode: every address but one with the index RSP, which *)
(* stands for no index, or a scale above eight.                            *)
Encodable(a) == a.index = None \/ (a.index # RSP /\ a.scale <= 3)

Uses(a, r) == r \in {a.base, a.index}

(* The calls that do what they say: the others have an address that cannot *)
(* be encoded, or add an immediate to something that TMP is part of.       *)
Promised(c) ==
  CASE c.op \in {"addRA", "addAR"} -> Encodable(c.address)
    [] c.op = "addAI" -> Encodable(c.address) /\ ~Uses(c.address, TMP)
    [] c.op = "addRI" -> c.reg # TMP
    [] OTHER -> TRUE

(* The state of a processor before any code has run: every register holds  *)
(* a value of its own, and so does every address of memory.                *)
InitialRegs == [r \in Registers |-> 100 * 2 ^ r]
Untouched(address) == 7 * address + 1
ReadMem(mem, address) == IF address \in DOMAIN mem THEN mem[address] ELSE Untouched(address)
WriteMem(mem, address, v) ==
  [x \in DOMAIN mem \cup {address} |-> IF x = address THEN v ELSE mem[x]]
NoMem == [x \in {} |-> 0]
=============================================================================
