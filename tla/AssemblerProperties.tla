------------------------- MODULE AssemblerProperties -------------------------
(***************************************************************************)
(* What the Assembler must guarantee: code that a processor decodes as the *)
(* calls that were made, in a region that can be executed.                 *)
(***************************************************************************)
EXTENDS Processor

(* Every item is a byte or an integer the code writes as such, and Compile *)
(* is at one of its steps.                                                 *)
TypeOK ==
  /\ stage \in {"Emitting", "Mapped", "Writable", "Copied", "Overrun", "Crashed"}
  /\ Range(calls) \subseteq Calls
  /\ \A i \in DOMAIN buffer_ :
       /\ buffer_[i].size \in {1, 4, 8}
       /\ buffer_[i].size = 1 => buffer_[i].value \in 0 .. 255
  /\ Size(buffer_) <= Capacity
  /\ region.ptr \in {"none", "unset", "mapped"}
  /\ region.prot \subseteq {"r", "w", "x"}

(* A region that was mapped holds, once Compile has returned, what all the *)
(* calls before that Compile encode, in their order and nothing else, and  *)
(* can be executed, whichever mprotect failed and whatever is emitted      *)
(* after; Commit (asm.cc:21) against the errors it ignores.                *)
RegionHoldsCode ==
  stage \in {"Emitting", "Overrun"} /\ region.ptr = "mapped" =>
    /\ "x" \in region.prot
    /\ region.code = FlattenSeq([i \in 1 .. region.after |-> Encode(calls[i])])

Machine == INSTANCE AddMachine WITH
             trusted  <- \A i \in DOMAIN calls : Promised(calls[i]),
             regs     <- machine.regs,
             mem      <- machine.mem,
             returned <- machine.returned

(* The Assembler implements AddMachine: a processor that runs the code     *)
(* emitted so far leaves in registers and memory what the calls say, for   *)
(* every kind of operand; x64/asm.cc and the encodings of x64/asm.h.       *)
ImplementsAddMachine == Machine!Spec
=============================================================================
