---------------------------- MODULE MCAssembler ------------------------------
(***************************************************************************)
(* A small instance of the Assembler: registers of each kind that the      *)
(* encodings tell apart, addresses of each constructor, and room for two   *)
(* instructions with an address or one with an immediate as well.          *)
(***************************************************************************)
EXTENDS AssemblerProperties

RAX == 0
RCX == 1
R9  == 9
R13 == 13

At(base, index, scale, disp) == [base |-> base, index |-> index, scale |-> scale, disp |-> disp]

Bases   == { At(b, None, 0, d) : b \in {RAX, RSP, RBP, TMP, R12, R13}, d \in {0, 8} }
Scaled  == { At(None, i, s, 8) : i \in {RCX, RSP, R12}, s \in {1, 4} }
Sums    == { At(b, i, 2, d) : b \in {RAX, RBP, R12, R13}, i \in {RCX, RSP, R9}, d \in {0, 8} }

Addresses == Bases \cup Scaled \cup Sums
Operands  == {RAX, TMP}

SmallCalls ==
  [op : {"addRR"}, reg : {RAX, RSP, TMP}, src : {RCX, R12, TMP}]
    \cup [op : {"addRI", "movRI"}, reg : {RCX, R9, TMP}, imm : {5}]
    \cup [op : {"addRA", "addAR"}, reg : Operands, address : Addresses]
    \cup [op : {"addAI"}, address : Addresses, imm : {5}]
    \cup {[op |-> "ret"]}
=============================================================================
