--------------------------- MODULE AssemblerProofs ----------------------------
(***************************************************************************)
(* Theorems about the Assembler, for every set of calls, every register,   *)
(* address and immediate, and every capacity of the buffer.                *)
(***************************************************************************)
EXTENDS AssemblerProperties, SequenceTheorems, NaturalsInduction, WellFoundedInduction, TLAPS

-----------------------------------------------------------------------------
(* Bytes: what a shift and a sum put into one is what a processor takes    *)
(* out of it.                                                              *)

LEMMA RexByteFields ==
  ASSUME NEW rex
  PROVE  /\ RexByte(rex).size = 1 /\ RexByte(rex).value \in 64 .. 79
         /\ Flag(RexByte(rex).value, "B") = IF "B" \in rex THEN 1 ELSE 0
         /\ Flag(RexByte(rex).value, "X") = IF "X" \in rex THEN 1 ELSE 0
         /\ Flag(RexByte(rex).value, "R") = IF "R" \in rex THEN 1 ELSE 0
<1>. DEFINE bit(b) == IF b \in rex THEN Weight[b] ELSE 0
            sum == 64 + bit("B") + bit("X") + bit("R") + bit("W")
<1>1. RexByte(rex) = [size |-> 1, value |-> sum]
  BY DEF RexByte, Byte, Item
<1>. QED
  BY <1>1 DEF Flag, Weight

LEMMA ModRMFields ==
  ASSUME NEW mod \in 0 .. 3, NEW rm \in 0 .. 7, NEW r \in Registers
  PROVE  /\ mod * 64 + rm + (r % 8) * 8 \in 0 .. 255
         /\ (mod * 64 + rm + (r % 8) * 8) \div 64 = mod
         /\ (mod * 64 + rm + (r % 8) * 8) % 8 = rm
         /\ ((mod * 64 + rm + (r % 8) * 8) \div 8) % 8 = r % 8
BY SMT DEF Registers

SIBByte(scale, index, base) == (scale * 64 + (index % 8) * 8 + (base % 8)) % 256

LEMMA SIBFields ==
  ASSUME NEW scale \in Nat, NEW index \in Registers, NEW base \in Registers
  PROVE  /\ SIBByte(scale, index, base) \in 0 .. 255
         /\ SIBByte(scale, index, base) \div 64 \in 0 .. 3
         /\ scale <= 3 => SIBByte(scale, index, base) \div 64 = scale
         /\ (SIBByte(scale, index, base) \div 8) % 8 = index % 8
         /\ SIBByte(scale, index, base) % 8 = base % 8
BY SMT DEF Registers, SIBByte

LEMMA RegisterParts ==
  ASSUME NEW r \in Registers
  PROVE  /\ r % 8 \in 0 .. 7
         /\ (r % 8) + 8 * (IF r > 7 THEN 1 ELSE 0) = r
         /\ 184 + (r % 8) \in 184 .. 191
         /\ (184 + (r % 8)) - 184 + 8 * (IF r > 7 THEN 1 ELSE 0) = r
BY SMT DEF Registers

-----------------------------------------------------------------------------
(* Operands *)

(* The shapes that the constructors of Address give an operand.  f says    *)
(* what stands where: the mod and rm fields of its first byte, the SIB byte*)
(* that follows when rm is RSP's, and whether there is a displacement.     *)
FormType == [mod : {0, 2}, rm : 0 .. 7, scale : Nat, index : Registers, base : Registers]

HasSIB(f)  == f.rm = RSP
NoBase(f)  == f.mod = 0 /\ (IF HasSIB(f) THEN f.base % 8 ELSE f.rm) = RBP
HasDisp(f) == f.mod = 2 \/ NoBase(f)

FormBytes(f, disp) ==
  IF HasSIB(f)
  THEN IF HasDisp(f)
       THEN <<Byte(f.mod * 64 + f.rm), Byte(SIBByte(f.scale, f.index, f.base)), Item(4, disp)>>
       ELSE <<Byte(f.mod * 64 + f.rm), Byte(SIBByte(f.scale, f.index, f.base))>>
  ELSE IF HasDisp(f) THEN <<Byte(f.mod * 64 + f.rm), Item(4, disp)>>
       ELSE <<Byte(f.mod * 64 + f.rm)>>

(* The form f encodes the address a, whose index may be one that stands    *)
(* for none.                                                               *)
IsFormOf(f, a) ==
  /\ Address(a).rex = Extended("B", f.base) \cup Extended("X", f.index)
  /\ Address(a).encoding = FormBytes(f, a.disp)
  /\ ~HasSIB(f) => f.rm = f.base % 8 /\ f.index = RSP
  /\ NoBase(f) <=> a.base = None
  /\ a.base # None => f.base = a.base
  /\ IF a.index = None THEN f.index = RSP
     ELSE HasSIB(f) /\ f.index = a.index /\ f.scale = a.scale
  /\ ~HasDisp(f) => a.disp = 0

LEMMA AppendTwo ==
  ASSUME NEW x, NEW y
  PROVE  Append(<<x>>, y) = <<x, y>>
<1>1. PICK s : s = Append(<<x>>, y)
  OBVIOUS
<1>2. PICK t : t = <<x, y>>
  OBVIOUS
<1>3. <<x>> \in Seq({x, y}) /\ t \in Seq({x, y}) /\ Len(t) = 2 /\ t[1] = x /\ t[2] = y
  BY <1>2
<1>4. s \in Seq({x, y}) /\ Len(s) = 2 /\ s[1] = x /\ s[2] = y
  BY <1>1
<1>5. \A i \in 1 .. Len(s) : s[i] = t[i]
  BY <1>3, <1>4
<1>6. s = t
  BY <1>3, <1>4, <1>5, SeqEqual
<1>. QED
  BY <1>1, <1>2, <1>6

LEMMA AppendThree ==
  ASSUME NEW x, NEW y, NEW z
  PROVE  Append(<<x, y>>, z) = <<x, y, z>>
<1>1. PICK s : s = Append(<<x, y>>, z)
  OBVIOUS
<1>2. PICK t : t = <<x, y, z>>
  OBVIOUS
<1>3. t \in Seq({x, y, z}) /\ Len(t) = 3 /\ t[1] = x /\ t[2] = y /\ t[3] = z
  BY <1>2
<1>4. s \in Seq({x, y, z}) /\ Len(s) = 3 /\ s[1] = x /\ s[2] = y /\ s[3] = z
  BY <1>1
<1>5. \A i \in 1 .. Len(s) : s[i] = t[i]
  BY <1>3, <1>4
<1>6. s = t
  BY <1>3, <1>4, <1>5, SeqEqual
<1>. QED
  BY <1>1, <1>2, <1>6

LEMMA SIBAppended ==
  ASSUME NEW rex, NEW first, NEW scale, NEW index, NEW base
  PROVE  SetSIB([rex |-> rex, encoding |-> <<first>>], scale, index, base) =
           [rex |-> rex \cup Extended("B", base) \cup Extended("X", index),
            encoding |-> <<first, Byte(SIBByte(scale, index, base))>>]
<1>1. PICK sib : sib = Byte(SIBByte(scale, index, base))
  OBVIOUS
<1>2. Append(<<first>>, sib) = <<first, sib>>
  BY AppendTwo
<1>. QED
  BY <1>1, <1>2 DEF SetSIB, SIBByte

LEMMA DispAppended ==
  ASSUME NEW rex, NEW encoding, NEW disp
  PROVE  SetDisp32([rex |-> rex, encoding |-> encoding], disp) =
           [rex |-> rex, encoding |-> Append(encoding, Item(4, disp))]
BY DEF SetDisp32

LEMMA BaseForm ==
  ASSUME NEW a \in AddressType, a.index = None, NEW mod \in {0, 2},
         mod = (IF NoDisplacement(a.base, a.disp) THEN 0 ELSE 2)
  PROVE  IsFormOf([mod |-> mod, rm |-> a.base % 8, scale |-> 0, index |-> RSP, base |-> a.base], a)
<1>. DEFINE f == [mod |-> mod, rm |-> a.base % 8, scale |-> 0, index |-> RSP, base |-> a.base]
<1>1. a.base \in Registers /\ a.base # None /\ a.disp \in Int
  BY DEF AddressType, None, Registers
<1>2. a.base % 8 \in 0 .. 7
  BY <1>1, RegisterParts
<1>3. Address(a) = IF mod = 0 THEN SetBase(0, a.base) ELSE SetDisp32(SetBase(2, a.base), a.disp)
  <2>1. CASE NoDisplacement(a.base, a.disp)
    BY <1>1, <2>1, Zenon DEF Address
  <2>2. CASE ~NoDisplacement(a.base, a.disp)
    <3>1. mod = 2 /\ 2 # 0
      BY <2>2
    <3>. QED
      BY <1>1, <2>2, <3>1, Zenon DEF Address
  <2>. QED
    BY <2>1, <2>2
<1>4. Extended("X", RSP) = {}
  BY DEF Extended, RSP
<1>5. mod # 3 /\ RSP % 8 = 4
  BY DEF RSP
<1>6. SetBase(mod, a.base) =
        IF a.base % 8 = RSP
        THEN [rex |-> Extended("B", a.base),
              encoding |-> <<Byte(mod * 64 + (a.base % 8)), Byte(SIBByte(0, RSP, a.base))>>]
        ELSE [rex |-> Extended("B", a.base), encoding |-> <<Byte(mod * 64 + (a.base % 8))>>]
  <2>1. CASE a.base % 8 = RSP
    <3>1. a.base = RSP \/ a.base = R12
      BY <1>1, <2>1 DEF Registers, RSP, R12
    <3>2. SetModRM(mod, a.base) = [rex |-> {}, encoding |-> <<Byte(mod * 64 + (a.base % 8))>>]
      <4>1. a.base = RSP => Extended("B", a.base) = {}
        BY DEF Extended, RSP
      <4>. QED
        BY <1>5, <3>1, <4>1, Zenon DEF SetModRM
    <3>3. SetSIB(SetModRM(mod, a.base), 0, RSP, a.base) =
            [rex |-> Extended("B", a.base),
             encoding |-> <<Byte(mod * 64 + (a.base % 8)), Byte(SIBByte(0, RSP, a.base))>>]
      <4>1. PICK first : first = Byte(mod * 64 + (a.base % 8))
        OBVIOUS
      <4>2. SetSIB([rex |-> {}, encoding |-> <<first>>], 0, RSP, a.base) =
              [rex |-> {} \cup Extended("B", a.base) \cup Extended("X", RSP),
               encoding |-> <<first, Byte(SIBByte(0, RSP, a.base))>>]
        BY SIBAppended
      <4>3. {} \cup Extended("B", a.base) \cup Extended("X", RSP) = Extended("B", a.base)
        BY <1>4
      <4>. QED
        BY <3>2, <4>1, <4>2, <4>3, Zenon
    <3>. QED
      BY <2>1, <3>3 DEF SetBase
  <2>2. CASE a.base % 8 # RSP
    <3>1. a.base # R12
      BY <2>2 DEF R12, RSP
    <3>. QED
      BY <1>5, <2>2, <3>1 DEF SetBase, SetModRM
  <2>. QED
    BY <2>1, <2>2
<1>7. NoBase(f) <=> mod = 0 /\ a.base % 8 = RBP
  BY DEF NoBase, HasSIB
<1>8. mod = 0 => a.disp = 0 /\ a.base % 8 # RBP
  BY DEF NoDisplacement
<1>9. ~NoBase(f) /\ (HasDisp(f) <=> mod = 2)
  BY <1>7, <1>8 DEF HasDisp
<1>10. HasSIB(f) <=> a.base % 8 = RSP
  BY DEF HasSIB
<1>11. Address(a).rex = Extended("B", a.base) /\ Address(a).encoding = FormBytes(f, a.disp)
  <2>1. CASE mod = 0
    <3>1. Address(a) = SetBase(0, a.base)
      BY <1>3, <2>1
    <3>. QED
      BY <1>6, <1>9, <1>10, <2>1, <3>1 DEF FormBytes
  <2>2. CASE mod = 2
    <3>1. Address(a) = SetDisp32(SetBase(2, a.base), a.disp)
      BY <1>3, <2>2
    <3>2. PICK first : first = Byte(2 * 64 + (a.base % 8))
      OBVIOUS
    <3>3. PICK item : item = Item(4, a.disp)
      OBVIOUS
    <3>4. CASE a.base % 8 = RSP
      <4>1. PICK sib : sib = Byte(SIBByte(0, RSP, a.base))
        OBVIOUS
      <4>2. SetBase(2, a.base) = [rex |-> Extended("B", a.base), encoding |-> <<first, sib>>]
        BY <1>6, <2>2, <3>2, <3>4, <4>1, Zenon
      <4>3. Append(<<first, sib>>, item) = <<first, sib, item>>
        BY AppendThree
      <4>4. Address(a) = [rex |-> Extended("B", a.base), encoding |-> <<first, sib, item>>]
        <5>1. SetDisp32([rex |-> Extended("B", a.base), encoding |-> <<first, sib>>], a.disp) =
                [rex |-> Extended("B", a.base), encoding |-> Append(<<first, sib>>, Item(4, a.disp))]
          BY DispAppended
        <5>. QED
          BY <3>1, <3>3, <4>2, <4>3, <5>1, Zenon
      <4>5. FormBytes(f, a.disp) = <<first, sib, item>>
        BY <1>9, <1>10, <2>2, <3>2, <3>3, <3>4, <4>1, Zenon DEF FormBytes
      <4>. QED
        BY <4>4, <4>5
    <3>5. CASE a.base % 8 # RSP
      <4>1. SetBase(2, a.base) = [rex |-> Extended("B", a.base), encoding |-> <<first>>]
        BY <1>6, <2>2, <3>2, <3>5, Zenon
      <4>2. Append(<<first>>, item) = <<first, item>>
        BY AppendTwo
      <4>3. Address(a) = [rex |-> Extended("B", a.base), encoding |-> <<first, item>>]
        <5>1. SetDisp32([rex |-> Extended("B", a.base), encoding |-> <<first>>], a.disp) =
                [rex |-> Extended("B", a.base), encoding |-> Append(<<first>>, Item(4, a.disp))]
          BY DispAppended
        <5>. QED
          BY <3>1, <3>3, <4>1, <4>2, <5>1, Zenon
      <4>4. FormBytes(f, a.disp) = <<first, item>>
        BY <1>9, <1>10, <2>2, <3>2, <3>3, <3>5, Zenon DEF FormBytes
      <4>. QED
        BY <4>3, <4>4
    <3>. QED
      BY <3>4, <3>5
  <2>. QED
    BY <2>1, <2>2
<1>12. Extended("B", f.base) \cup Extended("X", f.index) = Extended("B", a.base)
  BY <1>4
<1>13. ~HasDisp(f) => a.disp = 0
  BY <1>8, <1>9
<1>. QED
  BY <1>1, <1>9, <1>10, <1>11, <1>12, <1>13 DEF IsFormOf

(* The operand of a SIB byte: rm is RSP's, and rex comes from the SIB only. *)
LEMMA SIBOperand ==
  ASSUME NEW mod \in {0, 2}, NEW scale, NEW index, NEW base
  PROVE  SetSIB(SetModRM(mod, RSP), scale, index, base) =
           [rex |-> Extended("B", base) \cup Extended("X", index),
            encoding |-> <<Byte(mod * 64 + RSP), Byte(SIBByte(scale, index, base))>>]
<1>1. RSP # R12 /\ RSP % 8 = RSP /\ Extended("B", RSP) = {}
  BY DEF RSP, R12, Extended
<1>2. SetModRM(mod, RSP) = [rex |-> {}, encoding |-> <<Byte(mod * 64 + RSP)>>]
  BY <1>1, Zenon DEF SetModRM
<1>3. PICK first : first = Byte(mod * 64 + RSP)
  OBVIOUS
<1>4. SetSIB([rex |-> {}, encoding |-> <<first>>], scale, index, base) =
        [rex |-> {} \cup Extended("B", base) \cup Extended("X", index),
         encoding |-> <<first, Byte(SIBByte(scale, index, base))>>]
  BY SIBAppended
<1>5. {} \cup Extended("B", base) \cup Extended("X", index)
        = Extended("B", base) \cup Extended("X", index)
  OBVIOUS
<1>. QED
  BY <1>2, <1>3, <1>4, <1>5, Zenon

LEMMA SIBOperandPlain ==
  ASSUME NEW scale, NEW index, NEW base
  PROVE  SetSIB(SetModRM(0, RSP), scale, index, base) =
           [rex |-> Extended("B", base) \cup Extended("X", index),
            encoding |-> <<Byte(0 * 64 + RSP), Byte(SIBByte(scale, index, base))>>]
<1>1. \A mod \in {0, 2} :
        SetSIB(SetModRM(mod, RSP), scale, index, base) =
          [rex |-> Extended("B", base) \cup Extended("X", index),
           encoding |-> <<Byte(mod * 64 + RSP), Byte(SIBByte(scale, index, base))>>]
  BY SIBOperand
<1>2. 0 \in {0, 2}
  OBVIOUS
<1>. QED
  BY <1>1, <1>2, Zenon

LEMMA SIBOperandDisp ==
  ASSUME NEW mod \in {0, 2}, NEW scale, NEW index, NEW base, NEW disp
  PROVE  SetDisp32(SetSIB(SetModRM(mod, RSP), scale, index, base), disp) =
           [rex |-> Extended("B", base) \cup Extended("X", index),
            encoding |-> <<Byte(mod * 64 + RSP), Byte(SIBByte(scale, index, base)), Item(4, disp)>>]
<1>1. PICK first : first = Byte(mod * 64 + RSP)
  OBVIOUS
<1>2. PICK sib : sib = Byte(SIBByte(scale, index, base))
  OBVIOUS
<1>3. PICK rex : rex = Extended("B", base) \cup Extended("X", index)
  OBVIOUS
<1>4. SetSIB(SetModRM(mod, RSP), scale, index, base) = [rex |-> rex, encoding |-> <<first, sib>>]
  BY <1>1, <1>2, <1>3, SIBOperand
<1>5. SetDisp32([rex |-> rex, encoding |-> <<first, sib>>], disp) =
        [rex |-> rex, encoding |-> Append(<<first, sib>>, Item(4, disp))]
  BY DispAppended
<1>6. Append(<<first, sib>>, Item(4, disp)) = <<first, sib, Item(4, disp)>>
  BY AppendThree
<1>. QED
  BY <1>1, <1>2, <1>3, <1>4, <1>5, <1>6, Zenon

LEMMA IndexForm ==
  ASSUME NEW a \in AddressType, a.base = None
  PROVE  IsFormOf([mod |-> 0, rm |-> RSP, scale |-> a.scale, index |-> a.index, base |-> RBP], a)
<1>. DEFINE f == [mod |-> 0, rm |-> RSP, scale |-> a.scale, index |-> a.index, base |-> RBP]
<1>1. a.index # None
  BY DEF AddressType
<1>2. Address(a) = SetDisp32(SetSIB(SetModRM(0, RSP), a.scale, a.index, RBP), a.disp)
  BY <1>1, Zenon DEF Address
<1>3. HasSIB(f) /\ NoBase(f) /\ HasDisp(f)
  BY DEF HasSIB, NoBase, HasDisp, RBP
<1>4. Address(a) = [rex |-> Extended("B", RBP) \cup Extended("X", a.index),
                    encoding |-> <<Byte(0 * 64 + RSP), Byte(SIBByte(a.scale, a.index, RBP)),
                                   Item(4, a.disp)>>]
  BY <1>2, SIBOperandDisp
<1>5. FormBytes(f, a.disp) = <<Byte(0 * 64 + RSP), Byte(SIBByte(a.scale, a.index, RBP)),
                               Item(4, a.disp)>>
  BY <1>3, Zenon DEF FormBytes
<1>. QED
  BY <1>1, <1>3, <1>4, <1>5 DEF IsFormOf

LEMMA SumForm ==
  ASSUME NEW a \in AddressType, a.base # None, a.index # None, NEW mod \in {0, 2},
         mod = (IF NoDisplacement(a.base, a.disp) THEN 0 ELSE 2)
  PROVE  IsFormOf([mod |-> mod, rm |-> RSP, scale |-> a.scale, index |-> a.index,
                   base |-> a.base], a)
<1>. DEFINE f == [mod |-> mod, rm |-> RSP, scale |-> a.scale, index |-> a.index, base |-> a.base]
<1>1. Address(a) = IF mod = 0 THEN SetSIB(SetModRM(0, RSP), a.scale, a.index, a.base)
                   ELSE SetDisp32(SetSIB(SetModRM(2, RSP), a.scale, a.index, a.base), a.disp)
  <2>1. CASE NoDisplacement(a.base, a.disp)
    BY <2>1, Zenon DEF Address
  <2>2. CASE ~NoDisplacement(a.base, a.disp)
    <3>1. mod = 2 /\ 2 # 0
      BY <2>2
    <3>. QED
      BY <2>2, <3>1, Zenon DEF Address
  <2>. QED
    BY <2>1, <2>2
<1>2. mod = 0 => a.disp = 0 /\ a.base % 8 # RBP
  BY DEF NoDisplacement
<1>3. HasSIB(f) /\ ~NoBase(f) /\ (HasDisp(f) <=> mod = 2)
  BY <1>2 DEF HasSIB, NoBase, HasDisp
<1>4. /\ Address(a).rex = Extended("B", a.base) \cup Extended("X", a.index)
      /\ Address(a).encoding = FormBytes(f, a.disp)
  <2>1. CASE mod = 0
    <3>1. Address(a) = [rex |-> Extended("B", a.base) \cup Extended("X", a.index),
                        encoding |-> <<Byte(mod * 64 + RSP),
                                       Byte(SIBByte(a.scale, a.index, a.base))>>]
      <4>1. SetSIB(SetModRM(0, RSP), a.scale, a.index, a.base) =
              [rex |-> Extended("B", a.base) \cup Extended("X", a.index),
               encoding |-> <<Byte(0 * 64 + RSP), Byte(SIBByte(a.scale, a.index, a.base))>>]
        BY SIBOperandPlain, Zenon
      <4>. QED
        BY <1>1, <2>1, <4>1, Zenon
    <3>2. FormBytes(f, a.disp) = <<Byte(mod * 64 + RSP), Byte(SIBByte(a.scale, a.index, a.base))>>
      BY <1>3, <2>1 DEF FormBytes
    <3>. QED
      BY <3>1, <3>2
  <2>2. CASE mod = 2
    <3>1. Address(a) = [rex |-> Extended("B", a.base) \cup Extended("X", a.index),
                        encoding |-> <<Byte(mod * 64 + RSP),
                                       Byte(SIBByte(a.scale, a.index, a.base)), Item(4, a.disp)>>]
      <4>1. SetDisp32(SetSIB(SetModRM(2, RSP), a.scale, a.index, a.base), a.disp) =
              [rex |-> Extended("B", a.base) \cup Extended("X", a.index),
               encoding |-> <<Byte(2 * 64 + RSP), Byte(SIBByte(a.scale, a.index, a.base)),
                              Item(4, a.disp)>>]
        <5>1. \A sc, x, b, d :
                SetDisp32(SetSIB(SetModRM(2, RSP), sc, x, b), d) =
                  [rex |-> Extended("B", b) \cup Extended("X", x),
                   encoding |-> <<Byte(2 * 64 + RSP), Byte(SIBByte(sc, x, b)), Item(4, d)>>]
          BY SIBOperandDisp
        <5>. QED
          BY <5>1
      <4>2. 2 # 0
        OBVIOUS
      <4>. QED
        BY <1>1, <2>2, <4>1, <4>2, Zenon
    <3>2. FormBytes(f, a.disp) = <<Byte(mod * 64 + RSP), Byte(SIBByte(a.scale, a.index, a.base)),
                                   Item(4, a.disp)>>
      BY <1>3, <2>2 DEF FormBytes
    <3>. QED
      BY <3>1, <3>2
  <2>. QED
    BY <2>1, <2>2
<1>. QED
  BY <1>2, <1>3, <1>4 DEF IsFormOf

(* Every address that a constructor takes has a form. *)
LEMMA AddressHasForm ==
  ASSUME NEW a \in AddressType
  PROVE  \E f \in FormType : IsFormOf(f, a)
<1>1. /\ a.base \in Registers \cup {None} /\ a.index \in Registers \cup {None}
      /\ a.scale \in Nat /\ a.disp \in Int /\ (a.base # None \/ a.index # None)
  BY DEF AddressType
<1>2. RSP \in Registers /\ RBP \in Registers /\ RSP \in 0 .. 7
  BY DEF RSP, RBP, Registers
<1>3. PICK mod \in {0, 2} : mod = IF NoDisplacement(a.base, a.disp) THEN 0 ELSE 2
  OBVIOUS
<1>4. CASE a.index = None
  <2>1. a.base \in Registers /\ a.base % 8 \in 0 .. 7
    BY <1>1, <1>4, RegisterParts
  <2>2. [mod |-> mod, rm |-> a.base % 8, scale |-> 0, index |-> RSP, base |-> a.base] \in FormType
    BY <1>2, <2>1 DEF FormType
  <2>. QED
    BY <1>3, <1>4, <2>2, BaseForm
<1>5. CASE a.base = None
  <2>1. [mod |-> 0, rm |-> RSP, scale |-> a.scale, index |-> a.index, base |-> RBP] \in FormType
    BY <1>1, <1>2, <1>5 DEF FormType
  <2>. QED
    BY <1>5, <2>1, IndexForm
<1>6. CASE a.base # None /\ a.index # None
  <2>1. [mod |-> mod, rm |-> RSP, scale |-> a.scale, index |-> a.index, base |-> a.base] \in FormType
    BY <1>1, <1>2, <1>6 DEF FormType
  <2>. QED
    BY <1>3, <1>6, <2>1, SumForm
<1>. QED
  BY <1>4, <1>5, <1>6

-----------------------------------------------------------------------------
(* Instructions *)

(* What the code consists of: bytes, and integers of four or eight bytes.  *)
ItemType == [size : {1}, value : 0 .. 255] \cup [size : {4, 8}, value : Int]

LEMMA ByteTyped ==
  ASSUME NEW x \in 0 .. 255
  PROVE  Byte(x) \in ItemType /\ Byte(x).value = x
BY DEF Byte, Item, ItemType

LEMMA IntegerTyped ==
  ASSUME NEW x \in Int, NEW size \in {4, 8}
  PROVE  Item(size, x) \in ItemType /\ Item(size, x).value = x
BY DEF Item, ItemType

LEMMA RexTyped ==
  ASSUME NEW rex
  PROVE  RexByte(rex) \in ItemType
<1>1. DOMAIN RexByte(rex) = {"size", "value"} /\ RexByte(rex) = [size |-> 1, value |-> RexByte(rex).value]
  BY DEF RexByte, Byte, Item
<1>2. RexByte(rex).value \in 0 .. 255
  BY RexByteFields
<1>. QED
  BY <1>1, <1>2 DEF ItemType

(* The code of an instruction with a memory operand of form f. *)
FormCode(code, f, opcode, r, disp) ==
  /\ code \in Seq(ItemType)
  /\ Len(code) = 3 + (IF HasSIB(f) THEN 1 ELSE 0) + (IF HasDisp(f) THEN 1 ELSE 0)
  /\ code[1] = RexByte({"W"} \cup Extended("R", r)
                         \cup (Extended("B", f.base) \cup Extended("X", f.index)))
  /\ code[2] = Byte(opcode)
  /\ code[3] = Byte(f.mod * 64 + f.rm + (r % 8) * 8)
  /\ HasSIB(f) => code[4] = Byte(SIBByte(f.scale, f.index, f.base))
  /\ HasDisp(f) => code[IF HasSIB(f) THEN 5 ELSE 4] = Item(4, disp)

LEMMA ConcatThree ==
  ASSUME NEW S, NEW x \in S, NEW y \in S, NEW z \in S, NEW rest \in Seq(S)
  PROVE  /\ <<x, y, z>> \o rest \in Seq(S)
         /\ Len(<<x, y, z>> \o rest) = 3 + Len(rest)
         /\ (<<x, y, z>> \o rest)[1] = x
         /\ (<<x, y, z>> \o rest)[2] = y
         /\ (<<x, y, z>> \o rest)[3] = z
         /\ \A i \in 1 .. Len(rest) : (<<x, y, z>> \o rest)[3 + i] = rest[i]
<1>1. PICK s : s = <<x, y, z>>
  OBVIOUS
<1>2. s \in Seq(S) /\ Len(s) = 3 /\ s[1] = x /\ s[2] = y /\ s[3] = z
  BY <1>1
<1>3. Len(rest) \in Nat
  OBVIOUS
<1>4. /\ s \o rest \in Seq(S) /\ Len(s \o rest) = 3 + Len(rest)
      /\ \A i \in 1 .. 3 + Len(rest) : (s \o rest)[i] = IF i <= 3 THEN s[i] ELSE rest[i - 3]
  <2>1. /\ s \o rest \in Seq(S) /\ Len(s \o rest) = Len(s) + Len(rest)
        /\ \A i \in 1 .. Len(s) + Len(rest) :
             (s \o rest)[i] = IF i <= Len(s) THEN s[i] ELSE rest[i - Len(s)]
    BY <1>2, ConcatProperties
  <2>. QED
    BY <1>2, <2>1
<1>5. ASSUME NEW i \in 1 .. Len(rest)
      PROVE  (s \o rest)[3 + i] = rest[i]
  <2>1. 3 + i \in 1 .. 3 + Len(rest) /\ ~(3 + i <= 3) /\ (3 + i) - 3 = i
    BY <1>3
  <2>. QED
    BY <1>4, <2>1
<1>. QED
  BY <1>1, <1>2, <1>3, <1>4, <1>5

LEMMA TailOne ==
  ASSUME NEW x
  PROVE  Tail(<<x>>) = <<>>
<1>1. PICK s : s = <<x>>
  OBVIOUS
<1>2. s \in Seq({x}) /\ s # <<>> /\ Len(s) = 1
  BY <1>1
<1>3. Tail(s) \in Seq({x}) /\ Len(Tail(s)) = 0
  BY <1>2, HeadTailProperties
<1>. QED
  BY <1>1, <1>3, EmptySeq

LEMMA TailTwo ==
  ASSUME NEW x, NEW y
  PROVE  Tail(<<x, y>>) = <<y>>
<1>1. PICK s : s = <<x, y>>
  OBVIOUS
<1>2. PICK t : t = <<y>>
  OBVIOUS
<1>3. /\ s \in Seq({x, y}) /\ s # <<>> /\ Len(s) = 2 /\ s[2] = y
      /\ t \in Seq({x, y}) /\ Len(t) = 1 /\ t[1] = y
  BY <1>1, <1>2
<1>4. /\ Tail(s) \in Seq({x, y}) /\ Len(Tail(s)) = 1
      /\ \A i \in 1 .. Len(Tail(s)) : Tail(s)[i] = s[i + 1]
  BY <1>3, HeadTailProperties
<1>5. ASSUME NEW i \in 1 .. Len(Tail(s)) PROVE Tail(s)[i] = t[i]
  <2>1. Tail(s)[i] = s[i + 1]
    BY <1>4
  <2>2. CASE i = 1
    BY <1>3, <2>1, <2>2
  <2>3. CASE i # 1
    BY <1>3, <1>4, <2>1, <2>3
  <2>. QED
    BY <2>2, <2>3
<1>6. Tail(s) = t
  BY <1>3, <1>4, <1>5, SeqEqual
<1>. QED
  BY <1>1, <1>2, <1>6

LEMMA TailThree ==
  ASSUME NEW x, NEW y, NEW z
  PROVE  Tail(<<x, y, z>>) = <<y, z>>
<1>1. PICK s : s = <<x, y, z>>
  OBVIOUS
<1>2. PICK t : t = <<y, z>>
  OBVIOUS
<1>3. /\ s \in Seq({x, y, z}) /\ s # <<>> /\ Len(s) = 3 /\ s[2] = y /\ s[3] = z
      /\ t \in Seq({x, y, z}) /\ Len(t) = 2 /\ t[1] = y /\ t[2] = z
  BY <1>1, <1>2
<1>4. /\ Tail(s) \in Seq({x, y, z}) /\ Len(Tail(s)) = 2
      /\ \A i \in 1 .. Len(Tail(s)) : Tail(s)[i] = s[i + 1]
  BY <1>3, HeadTailProperties
<1>5. ASSUME NEW i \in 1 .. Len(Tail(s)) PROVE Tail(s)[i] = t[i]
  <2>1. Tail(s)[i] = s[i + 1]
    BY <1>4
  <2>2. CASE i = 1
    BY <1>3, <2>1, <2>2
  <2>3. CASE i # 1
    <3>1. i = 2
      <4>1. i \in 1 .. 2
        BY <1>4, Zenon
      <4>. QED
        BY <2>3, <4>1
    <3>. QED
      BY <1>3, <2>1, <3>1
  <2>. QED
    BY <2>2, <2>3
<1>6. Tail(s) = t
  BY <1>3, <1>4, <1>5, SeqEqual
<1>. QED
  BY <1>1, <1>2, <1>6

LEMMA FormBytesParts ==
  ASSUME NEW f \in FormType, NEW disp \in Int
  PROVE  /\ FormBytes(f, disp)[1] = Byte(f.mod * 64 + f.rm)
         /\ Tail(FormBytes(f, disp)) =
              IF HasSIB(f)
              THEN IF HasDisp(f)
                   THEN <<Byte(SIBByte(f.scale, f.index, f.base)), Item(4, disp)>>
                   ELSE <<Byte(SIBByte(f.scale, f.index, f.base))>>
              ELSE IF HasDisp(f) THEN <<Item(4, disp)>> ELSE <<>>
<1>1. PICK first : first = Byte(f.mod * 64 + f.rm)
  OBVIOUS
<1>2. PICK sib : sib = Byte(SIBByte(f.scale, f.index, f.base))
  OBVIOUS
<1>3. PICK item : item = Item(4, disp)
  OBVIOUS
<1>4. /\ Tail(<<first, sib, item>>) = <<sib, item>> /\ Tail(<<first, sib>>) = <<sib>>
      /\ Tail(<<first, item>>) = <<item>> /\ Tail(<<first>>) = <<>>
  BY TailOne, TailTwo, TailThree
<1>5. CASE HasSIB(f) /\ HasDisp(f)
  BY <1>1, <1>2, <1>3, <1>4, <1>5 DEF FormBytes
<1>6. CASE HasSIB(f) /\ ~HasDisp(f)
  BY <1>1, <1>2, <1>3, <1>4, <1>6 DEF FormBytes
<1>7. CASE ~HasSIB(f) /\ HasDisp(f)
  BY <1>1, <1>2, <1>3, <1>4, <1>7 DEF FormBytes
<1>8. CASE ~HasSIB(f) /\ ~HasDisp(f)
  BY <1>1, <1>2, <1>3, <1>4, <1>8 DEF FormBytes
<1>. QED
  BY <1>5, <1>6, <1>7, <1>8

LEMMA WithAddress ==
  ASSUME NEW a \in AddressType, NEW f \in FormType, IsFormOf(f, a),
         NEW r \in Registers, NEW opcode \in 0 .. 255
  PROVE  FormCode(WithOperand(opcode, r, Address(a)), f, opcode, r, a.disp)
<1>. DEFINE rex == {"W"} \cup Extended("R", r)
                     \cup (Extended("B", f.base) \cup Extended("X", f.index))
            sum == f.mod * 64 + f.rm + (r % 8) * 8
            sib == Byte(SIBByte(f.scale, f.index, f.base))
            item == Item(4, a.disp)
            rest == Tail(Address(a).encoding)
            code == WithOperand(opcode, r, Address(a))
<1>1. a.disp \in Int /\ f.mod \in 0 .. 3 /\ f.rm \in 0 .. 7 /\ f.scale \in Nat
      /\ f.index \in Registers /\ f.base \in Registers
  BY DEF AddressType, FormType
<1>2. f.mod * 64 + f.rm \in 0 .. 255 /\ sum \in 0 .. 255
  <2>1. PICK mod \in 0 .. 3 : mod = f.mod
    BY <1>1
  <2>2. PICK rm \in 0 .. 7 : rm = f.rm
    BY <1>1
  <2>3. mod * 64 + rm \in 0 .. 255
    OBVIOUS
  <2>. QED
    BY <2>1, <2>2, <2>3, ModRMFields
<1>3. Address(a).encoding[1].value + (r % 8) * 8 = sum
  <2>1. Address(a).encoding[1] = Byte(f.mod * 64 + f.rm)
    BY <1>1, FormBytesParts DEF IsFormOf
  <2>. QED
    BY <1>2, <2>1, ByteTyped
<1>4. rest = IF HasSIB(f) THEN IF HasDisp(f) THEN <<sib, item>> ELSE <<sib>>
             ELSE IF HasDisp(f) THEN <<item>> ELSE <<>>
  BY <1>1, FormBytesParts DEF IsFormOf
<1>5. sib \in ItemType /\ item \in ItemType
  BY <1>1, SIBFields, ByteTyped, IntegerTyped
<1>6. RexByte(rex) \in ItemType /\ Byte(opcode) \in ItemType /\ Byte(sum) \in ItemType
  BY <1>2, RexTyped, ByteTyped
<1>7. code = <<RexByte(rex), Byte(opcode), Byte(sum)>> \o rest
  BY <1>3 DEF WithOperand, IsFormOf
<1>. HIDE DEF rex, sum, sib, item, rest, code
<1>8. /\ rest \in Seq(ItemType)
      /\ Len(rest) = (IF HasSIB(f) THEN 1 ELSE 0) + (IF HasDisp(f) THEN 1 ELSE 0)
      /\ HasSIB(f) => rest[1] = sib
      /\ HasDisp(f) => rest[IF HasSIB(f) THEN 2 ELSE 1] = item
  <2>1. CASE HasSIB(f) /\ HasDisp(f)
    BY <1>4, <1>5, <2>1
  <2>2. CASE HasSIB(f) /\ ~HasDisp(f)
    BY <1>4, <1>5, <2>2
  <2>3. CASE ~HasSIB(f) /\ HasDisp(f)
    BY <1>4, <1>5, <2>3
  <2>4. CASE ~HasSIB(f) /\ ~HasDisp(f)
    BY <1>4, <1>5, <2>4
  <2>. QED
    BY <2>1, <2>2, <2>3, <2>4
<1>9. /\ code \in Seq(ItemType) /\ Len(code) = 3 + Len(rest)
      /\ code[1] = RexByte(rex) /\ code[2] = Byte(opcode) /\ code[3] = Byte(sum)
      /\ \A i \in 1 .. Len(rest) : code[3 + i] = rest[i]
  BY <1>6, <1>7, <1>8, ConcatThree
<1>10. HasSIB(f) => code[4] = sib
  BY <1>8, <1>9
<1>11. HasDisp(f) => code[IF HasSIB(f) THEN 5 ELSE 4] = item
  <2>1. CASE HasSIB(f) /\ HasDisp(f)
    BY <1>8, <1>9, <2>1
  <2>2. CASE ~HasSIB(f) /\ HasDisp(f)
    BY <1>8, <1>9, <2>2
  <2>. QED
    BY <2>1, <2>2
<1>12. Len(code) = 3 + (IF HasSIB(f) THEN 1 ELSE 0) + (IF HasDisp(f) THEN 1 ELSE 0)
  BY <1>8, <1>9
<1>. QED
  BY <1>9, <1>10, <1>11, <1>12 DEF FormCode, rex, sum, sib, item, code

LEMMA RegisterCode ==
  ASSUME NEW dst \in Registers, NEW src \in Registers
  PROVE  /\ AddRegister(dst, src) \in Seq(ItemType)
         /\ AddRegister(dst, src) =
              <<RexByte({"W"} \cup Extended("R", dst) \cup Extended("B", src)), Byte(3),
                Byte(3 * 64 + (src % 8) + (dst % 8) * 8)>>
<1>. DEFINE oper == SetModRM(3, src)
            sum == 3 * 64 + (src % 8) + (dst % 8) * 8
<1>1. oper = [rex |-> Extended("B", src), encoding |-> <<Byte(3 * 64 + (src % 8))>>]
  <2>1. ~(src = R12 /\ 3 # 3)
    OBVIOUS
  <2>. QED
    BY <2>1, Zenon DEF SetModRM
<1>2. src % 8 \in 0 .. 7 /\ 3 * 64 + (src % 8) \in 0 .. 255
  BY RegisterParts
<1>3. sum \in 0 .. 255
  BY <1>2, ModRMFields, SMTT(30)
<1>. HIDE DEF sum, oper
<1>4. PICK first : first = Byte(3 * 64 + (src % 8))
  OBVIOUS
<1>5. oper.encoding[1].value + (dst % 8) * 8 = sum
  <2>1. oper.encoding[1] = Byte(3 * 64 + (src % 8))
    BY <1>1
  <2>2. Byte(3 * 64 + (src % 8)).value = 3 * 64 + (src % 8)
    BY <1>2, ByteTyped
  <2>. QED
    BY <2>1, <2>2 DEF sum
<1>6. Tail(oper.encoding) = <<>>
  <2>1. Tail(<<first>>) = <<>>
    BY TailOne
  <2>2. oper.encoding = <<first>>
    BY <1>1, <1>4
  <2>. QED
    BY <2>1, <2>2, Zenon
<1>7. AddRegister(dst, src) =
        <<RexByte({"W"} \cup Extended("R", dst) \cup Extended("B", src)), Byte(3), Byte(sum)>> \o <<>>
  <2>1. oper.rex = Extended("B", src)
    BY <1>1
  <2>. QED
    BY <1>5, <1>6, <2>1, Zenon DEF AddRegister, WithOperand, oper
<1>8. RexByte({"W"} \cup Extended("R", dst) \cup Extended("B", src)) \in ItemType
      /\ Byte(3) \in ItemType /\ Byte(sum) \in ItemType
  <2>1. 3 \in 0 .. 255
    OBVIOUS
  <2>. QED
    BY <1>3, <2>1, RexTyped, ByteTyped
<1>9. PICK s : s = <<RexByte({"W"} \cup Extended("R", dst) \cup Extended("B", src)), Byte(3),
                     Byte(sum)>>
  OBVIOUS
<1>10. s \in Seq(ItemType) /\ s \o <<>> = s
  <2>1. s \in Seq(ItemType)
    BY <1>8, <1>9
  <2>. QED
    BY <2>1, ConcatEmptySeq
<1>. QED
  BY <1>7, <1>9, <1>10, Zenon DEF sum

LEMMA MoveCode ==
  ASSUME NEW dst \in Registers, NEW imm \in Int
  PROVE  /\ MoveImmediate(dst, imm) \in Seq(ItemType)
         /\ MoveImmediate(dst, imm) =
              <<RexByte({"W"} \cup Extended("B", dst)), Byte(184 + (dst % 8)), Item(8, imm)>>
<1>1. 184 + (dst % 8) \in 0 .. 255
  BY RegisterParts
<1>2. /\ RexByte({"W"} \cup Extended("B", dst)) \in ItemType
      /\ Byte(184 + (dst % 8)) \in ItemType /\ Item(8, imm) \in ItemType
  BY <1>1, RexTyped, ByteTyped, IntegerTyped
<1>3. PICK s : s = <<RexByte({"W"} \cup Extended("B", dst)), Byte(184 + (dst % 8)), Item(8, imm)>>
  OBVIOUS
<1>4. s \in Seq(ItemType)
  BY <1>2, <1>3
<1>. QED
  BY <1>3, <1>4, Zenon DEF MoveImmediate

LEMMA CallParts ==
  ASSUME NEW c \in CallType
  PROVE  /\ c.op \in {"addRR", "addRI", "addRA", "addAR", "addAI", "movRI", "ret"}
         /\ c.op = "addRR" => c.reg \in Registers /\ c.src \in Registers
         /\ c.op \in {"addRI", "movRI"} => c.reg \in Registers /\ c.imm \in Int
         /\ c.op \in {"addRA", "addAR"} => c.reg \in Registers /\ c.address \in AddressType
         /\ c.op = "addAI" => c.address \in AddressType /\ c.imm \in Int
BY DEF CallType

(* What Encode emits for each call. *)
LEMMA EncodeCases ==
  ASSUME NEW c \in CallType
  PROVE  /\ c.op = "addRR" => Encode(c) = AddRegister(c.reg, c.src)
         /\ c.op = "addRI" => Encode(c) = MoveImmediate(TMP, c.imm) \o AddRegister(c.reg, TMP)
         /\ c.op = "addRA" => Encode(c) = WithOperand(3, c.reg, Address(c.address))
         /\ c.op = "addAR" => Encode(c) = WithOperand(1, c.reg, Address(c.address))
         /\ c.op = "addAI" => Encode(c) = MoveImmediate(TMP, c.imm)
                                            \o WithOperand(1, TMP, Address(c.address))
         /\ c.op = "movRI" => Encode(c) = MoveImmediate(c.reg, c.imm)
         /\ c.op = "ret" => Encode(c) = <<Byte(195)>>
BY DEF Encode, AddMemory, AddToMemory

LEMMA EncodeTyped ==
  ASSUME NEW c \in CallType
  PROVE  Encode(c) \in Seq(ItemType)
<1>1. TMP \in Registers /\ 3 \in 0 .. 255 /\ 1 \in 0 .. 255 /\ 195 \in 0 .. 255
  BY DEF TMP, Registers
<1>2. ASSUME NEW a \in AddressType, NEW r \in Registers, NEW opcode \in 0 .. 255
      PROVE  WithOperand(opcode, r, Address(a)) \in Seq(ItemType)
  <2>1. PICK f \in FormType : IsFormOf(f, a)
    BY AddressHasForm
  <2>. QED
    BY <2>1, WithAddress DEF FormCode
<1>3. CASE c.op = "addRR"
  BY <1>3, CallParts, EncodeCases, RegisterCode
<1>4. CASE c.op = "addRI"
  <2>1. AddRegister(c.reg, TMP) \in Seq(ItemType) /\ MoveImmediate(TMP, c.imm) \in Seq(ItemType)
    BY <1>1, <1>4, CallParts, RegisterCode, MoveCode
  <2>2. MoveImmediate(TMP, c.imm) \o AddRegister(c.reg, TMP) \in Seq(ItemType)
    BY <2>1, ConcatProperties
  <2>. QED
    BY <1>4, <2>2, EncodeCases
<1>5. CASE c.op = "addRA"
  <2>1. c.reg \in Registers /\ c.address \in AddressType
    BY <1>5, CallParts
  <2>2. WithOperand(3, c.reg, Address(c.address)) \in Seq(ItemType)
    BY <1>1, <1>2, <2>1
  <2>. QED
    BY <1>5, <2>2, EncodeCases
<1>6. CASE c.op = "addAR"
  <2>1. c.reg \in Registers /\ c.address \in AddressType
    BY <1>6, CallParts
  <2>2. WithOperand(1, c.reg, Address(c.address)) \in Seq(ItemType)
    BY <1>1, <1>2, <2>1
  <2>. QED
    BY <1>6, <2>2, EncodeCases
<1>7. CASE c.op = "addAI"
  <2>1. c.address \in AddressType /\ c.imm \in Int
    BY <1>7, CallParts
  <2>2. /\ MoveImmediate(TMP, c.imm) \in Seq(ItemType)
        /\ WithOperand(1, TMP, Address(c.address)) \in Seq(ItemType)
    BY <1>1, <1>2, <2>1, MoveCode
  <2>3. MoveImmediate(TMP, c.imm) \o WithOperand(1, TMP, Address(c.address)) \in Seq(ItemType)
    BY <2>2, ConcatProperties
  <2>. QED
    BY <1>7, <2>3, EncodeCases
<1>8. CASE c.op = "movRI"
  BY <1>8, CallParts, EncodeCases, MoveCode
<1>9. CASE c.op = "ret"
  <2>1. Byte(195) \in ItemType
    BY <1>1, ByteTyped
  <2>2. <<Byte(195)>> \in Seq(ItemType)
    BY <2>1
  <2>. QED
    BY <1>9, <2>2, EncodeCases
<1>. QED
  BY <1>3, <1>4, <1>5, <1>6, <1>7, <1>8, <1>9, CallParts

-----------------------------------------------------------------------------
(* The types of the state *)

LEMMA NothingHasNoSize == Size(<<>>) = 0
<1>. DEFINE rec(iter) == [s \in SUBSET (DOMAIN <<>>) |->
                            IF s = {} THEN 0
                            ELSE iter[s \ {Max(s)}] + <<>>[Max(s)].size]
            found == CHOOSE iter : iter = rec(iter)
<1>1. DOMAIN <<>> = {} /\ SUBSET {} = {{}}
  OBVIOUS
<1>2. PICK none : none = [s \in SUBSET (DOMAIN <<>>) |-> 0]
  OBVIOUS
<1>3. none = rec(none)
  BY <1>1, <1>2
<1>4. found = rec(found)
  BY <1>3
<1>5. found[{}] = 0
  BY <1>1, <1>4
<1>6. Size(<<>>) = found[{}]
  BY <1>1 DEF Size, FoldLeft, MapThenFoldSet
<1>. QED
  BY <1>5, <1>6

Stages == {"Emitting", "Mapped", "Writable", "Copied", "Overrun", "Crashed"}

RegionType == [ptr : {"none", "unset", "mapped"}, prot : SUBSET {"r", "w", "x"},
               code : Seq(ItemType), after : Nat]

(* The inductive invariant of the Assembler's own state. *)
Typed ==
  /\ stage \in Stages
  /\ calls \in Seq(Calls)
  /\ buffer_ \in Seq(ItemType)
  /\ Size(buffer_) <= Capacity
  /\ region \in RegionType

LEMMA InitTyped == Init => Typed
<1>. SUFFICES ASSUME Init PROVE Typed
  OBVIOUS
<1>1. calls \in Seq(Calls) /\ buffer_ \in Seq(ItemType)
  BY DEF Init
<1>2. Size(buffer_) <= Capacity
  BY NothingHasNoSize, CallsAssumption DEF Init
<1>3. region \in RegionType
  BY DEF Init, RegionType
<1>. QED
  BY <1>1, <1>2, <1>3 DEF Init, Typed, Stages

LEMMA AssembleTyped ==
  ASSUME Typed, NEW c \in Calls, Assemble(c)
  PROVE  Typed'
<1>1. CASE Size(buffer_ \o Encode(c)) <= Capacity
  <2>1. Encode(c) \in Seq(ItemType)
    BY CallsAssumption, EncodeTyped
  <2>2. buffer_' = buffer_ \o Encode(c) /\ calls' = Append(calls, c) /\ UNCHANGED <<stage, region>>
    BY <1>1 DEF Assemble
  <2>3. buffer_' \in Seq(ItemType)
    BY <2>1, <2>2, ConcatProperties DEF Typed
  <2>4. calls' \in Seq(Calls)
    BY <2>2 DEF Typed
  <2>. QED
    BY <1>1, <2>2, <2>3, <2>4 DEF Typed
<1>2. CASE ~(Size(buffer_ \o Encode(c)) <= Capacity)
  BY <1>2 DEF Assemble, Typed, Stages
<1>. QED
  BY <1>1, <1>2

LEMMA ProtectTyped ==
  ASSUME Typed, NEW before, NEW after \in Stages, NEW prot \in SUBSET {"r", "w", "x"},
         Protect(before, after, prot)
  PROVE  Typed'
<1>1. region' \in RegionType
  BY DEF Protect, Typed, RegionType
<1>. QED
  BY <1>1 DEF Protect, Typed

LEMMA NextTyped == Typed /\ [Next]_vars => Typed'
<1>. SUFFICES ASSUME Typed, [Next]_vars PROVE Typed'
  OBVIOUS
<1>1. ASSUME NEW c \in Calls, Assemble(c) PROVE Typed'
  BY <1>1, AssembleTyped
<1>2. CASE MapRegion
  <2>1. region' \in RegionType
    BY <1>2 DEF MapRegion, RegionType
  <2>. QED
    BY <1>2, <2>1 DEF MapRegion, Typed, Stages
<1>3. CASE MakeWritable
  BY <1>3, ProtectTyped DEF MakeWritable, Stages
<1>4. CASE Copy
  <2>1. region' \in RegionType
    BY <1>4 DEF Copy, Typed, RegionType
  <2>. QED
    BY <1>4, <2>1 DEF Copy, Typed, Stages
<1>5. CASE MakeExecutable
  BY <1>5, ProtectTyped DEF MakeExecutable, Stages
<1>6. CASE UNCHANGED vars
  BY <1>6 DEF vars, Typed
<1>. QED
  BY <1>1, <1>2, <1>3, <1>4, <1>5, <1>6 DEF Next, Ended

LEMMA TypedHolds == RunSpec => []Typed
<1>1. RunInit => Typed
  BY InitTyped DEF RunInit
<1>2. Typed /\ [RunNext]_<<vars, machine>> => Typed'
  BY NextTyped DEF RunNext, vars
<1>. QED
  BY <1>1, <1>2, PTL DEF RunSpec

(* The Assembler's state is well typed: every item of its buffer is a byte *)
(* or an integer that EmitUint8, EmitInt32 or EmitInt64 writes, whatever   *)
(* the registers and the address, and Emit stays within the capacity until *)
(* the process has run over it.                                            *)
THEOREM TypesHold == RunSpec => []TypeOK
<1>1. Typed => TypeOK
  <2>. SUFFICES ASSUME Typed PROVE TypeOK
    OBVIOUS
  <2>1. Range(calls) \subseteq Calls
    BY DEF Typed, Range
  <2>2. ASSUME NEW i \in DOMAIN buffer_
        PROVE  /\ buffer_[i].size \in {1, 4, 8}
               /\ buffer_[i].size = 1 => buffer_[i].value \in 0 .. 255
    <3>1. buffer_[i] \in ItemType
      BY DEF Typed
    <3>. QED
      BY <3>1 DEF ItemType
  <2>. QED
    BY <2>1, <2>2 DEF Typed, TypeOK, Stages, RegionType
<1>. QED
  BY <1>1, TypedHolds, PTL

-----------------------------------------------------------------------------
(* Induction over a set of numbers *)

(* A set of numbers that has members has a least one. *)
LEMMA LeastMember ==
  ASSUME NEW I \in SUBSET Nat, I # {}
  PROVE  \E m \in I : \A n \in I : m <= n
<1>. DEFINE less == { ss \in Nat \X Nat : ss[1] < ss[2] }
<1>1. IsWellFoundedOn(less, Nat)
  BY NatLessThanWellFounded DEF OpToRel
<1>. HIDE DEF less
<1>2. PICK m \in I : \A n \in I : <<n, m>> \notin less
  BY <1>1, WFMin
<1>3. ASSUME NEW n \in I PROVE m <= n
  <2>1. <<n, m>> \in Nat \X Nat
    BY <1>2
  <2>2. <<n, m>>[1] = n /\ <<n, m>>[2] = m
    OBVIOUS
  <2>3. ~(n < m)
    BY <1>2, <2>1, <2>2 DEF less
  <2>. QED
    BY <2>1, <2>3
<1>. QED
  BY <1>2, <1>3

(* A set that has 0 and, with a number, the next one has every number. *)
LEMMA Induction ==
  ASSUME NEW S, 0 \in S, \A n \in Nat : n \in S => n + 1 \in S
  PROVE  \A n \in Nat : n \in S
<1>. DEFINE out == { n \in Nat : n \notin S }
<1>1. CASE out = {}
  BY <1>1
<1>2. CASE out # {}
  <2>1. PICK m \in out : \A n \in out : m <= n
    BY <1>2, LeastMember
  <2>2. m \in Nat /\ m \notin S /\ m # 0
    OBVIOUS
  <2>3. m - 1 \in Nat /\ ~(m <= m - 1)
    BY <2>2
  <2>4. m - 1 \in S
    BY <2>1, <2>3
  <2>5. (m - 1) + 1 \in S
    BY <2>3, <2>4
  <2>. QED
    BY <2>2, <2>5
<1>. QED
  BY <1>1, <1>2

-----------------------------------------------------------------------------
(* Flattening, one sequence after the other *)

(* f[i] is what the first i sequences of seqs make, one after the other.   *)
Flattens(seqs, f, n) ==
  /\ f = [i \in 1 .. n |-> f[i]]
  /\ \A i \in 1 .. n : f[i] = IF i = 1 THEN seqs[i] ELSE f[i - 1] \o seqs[i]

LEMMA FlattensExtends ==
  ASSUME NEW seqs, NEW f, NEW n \in Nat, Flattens(seqs, f, n)
  PROVE  \E g : Flattens(seqs, g, n + 1)
<1>. DEFINE g == [i \in 1 .. n + 1 |->
                    IF i <= n THEN f[i]
                    ELSE IF i = 1 THEN seqs[i] ELSE f[i - 1] \o seqs[i]]
<1>1. g = [i \in 1 .. n + 1 |-> g[i]]
  OBVIOUS
<1>2. \A i \in 1 .. n : g[i] = f[i]
  OBVIOUS
<1>3. g[n + 1] = IF n + 1 = 1 THEN seqs[n + 1] ELSE f[n] \o seqs[n + 1]
  OBVIOUS
<1>. HIDE DEF g
<1>4. ASSUME NEW i \in 1 .. n + 1
      PROVE  g[i] = IF i = 1 THEN seqs[i] ELSE g[i - 1] \o seqs[i]
  <2>1. CASE i = n + 1
    <3>1. CASE n = 0
      BY <1>3, <2>1, <3>1
    <3>2. CASE n # 0
      <4>1. i # 1 /\ i - 1 = n /\ n \in 1 .. n
        BY <2>1, <3>2
      <4>2. g[n] = f[n]
        BY <1>2, <4>1
      <4>. QED
        BY <1>3, <2>1, <4>1, <4>2
    <3>. QED
      BY <3>1, <3>2
  <2>2. CASE i \in 1 .. n
    <3>1. f[i] = IF i = 1 THEN seqs[i] ELSE f[i - 1] \o seqs[i]
      BY <2>2 DEF Flattens
    <3>2. i # 1 => g[i - 1] = f[i - 1]
      BY <1>2, <2>2
    <3>. QED
      BY <1>2, <2>2, <3>1, <3>2
  <2>. QED
    BY <2>1, <2>2
<1>. QED
  BY <1>1, <1>4 DEF Flattens

LEMMA FlattensExists ==
  ASSUME NEW seqs
  PROVE  \A n \in Nat : \E f : Flattens(seqs, f, n)
<1>. DEFINE S == { n \in Nat : \E f : Flattens(seqs, f, n) }
<1>1. 0 \in S
  <2>1. PICK f : f = [i \in 1 .. 0 |-> <<>>]
    OBVIOUS
  <2>2. Flattens(seqs, f, 0)
    BY <2>1 DEF Flattens
  <2>. QED
    BY <2>2
<1>2. ASSUME NEW n \in Nat, n \in S PROVE n + 1 \in S
  BY <1>2, FlattensExtends
<1>. HIDE DEF S
<1>3. \A n \in Nat : n \in S
  BY <1>1, <1>2, Induction
<1>. QED
  BY <1>3 DEF S

(* The first sequences decide what they make. *)
LEMMA FlattensUnique ==
  ASSUME NEW s, NEW t, NEW f, NEW g, NEW m \in Nat, NEW n \in Nat,
         Flattens(s, f, m), Flattens(t, g, n),
         NEW k \in Nat, k >= 1, k <= m, k <= n, \A i \in 1 .. k : s[i] = t[i]
  PROVE  f[k] = g[k]
<1>. DEFINE S == { i \in Nat : i \in 1 .. k => f[i] = g[i] }
<1>1. 0 \in S
  OBVIOUS
<1>2. ASSUME NEW i \in Nat, i \in S PROVE i + 1 \in S
  <2>1. SUFFICES ASSUME i + 1 \in 1 .. k PROVE f[i + 1] = g[i + 1]
    OBVIOUS
  <2>2. /\ f[i + 1] = IF i + 1 = 1 THEN s[i + 1] ELSE f[(i + 1) - 1] \o s[i + 1]
        /\ g[i + 1] = IF i + 1 = 1 THEN t[i + 1] ELSE g[(i + 1) - 1] \o t[i + 1]
    <3>1. i + 1 \in 1 .. m /\ i + 1 \in 1 .. n
      BY <2>1
    <3>. QED
      BY <3>1 DEF Flattens
  <2>3. s[i + 1] = t[i + 1] /\ (i + 1) - 1 = i
    BY <2>1
  <2>4. CASE i = 0
    BY <2>2, <2>3, <2>4
  <2>5. CASE i # 0
    <3>1. i \in 1 .. k /\ i + 1 # 1
      BY <2>1, <2>5
    <3>2. f[i] = g[i]
      BY <1>2, <3>1
    <3>. QED
      BY <2>2, <2>3, <3>1, <3>2
  <2>. QED
    BY <2>4, <2>5
<1>. HIDE DEF S
<1>3. k \in S
  BY <1>1, <1>2, Induction
<1>. QED
  BY <1>3 DEF S

LEMMA FlattenSeqFlattens ==
  ASSUME NEW S, NEW seqs \in Seq(S), Len(seqs) > 0
  PROVE  \E f : Flattens(seqs, f, Len(seqs)) /\ FlattenSeq(seqs) = f[Len(seqs)]
<1>. DEFINE rec(f) == [i \in 1 .. Len(seqs) |->
                         IF i = 1 THEN seqs[i] ELSE f[i - 1] \o seqs[i]]
            found == CHOOSE f : f = rec(f)
<1>1. Len(seqs) \in Nat
  OBVIOUS
<1>2. PICK f : Flattens(seqs, f, Len(seqs))
  BY <1>1, FlattensExists
<1>3. f = rec(f)
  <2>1. \A i \in 1 .. Len(seqs) : f[i] = IF i = 1 THEN seqs[i] ELSE f[i - 1] \o seqs[i]
    BY <1>2 DEF Flattens
  <2>2. f = [i \in 1 .. Len(seqs) |-> f[i]]
    BY <1>2 DEF Flattens
  <2>. QED
    BY <2>1, <2>2
<1>4. found = rec(found)
  BY <1>3
<1>5. FlattenSeq(seqs) = found[Len(seqs)]
  BY <1>1 DEF FlattenSeq
<1>6. Flattens(seqs, found, Len(seqs))
  <2>. HIDE DEF found
  <2>. QED
    BY <1>4 DEF Flattens
<1>. QED
  BY <1>5, <1>6

LEMMA FlattenOne ==
  ASSUME NEW S, NEW seqs \in Seq(S), Len(seqs) = 1
  PROVE  FlattenSeq(seqs) = seqs[1]
<1>1. PICK f : Flattens(seqs, f, 1) /\ FlattenSeq(seqs) = f[1]
  <2>1. Len(seqs) > 0
    OBVIOUS
  <2>2. \E f : Flattens(seqs, f, Len(seqs)) /\ FlattenSeq(seqs) = f[Len(seqs)]
    BY <2>1, FlattenSeqFlattens
  <2>. QED
    BY <2>2
<1>. QED
  BY <1>1 DEF Flattens

(* One more sequence goes after all the others. *)
LEMMA FlattenNext ==
  ASSUME NEW S, NEW s \in Seq(S), NEW t \in Seq(S), Len(s) > 0, Len(t) = Len(s) + 1,
         \A i \in 1 .. Len(s) : s[i] = t[i]
  PROVE  FlattenSeq(t) = FlattenSeq(s) \o t[Len(t)]
<1>1. PICK n \in Nat : n = Len(s) /\ n > 0 /\ Len(t) = n + 1
  OBVIOUS
<1>2. PICK f : Flattens(s, f, n) /\ FlattenSeq(s) = f[n]
  BY <1>1, FlattenSeqFlattens
<1>3. PICK g : Flattens(t, g, n + 1) /\ FlattenSeq(t) = g[n + 1]
  BY <1>1, FlattenSeqFlattens
<1>4. n >= 1 /\ n <= n /\ n <= n + 1 /\ n + 1 \in Nat /\ \A i \in 1 .. n : s[i] = t[i]
  BY <1>1
<1>5. f[n] = g[n]
  BY <1>2, <1>3, <1>4, FlattensUnique
<1>6. g[n + 1] = g[n] \o t[n + 1]
  <2>1. n + 1 \in 1 .. n + 1 /\ n + 1 # 1 /\ (n + 1) - 1 = n
    BY <1>1
  <2>. QED
    BY <1>3, <2>1 DEF Flattens
<1>. QED
  BY <1>1, <1>2, <1>3, <1>5, <1>6

-----------------------------------------------------------------------------
(* The region holds the code *)

(* What the first n calls encode, call by call. *)
Codes(n) == [i \in 1 .. n |-> Encode(calls[i])]

(* The buffer holds what the calls encode, all of it and nothing else. *)
Emitted ==
  IF calls = <<>> THEN buffer_ = <<>> ELSE buffer_ = FlattenSeq(Codes(Len(calls)))

(* Whatever mprotect refuses, a region that can be written can be executed *)
(* too, and it has been written once Compile is past its copy.             *)
RegionReady ==
  region.ptr = "mapped" =>
    /\ "w" \in region.prot => "x" \in region.prot
    /\ stage \in {"Mapped", "Writable"} => buffer_ # <<>> /\ region.after = Len(calls)
    /\ stage \in {"Copied", "Emitting", "Overrun"} =>
         /\ "x" \in region.prot
         /\ region.after \in DOMAIN calls /\ region.code = FlattenSeq(Codes(region.after))

LEMMA CodesTyped ==
  ASSUME NEW s \in Seq(Calls), NEW n \in 1 .. Len(s)
  PROVE  /\ [i \in 1 .. n |-> Encode(s[i])] \in Seq(Seq(ItemType))
         /\ Len([i \in 1 .. n |-> Encode(s[i])]) = n
<1>1. Len(s) \in Nat /\ n \in Nat
  OBVIOUS
<1>2. ASSUME NEW i \in 1 .. n PROVE Encode(s[i]) \in Seq(ItemType)
  <2>1. s[i] \in CallType
    BY <1>1, CallsAssumption
  <2>. QED
    BY <2>1, EncodeTyped
<1>. QED
  BY <1>1, <1>2

LEMMA AssembleEmitted ==
  ASSUME Typed, Emitted, NEW c \in Calls,
         buffer_' = buffer_ \o Encode(c), calls' = Append(calls, c)
  PROVE  Emitted'
<1>1. PICK n \in Nat : n = Len(calls)
  BY DEF Typed
<1>2. calls \in Seq(Calls) /\ calls' \in Seq(Calls) /\ Len(calls') = n + 1
      /\ calls'[n + 1] = c /\ \A i \in 1 .. n : calls'[i] = calls[i]
  BY <1>1 DEF Typed
<1>3. calls' # <<>>
  BY <1>2
<1>. DEFINE s == [i \in 1 .. n |-> Encode(calls[i])]
            t == [i \in 1 .. n + 1 |-> Encode(calls'[i])]
<1>4. t \in Seq(Seq(ItemType)) /\ Len(t) = n + 1 /\ t[n + 1] = Encode(c)
  <2>1. n + 1 \in 1 .. Len(calls')
    BY <1>2
  <2>. QED
    BY <1>2, <2>1, CodesTyped
<1>5. Codes(Len(calls))' = t
  BY <1>2 DEF Codes
<1>6. CASE calls = <<>>
  <2>1. n = 0 /\ buffer_ = <<>>
    BY <1>1, <1>6 DEF Emitted
  <2>2. FlattenSeq(t) = Encode(c)
    <3>. HIDE DEF t
    <3>1. Len(t) = 1 /\ t[1] = Encode(c)
      BY <1>4, <2>1
    <3>. QED
      BY <1>4, <3>1, FlattenOne
  <2>3. buffer_' = Encode(c)
    <3>1. Encode(c) \in Seq(ItemType)
      BY CallsAssumption, EncodeTyped
    <3>. QED
      BY <2>1, <3>1, ConcatEmptySeq
  <2>. QED
    BY <1>3, <1>5, <2>2, <2>3 DEF Emitted
<1>7. CASE calls # <<>>
  <2>1. n > 0 /\ n \in 1 .. Len(calls)
    BY <1>1, <1>2, <1>7, EmptySeq
  <2>2. s \in Seq(Seq(ItemType)) /\ Len(s) = n
    BY <1>2, <2>1, CodesTyped
  <2>3. \A i \in 1 .. n : s[i] = t[i]
    BY <1>2
  <2>4. buffer_ = FlattenSeq(s)
    BY <1>1, <1>7 DEF Emitted, Codes
  <2>. HIDE DEF s, t
  <2>5. FlattenSeq(t) = FlattenSeq(s) \o t[Len(t)]
    BY <1>4, <2>1, <2>2, <2>3, FlattenNext
  <2>6. buffer_' = FlattenSeq(t)
    BY <1>4, <2>4, <2>5
  <2>. QED
    BY <1>3, <1>5, <2>6 DEF Emitted
<1>. QED
  BY <1>6, <1>7

LEMMA AssembleRegion ==
  ASSUME Typed, RegionReady, NEW c \in Calls, Assemble(c)
  PROVE  RegionReady'
<1>1. stage = "Emitting" /\ stage' \in {"Emitting", "Overrun"} /\ region' = region
  BY DEF Assemble
<1>2. \A n \in DOMAIN calls : n \in DOMAIN calls' /\ Codes(n)' = Codes(n)
  <2>1. CASE calls' = calls
    BY <2>1 DEF Codes
  <2>2. CASE calls' = Append(calls, c)
    <3>1. /\ DOMAIN calls \subseteq DOMAIN calls'
          /\ \A n \in DOMAIN calls : 1 .. n \subseteq DOMAIN calls
          /\ \A i \in DOMAIN calls : calls'[i] = calls[i]
      BY <2>2 DEF Typed
    <3>. QED
      BY <3>1 DEF Codes
  <2>. QED
    BY <2>1, <2>2 DEF Assemble
<1>3. CASE region.ptr = "mapped"
  <2>1. PICK n \in DOMAIN calls : n = region.after /\ region.code = FlattenSeq(Codes(n))
    BY <1>1, <1>3 DEF RegionReady
  <2>2. n \in DOMAIN calls' /\ region'.after = n /\ region'.code = FlattenSeq(Codes(n)')
    BY <1>1, <1>2, <2>1
  <2>3. "x" \in region'.prot
    BY <1>1, <1>3 DEF RegionReady
  <2>4. region'.code = FlattenSeq(Codes(region.after)')
    BY <1>1, <2>2
  <2>. QED
    BY <1>1, <2>2, <2>3, <2>4 DEF RegionReady
<1>. QED
  BY <1>1, <1>3 DEF RegionReady

LEMMA CompileEmitted ==
  ASSUME Emitted, UNCHANGED <<calls, buffer_>>
  PROVE  Emitted'
BY DEF Emitted, Codes

LEMMA CodesKept ==
  ASSUME UNCHANGED calls
  PROVE  \A n : Codes(n)' = Codes(n)
BY DEF Codes

LEMMA CopyRegion ==
  ASSUME Typed, Emitted, RegionReady, Copy
  PROVE  RegionReady'
<1>1. CASE region.ptr = "mapped" /\ "w" \in region.prot
  <2>1. buffer_ # <<>> /\ "x" \in region.prot /\ region.after = Len(calls)
    BY <1>1 DEF RegionReady, Copy
  <2>2. /\ region' = [region EXCEPT !.code = buffer_] /\ stage' = "Copied"
        /\ UNCHANGED <<calls, buffer_>>
    BY <1>1, <2>1 DEF Copy
  <2>3. region'.code = buffer_ /\ region'.prot = region.prot /\ region'.after = region.after
    BY <2>2 DEF Typed, RegionType
  <2>4. calls # <<>> /\ buffer_ = FlattenSeq(Codes(Len(calls)))
    BY <2>1 DEF Emitted
  <2>5. Len(calls) \in DOMAIN calls
    BY <2>4, EmptySeq DEF Typed
  <2>6. region'.after \in DOMAIN calls' /\ region'.code = FlattenSeq(Codes(region.after)')
    BY <2>1, <2>2, <2>3, <2>4, <2>5, CodesKept
  <2>. QED
    BY <2>1, <2>2, <2>3, <2>6 DEF RegionReady
<1>2. CASE region.ptr = "mapped" /\ "w" \notin region.prot
  <2>1. buffer_ # <<>>
    BY <1>2 DEF RegionReady, Copy
  <2>2. stage' = "Crashed" /\ UNCHANGED region
    BY <1>2, <2>1 DEF Copy
  <2>. QED
    BY <1>2, <2>2 DEF RegionReady
<1>3. CASE region.ptr # "mapped"
  BY <1>3 DEF Copy, RegionReady
<1>. QED
  BY <1>1, <1>2, <1>3

LEMMA MakeExecutableRegion ==
  ASSUME Typed, RegionReady, MakeExecutable
  PROVE  RegionReady'
<1>1. UNCHANGED <<calls, buffer_>> /\ stage = "Copied" /\ stage' = "Emitting"
  BY DEF MakeExecutable, Protect
<1>2. CASE region.ptr = "mapped"
  <2>2. "x" \in region'.prot /\ region'.code = region.code /\ region'.after = region.after
    BY <1>1, <1>2 DEF MakeExecutable, Protect, RegionReady, Typed, RegionType
  <2>3. region'.after \in DOMAIN calls' /\ region'.code = FlattenSeq(Codes(region.after)')
    BY <1>1, <1>2, <2>2, CodesKept DEF RegionReady
  <2>. QED
    BY <1>1, <2>2, <2>3 DEF RegionReady
<1>3. CASE region.ptr # "mapped"
  BY <1>3 DEF MakeExecutable, Protect, RegionReady
<1>. QED
  BY <1>2, <1>3

LEMMA NextRegion ==
  Typed /\ Emitted /\ RegionReady /\ [Next]_vars => Emitted' /\ RegionReady'
<1>. SUFFICES ASSUME Typed, Emitted, RegionReady, [Next]_vars
              PROVE  Emitted' /\ RegionReady'
  OBVIOUS
<1>1. ASSUME NEW c \in Calls, Assemble(c) PROVE Emitted' /\ RegionReady'
  <2>1. Emitted'
    <3>1. CASE UNCHANGED <<calls, buffer_>>
      BY <3>1, CompileEmitted
    <3>2. CASE buffer_' = buffer_ \o Encode(c) /\ calls' = Append(calls, c)
      BY <3>2, AssembleEmitted
    <3>. QED
      BY <1>1, <3>1, <3>2 DEF Assemble
  <2>. QED
    BY <1>1, <2>1, AssembleRegion
<1>2. CASE MapRegion
  <2>1. Emitted'
    BY <1>2, CompileEmitted DEF MapRegion
  <2>2. RegionReady'
    BY <1>2 DEF MapRegion, RegionReady
  <2>. QED
    BY <2>1, <2>2
<1>3. CASE MakeWritable
  <2>1. Emitted'
    BY <1>3, CompileEmitted DEF MakeWritable, Protect
  <2>2. RegionReady'
    BY <1>3 DEF MakeWritable, Protect, RegionReady, Typed, RegionType
  <2>. QED
    BY <2>1, <2>2
<1>4. CASE Copy
  BY <1>4, CopyRegion, CompileEmitted DEF Copy
<1>5. CASE MakeExecutable
  BY <1>5, MakeExecutableRegion, CompileEmitted DEF MakeExecutable, Protect
<1>6. CASE UNCHANGED vars
  <2>1. Emitted'
    BY <1>6, CompileEmitted DEF vars
  <2>2. RegionReady'
    BY <1>6, CodesKept DEF vars, RegionReady
  <2>. QED
    BY <2>1, <2>2
<1>. QED
  BY <1>1, <1>2, <1>3, <1>4, <1>5, <1>6 DEF Next, Ended

LEMMA EmittedHolds == RunSpec => [](Emitted /\ RegionReady)
<1>1. RunInit => Emitted /\ RegionReady
  BY DEF RunInit, Init, Emitted, RegionReady
<1>2. Typed /\ Emitted /\ RegionReady /\ [RunNext]_<<vars, machine>> => Emitted' /\ RegionReady'
  BY NextRegion DEF RunNext, vars
<1>. QED
  BY <1>1, <1>2, TypedHolds, PTL DEF RunSpec

(* Once Compile has returned, a region that was mapped can be executed and *)
(* holds exactly what all the calls before that Compile encode, although   *)
(* Commit looks at no result of mprotect and CopyFrom asks for none.       *)
THEOREM RegionHolds == RunSpec => []RegionHoldsCode
<1>1. RegionReady => RegionHoldsCode
  BY DEF RegionReady, RegionHoldsCode, Codes
<1>. QED
  BY <1>1, EmittedHolds, PTL

-----------------------------------------------------------------------------
(* The processor, one instruction at a time *)

Memories == UNION { [S -> Int] : S \in SUBSET Int }

Machines == [at : Nat, regs : [Registers -> Int], mem : Memories, returned : BOOLEAN]

LEMMA WriteTyped ==
  ASSUME NEW mem \in Memories, NEW address \in Int, NEW v \in Int
  PROVE  WriteMem(mem, address, v) \in Memories /\ ReadMem(mem, address) \in Int
<1>1. PICK S \in SUBSET Int : mem \in [S -> Int]
  BY DEF Memories
<1>2. WriteMem(mem, address, v) \in [S \cup {address} -> Int]
  BY <1>1 DEF WriteMem
<1>3. S \cup {address} \in SUBSET Int
  OBVIOUS
<1>4. ReadMem(mem, address) \in Int
  BY <1>1 DEF ReadMem, Untouched
<1>. QED
  BY <1>2, <1>3, <1>4 DEF Memories

(* The items from position at of the code have the values of s. *)
Stands(code, at, s) == \A k \in 1 .. Len(s) : Value(code, at + k - 1) = s[k].value

LEMMA StandsAfter ==
  ASSUME NEW before \in Seq(ItemType), NEW s \in Seq(ItemType)
  PROVE  Stands(before \o s, Len(before) + 1, s)
<1>1. Len(before) \in Nat /\ Len(s) \in Nat
  OBVIOUS
<1>2. PICK code : code = before \o s
  OBVIOUS
<1>3. /\ code \in Seq(ItemType) /\ Len(code) = Len(before) + Len(s)
      /\ \A i \in 1 .. Len(before) + Len(s) :
           code[i] = IF i <= Len(before) THEN before[i] ELSE s[i - Len(before)]
  BY <1>2, ConcatProperties
<1>4. ASSUME NEW k \in 1 .. Len(s)
      PROVE  Value(code, (Len(before) + 1) + k - 1) = s[k].value
  <2>1. PICK i : i = (Len(before) + 1) + k - 1
    OBVIOUS
  <2>2. i \in 1 .. Len(before) + Len(s) /\ ~(i <= Len(before)) /\ i - Len(before) = k
    BY <1>1, <2>1
  <2>3. i \in DOMAIN code /\ code[i] = s[k]
    BY <1>3, <2>2
  <2>. QED
    BY <2>1, <2>3 DEF Value
<1>. QED
  BY <1>2, <1>4 DEF Stands

(* The two instructions of a call, one after the other. *)
LEMMA StandsParts ==
  ASSUME NEW s \in Seq(ItemType), NEW t \in Seq(ItemType), NEW code, NEW at \in Nat,
         Stands(code, at, s \o t)
  PROVE  Stands(code, at, s) /\ Stands(code, at + Len(s), t)
<1>1. Len(s) \in Nat /\ Len(t) \in Nat
  OBVIOUS
<1>2. PICK u : u = s \o t
  OBVIOUS
<1>3. /\ u \in Seq(ItemType) /\ Len(u) = Len(s) + Len(t)
      /\ \A i \in 1 .. Len(s) + Len(t) : u[i] = IF i <= Len(s) THEN s[i] ELSE t[i - Len(s)]
  BY <1>2, ConcatProperties
<1>4. \A k \in 1 .. Len(u) : Value(code, at + k - 1) = u[k].value
  BY <1>2 DEF Stands
<1>5. ASSUME NEW k \in 1 .. Len(s) PROVE Value(code, at + k - 1) = s[k].value
  BY <1>1, <1>3, <1>4
<1>6. ASSUME NEW k \in 1 .. Len(t) PROVE Value(code, (at + Len(s)) + k - 1) = t[k].value
  <2>1. PICK i : i = Len(s) + k
    OBVIOUS
  <2>2. i \in 1 .. Len(s) + Len(t) /\ ~(i <= Len(s)) /\ i - Len(s) = k
    BY <1>1, <2>1
  <2>3. u[i] = t[k] /\ Value(code, at + i - 1) = u[i].value
    BY <1>3, <1>4, <2>2
  <2>4. at + i - 1 = (at + Len(s)) + k - 1
    BY <1>1, <2>1
  <2>. QED
    BY <2>3, <2>4
<1>. QED
  BY <1>5, <1>6 DEF Stands

LEMMA SetRegister ==
  ASSUME NEW m \in Machines, NEW at \in Nat, NEW r \in Registers, NEW v \in Int
  PROVE  /\ [m EXCEPT !.at = at, !.regs[r] = v] =
              [at |-> at, regs |-> [m.regs EXCEPT ![r] = v], mem |-> m.mem, returned |-> m.returned]
         /\ [m EXCEPT !.at = at, !.regs[r] = v] \in Machines
<1>1. [m EXCEPT !.at = at, !.regs[r] = v] =
        [at |-> at, regs |-> [m.regs EXCEPT ![r] = v], mem |-> m.mem, returned |-> m.returned]
  <2>1. PICK n : n = [at |-> at, regs |-> m.regs, mem |-> m.mem, returned |-> m.returned]
    OBVIOUS
  <2>2. n \in Machines /\ n.regs = m.regs /\ n.mem = m.mem /\ n.returned = m.returned /\ n.at = at
    BY <2>1 DEF Machines
  <2>3. [m EXCEPT !.at = at] = n
    BY <2>1 DEF Machines
  <2>4. [m EXCEPT !.at = at, !.regs[r] = v] = [n EXCEPT !.regs[r] = v]
    BY <2>3
  <2>5. [n EXCEPT !.regs[r] = v] = [n EXCEPT !.regs = [n.regs EXCEPT ![r] = v]]
    BY <2>2 DEF Machines
  <2>6. PICK regs : regs = [n.regs EXCEPT ![r] = v]
    OBVIOUS
  <2>7. [n EXCEPT !.regs = regs] = [at |-> n.at, regs |-> regs, mem |-> n.mem, returned |-> n.returned]
    BY <2>2 DEF Machines
  <2>. QED
    BY <2>2, <2>4, <2>5, <2>6, <2>7, Zenon
<1>2. [m.regs EXCEPT ![r] = v] \in [Registers -> Int]
  BY DEF Machines
<1>. QED
  BY <1>1, <1>2 DEF Machines

LEMMA ExecuteMove ==
  ASSUME NEW m \in Machines, NEW code, NEW dst \in Registers, NEW imm \in Int,
         Stands(code, m.at, MoveImmediate(dst, imm))
  PROVE  /\ Execute(code, m) =
              [at |-> m.at + 3, regs |-> [m.regs EXCEPT ![dst] = imm], mem |-> m.mem,
               returned |-> m.returned]
         /\ Execute(code, m) \in Machines
<1>. DEFINE rex == RexByte({"W"} \cup Extended("B", dst)).value
<1>1. PICK s : s = MoveImmediate(dst, imm)
  OBVIOUS
<1>2. /\ Len(s) = 3 /\ s[1] = RexByte({"W"} \cup Extended("B", dst))
      /\ s[2] = Byte(184 + (dst % 8)) /\ s[3] = Item(8, imm)
  BY <1>1, MoveCode
<1>3. m.at \in Nat
  BY DEF Machines
<1>4. /\ Value(code, m.at) = s[1].value /\ Value(code, m.at + 1) = s[2].value
      /\ Value(code, m.at + 2) = s[3].value
  <2>1. \A k \in 1 .. 3 : Value(code, m.at + k - 1) = s[k].value
    BY <1>1, <1>2 DEF Stands
  <2>2. m.at + 1 - 1 = m.at /\ m.at + 2 - 1 = m.at + 1 /\ m.at + 3 - 1 = m.at + 2
    BY <1>3
  <2>3. 1 \in 1 .. 3 /\ 2 \in 1 .. 3 /\ 3 \in 1 .. 3
    OBVIOUS
  <2>. QED
    BY <2>1, <2>2, <2>3
<1>5. rex \in 64 .. 79 /\ Flag(rex, "B") = IF dst > 7 THEN 1 ELSE 0
  <2>1. "B" \in {"W"} \cup Extended("B", dst) <=> dst > 7
    BY DEF Extended
  <2>. QED
    BY <2>1, RexByteFields
<1>6. /\ 184 + (dst % 8) \in 184 .. 191 /\ 184 + (dst % 8) \in 0 .. 255
      /\ (184 + (dst % 8)) - 184 + 8 * (IF dst > 7 THEN 1 ELSE 0) = dst
  BY RegisterParts
<1>7. /\ Value(code, m.at) = rex /\ Value(code, m.at + 1) = 184 + (dst % 8)
      /\ Value(code, m.at + 2) = imm
  <2>1. s[2].value = 184 + (dst % 8) /\ s[3].value = imm
    <3>1. Byte(184 + (dst % 8)).value = 184 + (dst % 8)
      BY <1>6, ByteTyped
    <3>2. Item(8, imm).value = imm
      BY IntegerTyped
    <3>. QED
      BY <1>2, <3>1, <3>2
  <2>. QED
    BY <1>2, <1>4, <2>1
<1>. HIDE DEF rex
<1>8. Execute(code, m) = [m EXCEPT !.at = m.at + 3, !.regs[dst] = imm]
  <2>1. PICK opcode : opcode = 184 + (dst % 8)
    OBVIOUS
  <2>2. rex # 195 /\ opcode \in 184 .. 191 /\ opcode # 3 /\ opcode # 1
    BY <1>5, <1>6, <2>1
  <2>3. opcode - 184 + 8 * Flag(rex, "B") = dst
    BY <1>5, <1>6, <2>1
  <2>4. Value(code, m.at) = rex /\ Value(code, m.at + 1) = opcode
    BY <1>7, <2>1
  <2>. QED
    BY <1>7, <2>2, <2>3, <2>4, Zenon DEF Execute
<1>9. m.at + 3 \in Nat
  BY <1>3
<1>10. /\ [m EXCEPT !.at = m.at + 3, !.regs[dst] = imm] =
              [at |-> m.at + 3, regs |-> [m.regs EXCEPT ![dst] = imm], mem |-> m.mem,
               returned |-> m.returned]
       /\ [m EXCEPT !.at = m.at + 3, !.regs[dst] = imm] \in Machines
  BY <1>9, SetRegister
<1>. QED
  BY <1>8, <1>10, Zenon

LEMMA ExecuteAddRegister ==
  ASSUME NEW m \in Machines, NEW code, NEW dst \in Registers, NEW src \in Registers,
         Stands(code, m.at, AddRegister(dst, src))
  PROVE  /\ Execute(code, m) =
              [at |-> m.at + 3, regs |-> [m.regs EXCEPT ![dst] = m.regs[dst] + m.regs[src]],
               mem |-> m.mem, returned |-> m.returned]
         /\ Execute(code, m) \in Machines
<1>. DEFINE rex == RexByte({"W"} \cup Extended("R", dst) \cup Extended("B", src)).value
            modrm == 3 * 64 + (src % 8) + (dst % 8) * 8
<1>1. PICK s : s = AddRegister(dst, src)
  OBVIOUS
<1>2. /\ Len(s) = 3 /\ s[1] = RexByte({"W"} \cup Extended("R", dst) \cup Extended("B", src))
      /\ s[2] = Byte(3) /\ s[3] = Byte(modrm)
  BY <1>1, RegisterCode
<1>3. m.at \in Nat
  BY DEF Machines
<1>4. /\ Value(code, m.at) = s[1].value /\ Value(code, m.at + 1) = s[2].value
      /\ Value(code, m.at + 2) = s[3].value
  <2>1. \A k \in 1 .. 3 : Value(code, m.at + k - 1) = s[k].value
    BY <1>1, <1>2 DEF Stands
  <2>2. m.at + 1 - 1 = m.at /\ m.at + 2 - 1 = m.at + 1 /\ m.at + 3 - 1 = m.at + 2
    BY <1>3
  <2>3. 1 \in 1 .. 3 /\ 2 \in 1 .. 3 /\ 3 \in 1 .. 3
    OBVIOUS
  <2>. QED
    BY <2>1, <2>2, <2>3
<1>5. /\ rex \in 64 .. 79 /\ Flag(rex, "B") = IF src > 7 THEN 1 ELSE 0
      /\ Flag(rex, "R") = IF dst > 7 THEN 1 ELSE 0
  <2>. DEFINE bits == {"W"} \cup Extended("R", dst) \cup Extended("B", src)
  <2>1. ("B" \in bits <=> src > 7) /\ ("R" \in bits <=> dst > 7)
    BY DEF Extended
  <2>. QED
    BY <2>1, RexByteFields
<1>6. /\ src % 8 \in 0 .. 7 /\ (src % 8) + 8 * (IF src > 7 THEN 1 ELSE 0) = src
      /\ (dst % 8) + 8 * (IF dst > 7 THEN 1 ELSE 0) = dst
  BY RegisterParts
<1>7. /\ modrm \in 0 .. 255 /\ modrm \div 64 = 3 /\ modrm % 8 = src % 8
      /\ (modrm \div 8) % 8 = dst % 8
  <2>1. 3 \in 0 .. 3
    OBVIOUS
  <2>. QED
    BY <1>6, <2>1, ModRMFields, SMTT(30)
<1>8. /\ Value(code, m.at) = rex /\ Value(code, m.at + 1) = 3 /\ Value(code, m.at + 2) = modrm
  <2>1. 3 \in 0 .. 255
    OBVIOUS
  <2>2. Byte(3).value = 3 /\ Byte(modrm).value = modrm
    BY <1>7, <2>1, ByteTyped
  <2>. QED
    BY <1>2, <1>4, <2>2
<1>. HIDE DEF rex, modrm
<1>9. Decode(code, m, rex, m.at + 2) = [isReg |-> TRUE, place |-> src, next |-> m.at + 3]
  <2>1. (modrm % 8) + 8 * Flag(rex, "B") = src /\ (m.at + 2) + 1 = m.at + 3
    BY <1>3, <1>5, <1>6, <1>7
  <2>. QED
    BY <1>7, <1>8, <2>1, Zenon DEF Decode
<1>10. ((modrm \div 8) % 8) + 8 * Flag(rex, "R") = dst
  BY <1>5, <1>6, <1>7
<1>11. Execute(code, m) = [m EXCEPT !.at = m.at + 3, !.regs[dst] = m.regs[dst] + m.regs[src]]
  <2>1. PICK oper : oper = Decode(code, m, rex, m.at + 2)
    OBVIOUS
  <2>2. oper.isReg /\ oper.place = src /\ oper.next = m.at + 3
    BY <1>9, <2>1
  <2>3. rex # 195 /\ 3 \notin 184 .. 191
    BY <1>5
  <2>. QED
    BY <1>8, <1>10, <2>1, <2>2, <2>3, Zenon DEF Execute
<1>12. m.at + 3 \in Nat /\ m.regs[dst] + m.regs[src] \in Int
  BY <1>3 DEF Machines
<1>13. /\ [m EXCEPT !.at = m.at + 3, !.regs[dst] = m.regs[dst] + m.regs[src]] =
              [at |-> m.at + 3, regs |-> [m.regs EXCEPT ![dst] = m.regs[dst] + m.regs[src]],
               mem |-> m.mem, returned |-> m.returned]
       /\ [m EXCEPT !.at = m.at + 3, !.regs[dst] = m.regs[dst] + m.regs[src]] \in Machines
  BY <1>12, SetRegister
<1>. QED
  BY <1>11, <1>13, Zenon

LEMMA ExecuteReturn ==
  ASSUME NEW m \in Machines, NEW code, Stands(code, m.at, <<Byte(195)>>)
  PROVE  /\ Execute(code, m) = [at |-> m.at + 1, regs |-> m.regs, mem |-> m.mem, returned |-> TRUE]
         /\ Execute(code, m) \in Machines
<1>1. m.at \in Nat
  BY DEF Machines
<1>2. PICK s : s = <<Byte(195)>>
  OBVIOUS
<1>3. Len(s) = 1 /\ s[1] = Byte(195)
  BY <1>2
<1>4. Value(code, m.at) = 195
  <2>1. Value(code, m.at + 1 - 1) = s[1].value
    BY <1>2, <1>3 DEF Stands
  <2>2. m.at + 1 - 1 = m.at
    BY <1>1
  <2>3. 195 \in 0 .. 255 /\ Byte(195).value = 195
    BY ByteTyped
  <2>. QED
    BY <1>3, <2>1, <2>2, <2>3
<1>5. Execute(code, m) = [m EXCEPT !.at = m.at + 1, !.returned = TRUE]
  BY <1>4, Zenon DEF Execute
<1>6. [m EXCEPT !.at = m.at + 1, !.returned = TRUE] =
        [at |-> m.at + 1, regs |-> m.regs, mem |-> m.mem, returned |-> TRUE]
  <2>1. PICK at : at = m.at + 1
    OBVIOUS
  <2>2. PICK n : n = [at |-> at, regs |-> m.regs, mem |-> m.mem, returned |-> m.returned]
    OBVIOUS
  <2>3. n \in Machines /\ n.regs = m.regs /\ n.mem = m.mem /\ n.at = at
    BY <1>1, <2>1, <2>2 DEF Machines
  <2>4. [m EXCEPT !.at = at] = n
    BY <2>2 DEF Machines
  <2>5. [n EXCEPT !.returned = TRUE] = [at |-> n.at, regs |-> n.regs, mem |-> n.mem, returned |-> TRUE]
    <3>1. \A v : [n EXCEPT !.returned = v] =
                   [at |-> n.at, regs |-> n.regs, mem |-> n.mem, returned |-> v]
      BY <2>3 DEF Machines
    <3>. QED
      BY <3>1, Zenon
  <2>6. [m EXCEPT !.at = at, !.returned = TRUE] = [n EXCEPT !.returned = TRUE]
    BY <2>4
  <2>. QED
    BY <2>1, <2>3, <2>5, <2>6, Zenon
<1>7. [at |-> m.at + 1, regs |-> m.regs, mem |-> m.mem, returned |-> TRUE] \in Machines
  BY <1>1 DEF Machines
<1>. QED
  BY <1>5, <1>6, <1>7, Zenon

(* Where an operand of form f leads. *)
FormPlace(f, regs, disp) ==
  (IF NoBase(f) THEN 0 ELSE regs[f.base])
    + (IF HasSIB(f) /\ f.index # RSP
       THEN regs[f.index] * 2 ^ (SIBByte(f.scale, f.index, f.base) \div 64) ELSE 0)
    + (IF HasDisp(f) THEN disp ELSE 0)

LEMMA PlaceTyped ==
  ASSUME NEW f \in FormType, NEW regs \in [Registers -> Int], NEW disp \in Int
  PROVE  FormPlace(f, regs, disp) \in Int
<1>. DEFINE scale == SIBByte(f.scale, f.index, f.base) \div 64
<1>1. f.scale \in Nat /\ f.index \in Registers /\ f.base \in Registers
  BY DEF FormType
<1>2. scale \in 0 .. 3
  BY <1>1, SIBFields
<1>3. 2 ^ 0 = 1 /\ 2 ^ 1 = 2 /\ 2 ^ 2 = 4 /\ 2 ^ 3 = 8
  BY SMT
<1>. HIDE DEF scale
<1>4. 2 ^ scale \in Int
  <2>1. scale = 0 \/ scale = 1 \/ scale = 2 \/ scale = 3
    BY <1>2
  <2>2. 1 \in Int /\ 2 \in Int /\ 4 \in Int /\ 8 \in Int
    OBVIOUS
  <2>. QED
    BY <1>3, <2>1, <2>2, Zenon
<1>5. PICK factor \in Int : factor = 2 ^ scale
  BY <1>4
<1>6. regs[f.index] * factor \in Int /\ regs[f.base] \in Int
  BY <1>1
<1>. QED
  BY <1>5, <1>6 DEF FormPlace, scale

(* A ModRM byte, with the SIB byte and the displacement that the form asks *)
(* for, is decoded as the place that the form leads to.                    *)
LEMMA DecodeForm ==
  ASSUME NEW m \in Machines, NEW code, NEW rex, NEW i \in Nat, NEW f \in FormType,
         NEW r \in Registers, NEW disp,
         ~HasSIB(f) => f.rm = f.base % 8,
         Flag(rex, "B") = (IF f.base > 7 THEN 1 ELSE 0),
         Flag(rex, "X") = (IF f.index > 7 THEN 1 ELSE 0),
         Value(code, i) = f.mod * 64 + f.rm + (r % 8) * 8,
         HasSIB(f) => Value(code, i + 1) = SIBByte(f.scale, f.index, f.base),
         HasDisp(f) => Value(code, IF HasSIB(f) THEN i + 2 ELSE i + 1) = disp
  PROVE  Decode(code, m, rex, i) =
           [isReg |-> FALSE, place |-> FormPlace(f, m.regs, disp),
            next |-> i + 1 + (IF HasSIB(f) THEN 1 ELSE 0) + (IF HasDisp(f) THEN 1 ELSE 0)]
<1>. DEFINE modrm == Value(code, i)
            mod == modrm \div 64
            rm  == modrm % 8
            sib == Value(code, i + 1)
            sibBase == sib % 8
            sibIndex == ((sib \div 8) % 8) + 8 * Flag(rex, "X")
            hasSib == rm = 4
            noBase == mod = 0 /\ (IF hasSib THEN sibBase ELSE rm) = 5
            hasDisp == mod = 2 \/ noBase
            dispAt == IF hasSib THEN i + 2 ELSE i + 1
            base == IF noBase THEN 0
                    ELSE m.regs[(IF hasSib THEN sibBase ELSE rm) + 8 * Flag(rex, "B")]
            index == IF hasSib /\ sibIndex # 4 THEN m.regs[sibIndex] * 2 ^ (sib \div 64) ELSE 0
            dispOf == IF hasDisp THEN Value(code, dispAt) ELSE 0
<1>1. /\ f.mod \in {0, 2} /\ f.rm \in 0 .. 7 /\ f.scale \in Nat
      /\ f.index \in Registers /\ f.base \in Registers
  BY DEF FormType
<1>2. mod = f.mod /\ rm = f.rm
  <2>1. PICK fmod \in 0 .. 3 : fmod = f.mod
    BY <1>1
  <2>2. PICK frm \in 0 .. 7 : frm = f.rm
    BY <1>1
  <2>3. modrm = fmod * 64 + frm + (r % 8) * 8
    BY <2>1, <2>2
  <2>4. /\ (fmod * 64 + frm + (r % 8) * 8) \div 64 = fmod
        /\ (fmod * 64 + frm + (r % 8) * 8) % 8 = frm
    BY ModRMFields
  <2>. QED
    BY <2>1, <2>2, <2>3, <2>4
<1>3. hasSib <=> HasSIB(f)
  BY <1>2 DEF HasSIB, RSP
<1>4. HasSIB(f) => sibBase = f.base % 8 /\ ((sib \div 8) % 8) = f.index % 8
  BY <1>1, SIBFields
<1>5. (f.base % 8) + 8 * Flag(rex, "B") = f.base /\ (f.index % 8) + 8 * Flag(rex, "X") = f.index
  BY <1>1, RegisterParts
<1>6. (IF hasSib THEN sibBase ELSE rm) = f.base % 8
  BY <1>2, <1>3, <1>4
<1>7. noBase <=> NoBase(f)
  BY <1>2, <1>3, <1>6 DEF NoBase, RBP
<1>8. hasDisp <=> HasDisp(f)
  BY <1>2, <1>7 DEF HasDisp
<1>9. base = IF NoBase(f) THEN 0 ELSE m.regs[f.base]
  BY <1>5, <1>6, <1>7
<1>10. HasSIB(f) => sibIndex = f.index
  BY <1>4, <1>5
<1>11. index = IF HasSIB(f) /\ f.index # RSP
               THEN m.regs[f.index] * 2 ^ (SIBByte(f.scale, f.index, f.base) \div 64) ELSE 0
  <2>1. RSP = 4
    BY DEF RSP
  <2>. HIDE DEF hasSib, sibIndex
  <2>. QED
    BY <1>3, <1>10, <2>1
<1>12. dispOf = IF HasDisp(f) THEN disp ELSE 0
  BY <1>3, <1>8
<1>13. mod # 3
  BY <1>1, <1>2
<1>14. (IF hasDisp THEN dispAt + 1 ELSE dispAt) =
         i + 1 + (IF HasSIB(f) THEN 1 ELSE 0) + (IF HasDisp(f) THEN 1 ELSE 0)
  <2>1. CASE HasSIB(f) /\ HasDisp(f)
    BY <1>3, <1>8, <2>1
  <2>2. CASE HasSIB(f) /\ ~HasDisp(f)
    BY <1>3, <1>8, <2>2
  <2>3. CASE ~HasSIB(f) /\ HasDisp(f)
    BY <1>3, <1>8, <2>3
  <2>4. CASE ~HasSIB(f) /\ ~HasDisp(f)
    BY <1>3, <1>8, <2>4
  <2>. QED
    BY <2>1, <2>2, <2>3, <2>4
<1>15. Decode(code, m, rex, i) =
         IF mod = 3 THEN [isReg |-> TRUE, place |-> rm + 8 * Flag(rex, "B"), next |-> i + 1]
         ELSE [isReg |-> FALSE, place |-> base + index + dispOf,
               next |-> IF hasDisp THEN dispAt + 1 ELSE dispAt]
  BY Zenon DEF Decode
<1>. HIDE DEF mod, rm, base, index, dispOf, hasDisp, dispAt
<1>. QED
  BY <1>9, <1>11, <1>12, <1>13, <1>14, <1>15, Zenon DEF FormPlace

(* What an instruction with a memory operand is decoded as. *)
LEMMA FormDecoded ==
  ASSUME NEW m \in Machines, NEW code, NEW f \in FormType, NEW r \in Registers,
         NEW opcode \in 0 .. 255, NEW disp \in Int, NEW s,
         FormCode(s, f, opcode, r, disp), Stands(code, m.at, s),
         ~HasSIB(f) => f.rm = f.base % 8
  PROVE  /\ Value(code, m.at) \in 64 .. 79
         /\ Value(code, m.at + 1) = opcode
         /\ ((Value(code, m.at + 2) \div 8) % 8) + 8 * Flag(Value(code, m.at), "R") = r
         /\ Decode(code, m, Value(code, m.at), m.at + 2) =
              [isReg |-> FALSE, place |-> FormPlace(f, m.regs, disp), next |-> m.at + Len(s)]
<1>. DEFINE bits == {"W"} \cup Extended("R", r) \cup (Extended("B", f.base) \cup Extended("X", f.index))
            modrm == f.mod * 64 + f.rm + (r % 8) * 8
            sib == SIBByte(f.scale, f.index, f.base)
            size == 3 + (IF HasSIB(f) THEN 1 ELSE 0) + (IF HasDisp(f) THEN 1 ELSE 0)
<1>1. /\ f.mod \in {0, 2} /\ f.rm \in 0 .. 7 /\ f.scale \in Nat
      /\ f.index \in Registers /\ f.base \in Registers /\ m.at \in Nat
  BY DEF FormType, Machines
<1>2. /\ Len(s) = size /\ s[1] = RexByte(bits) /\ s[2] = Byte(opcode) /\ s[3] = Byte(modrm)
      /\ HasSIB(f) => s[4] = Byte(sib)
      /\ HasDisp(f) => s[IF HasSIB(f) THEN 5 ELSE 4] = Item(4, disp)
  BY DEF FormCode
<1>3. ASSUME NEW k \in 1 .. size PROVE Value(code, m.at + k - 1) = s[k].value
  BY <1>2 DEF Stands
<1>4. /\ m.at + 1 - 1 = m.at /\ m.at + 2 - 1 = m.at + 1 /\ m.at + 3 - 1 = m.at + 2
      /\ m.at + 4 - 1 = m.at + 3 /\ m.at + 5 - 1 = m.at + 4
  BY <1>1
<1>5. /\ Value(code, m.at) = s[1].value /\ Value(code, m.at + 1) = s[2].value
      /\ Value(code, m.at + 2) = s[3].value
  <2>1. 1 \in 1 .. size /\ 2 \in 1 .. size /\ 3 \in 1 .. size
    OBVIOUS
  <2>. QED
    BY <1>3, <1>4, <2>1
<1>6. /\ ("B" \in bits <=> f.base > 7) /\ ("R" \in bits <=> r > 7)
      /\ ("X" \in bits <=> f.index > 7)
  BY DEF Extended
<1>7. /\ RexByte(bits).value \in 64 .. 79
      /\ Flag(RexByte(bits).value, "B") = IF f.base > 7 THEN 1 ELSE 0
      /\ Flag(RexByte(bits).value, "X") = IF f.index > 7 THEN 1 ELSE 0
      /\ Flag(RexByte(bits).value, "R") = IF r > 7 THEN 1 ELSE 0
  BY <1>6, RexByteFields
<1>8. modrm \in 0 .. 255 /\ (modrm \div 8) % 8 = r % 8
  <2>1. PICK fmod \in 0 .. 3 : fmod = f.mod
    BY <1>1
  <2>2. PICK frm \in 0 .. 7 : frm = f.rm
    BY <1>1
  <2>3. /\ fmod * 64 + frm + (r % 8) * 8 \in 0 .. 255
        /\ ((fmod * 64 + frm + (r % 8) * 8) \div 8) % 8 = r % 8
    BY ModRMFields
  <2>. QED
    BY <2>1, <2>2, <2>3
<1>9. sib \in 0 .. 255
  BY <1>1, SIBFields
<1>10. /\ Byte(opcode).value = opcode /\ Byte(modrm).value = modrm /\ Byte(sib).value = sib
       /\ Item(4, disp).value = disp
  BY <1>8, <1>9, ByteTyped, IntegerTyped
<1>11. Value(code, m.at + 1) = opcode /\ Value(code, m.at + 2) = modrm
  BY <1>2, <1>5, <1>10
<1>12. HasSIB(f) => Value(code, (m.at + 2) + 1) = sib
  <2>. SUFFICES ASSUME HasSIB(f) PROVE Value(code, (m.at + 2) + 1) = sib
    OBVIOUS
  <2>1. 4 \in 1 .. size /\ (m.at + 2) + 1 = m.at + 3
    BY <1>1
  <2>. QED
    BY <1>2, <1>3, <1>4, <1>10, <2>1
<1>13. HasDisp(f) => Value(code, IF HasSIB(f) THEN (m.at + 2) + 2 ELSE (m.at + 2) + 1) = disp
  <2>. SUFFICES ASSUME HasDisp(f)
                PROVE  Value(code, IF HasSIB(f) THEN (m.at + 2) + 2 ELSE (m.at + 2) + 1) = disp
    OBVIOUS
  <2>1. CASE HasSIB(f)
    <3>1. 5 \in 1 .. size /\ (m.at + 2) + 2 = m.at + 4 /\ s[5] = Item(4, disp)
      BY <1>1, <1>2, <2>1
    <3>. QED
      BY <1>3, <1>4, <1>10, <2>1, <3>1
  <2>2. CASE ~HasSIB(f)
    <3>1. 4 \in 1 .. size /\ (m.at + 2) + 1 = m.at + 3 /\ s[4] = Item(4, disp)
      BY <1>1, <1>2, <2>2
    <3>. QED
      BY <1>3, <1>4, <1>10, <2>2, <3>1
  <2>. QED
    BY <2>1, <2>2
<1>14. PICK rex : rex = Value(code, m.at)
  OBVIOUS
<1>15. PICK i \in Nat : i = m.at + 2
  BY <1>1
<1>16. /\ rex \in 64 .. 79
       /\ Flag(rex, "B") = IF f.base > 7 THEN 1 ELSE 0
       /\ Flag(rex, "X") = IF f.index > 7 THEN 1 ELSE 0
       /\ Flag(rex, "R") = IF r > 7 THEN 1 ELSE 0
  BY <1>2, <1>5, <1>7, <1>14
<1>17. Decode(code, m, rex, i) =
           [isReg |-> FALSE, place |-> FormPlace(f, m.regs, disp),
            next |-> i + 1 + (IF HasSIB(f) THEN 1 ELSE 0) + (IF HasDisp(f) THEN 1 ELSE 0)]
  <2>1. /\ Value(code, i) = f.mod * 64 + f.rm + (r % 8) * 8
        /\ HasSIB(f) => Value(code, i + 1) = SIBByte(f.scale, f.index, f.base)
        /\ HasDisp(f) => Value(code, IF HasSIB(f) THEN i + 2 ELSE i + 1) = disp
    BY <1>11, <1>12, <1>13, <1>15
  <2>. QED
    BY <1>16, <2>1, DecodeForm
<1>18. i + 1 + (IF HasSIB(f) THEN 1 ELSE 0) + (IF HasDisp(f) THEN 1 ELSE 0) = m.at + Len(s)
  BY <1>1, <1>2, <1>15
<1>19. ((Value(code, m.at + 2) \div 8) % 8) + 8 * Flag(rex, "R") = r
  BY <1>8, <1>11, <1>16, RegisterParts
<1>. QED
  BY <1>11, <1>14, <1>15, <1>16, <1>17, <1>18, <1>19

LEMMA FormLength ==
  ASSUME NEW f, NEW opcode, NEW r, NEW disp, NEW s, FormCode(s, f, opcode, r, disp)
  PROVE  Len(s) \in Nat
BY DEF FormCode

(* addq of a memory operand to a register. *)
LEMMA ExecuteAddMemory ==
  ASSUME NEW m \in Machines, NEW code, NEW f \in FormType, NEW r \in Registers,
         NEW disp \in Int, NEW s,
         FormCode(s, f, 3, r, disp), Stands(code, m.at, s),
         ~HasSIB(f) => f.rm = f.base % 8
  PROVE  /\ Execute(code, m) =
              [at |-> m.at + Len(s),
               regs |-> [m.regs EXCEPT
                          ![r] = m.regs[r] + ReadMem(m.mem, FormPlace(f, m.regs, disp))],
               mem |-> m.mem, returned |-> m.returned]
         /\ Execute(code, m) \in Machines
<1>. DEFINE place == FormPlace(f, m.regs, disp)
<1>1. 3 \in 0 .. 255
  OBVIOUS
<1>2. PICK rex : rex = Value(code, m.at)
  OBVIOUS
<1>3. /\ rex \in 64 .. 79 /\ Value(code, m.at + 1) = 3
      /\ ((Value(code, m.at + 2) \div 8) % 8) + 8 * Flag(rex, "R") = r
      /\ Decode(code, m, rex, m.at + 2) =
           [isReg |-> FALSE, place |-> place, next |-> m.at + Len(s)]
  <2>1. PICK opcode \in 0 .. 255 : opcode = 3
    BY <1>1
  <2>2. FormCode(s, f, opcode, r, disp)
    BY <2>1
  <2>3. /\ Value(code, m.at) \in 64 .. 79 /\ Value(code, m.at + 1) = opcode
        /\ ((Value(code, m.at + 2) \div 8) % 8) + 8 * Flag(Value(code, m.at), "R") = r
        /\ Decode(code, m, Value(code, m.at), m.at + 2) =
             [isReg |-> FALSE, place |-> FormPlace(f, m.regs, disp), next |-> m.at + Len(s)]
    BY <2>2, FormDecoded, ZenonT(100)
  <2>. QED
    BY <1>2, <2>1, <2>3, Zenon
<1>4. m.at \in Nat /\ m.regs \in [Registers -> Int] /\ m.mem \in Memories
  BY DEF Machines
<1>5. place \in Int
  BY <1>4, PlaceTyped
<1>6. ReadMem(m.mem, place) \in Int
  BY <1>4, <1>5, WriteTyped
<1>. HIDE DEF place
<1>7. PICK v : v = m.regs[r] + ReadMem(m.mem, place)
  OBVIOUS
<1>8. v \in Int /\ m.at + Len(s) \in Nat
  BY <1>4, <1>6, <1>7, FormLength
<1>9. Execute(code, m) = [m EXCEPT !.at = m.at + Len(s), !.regs[r] = v]
  <2>1. PICK oper : oper = Decode(code, m, rex, m.at + 2)
    OBVIOUS
  <2>2. ~oper.isReg /\ oper.place = place /\ oper.next = m.at + Len(s)
    BY <1>3, <2>1
  <2>3. rex # 195 /\ 3 \notin 184 .. 191
    BY <1>3
  <2>. QED
    BY <1>2, <1>3, <1>7, <2>1, <2>2, <2>3, Zenon DEF Execute
<1>10. /\ [m EXCEPT !.at = m.at + Len(s), !.regs[r] = v] =
             [at |-> m.at + Len(s), regs |-> [m.regs EXCEPT ![r] = v], mem |-> m.mem,
              returned |-> m.returned]
       /\ [m EXCEPT !.at = m.at + Len(s), !.regs[r] = v] \in Machines
  BY <1>8, SetRegister
<1>. QED
  BY <1>7, <1>9, <1>10, Zenon DEF place

(* addq of a register to a memory operand. *)
LEMMA ExecuteAddToMemory ==
  ASSUME NEW m \in Machines, NEW code, NEW f \in FormType, NEW r \in Registers,
         NEW disp \in Int, NEW s,
         FormCode(s, f, 1, r, disp), Stands(code, m.at, s),
         ~HasSIB(f) => f.rm = f.base % 8
  PROVE  /\ Execute(code, m) =
              [at |-> m.at + Len(s), regs |-> m.regs,
               mem |-> WriteMem(m.mem, FormPlace(f, m.regs, disp),
                                m.regs[r] + ReadMem(m.mem, FormPlace(f, m.regs, disp))),
               returned |-> m.returned]
         /\ Execute(code, m) \in Machines
<1>. DEFINE place == FormPlace(f, m.regs, disp)
<1>1. 1 \in 0 .. 255
  OBVIOUS
<1>2. PICK rex : rex = Value(code, m.at)
  OBVIOUS
<1>3. /\ rex \in 64 .. 79 /\ Value(code, m.at + 1) = 1
      /\ ((Value(code, m.at + 2) \div 8) % 8) + 8 * Flag(rex, "R") = r
      /\ Decode(code, m, rex, m.at + 2) =
           [isReg |-> FALSE, place |-> place, next |-> m.at + Len(s)]
  <2>1. PICK opcode \in 0 .. 255 : opcode = 1
    BY <1>1
  <2>2. FormCode(s, f, opcode, r, disp)
    BY <2>1
  <2>3. /\ Value(code, m.at) \in 64 .. 79 /\ Value(code, m.at + 1) = opcode
        /\ ((Value(code, m.at + 2) \div 8) % 8) + 8 * Flag(Value(code, m.at), "R") = r
        /\ Decode(code, m, Value(code, m.at), m.at + 2) =
             [isReg |-> FALSE, place |-> FormPlace(f, m.regs, disp), next |-> m.at + Len(s)]
    BY <2>2, FormDecoded, ZenonT(100)
  <2>. QED
    BY <1>2, <2>1, <2>3, Zenon
<1>4. m.at \in Nat /\ m.regs \in [Registers -> Int] /\ m.mem \in Memories
  BY DEF Machines
<1>5. place \in Int
  BY <1>4, PlaceTyped
<1>6. ReadMem(m.mem, place) \in Int
  BY <1>4, <1>5, WriteTyped
<1>. HIDE DEF place
<1>7. PICK v : v = m.regs[r] + ReadMem(m.mem, place)
  OBVIOUS
<1>8. v \in Int /\ m.at + Len(s) \in Nat
  BY <1>4, <1>6, <1>7, FormLength
<1>9. PICK mem : mem = WriteMem(m.mem, place, v)
  OBVIOUS
<1>10. mem \in Memories
  BY <1>4, <1>5, <1>8, <1>9, WriteTyped
<1>11. Execute(code, m) = [m EXCEPT !.at = m.at + Len(s), !.mem = mem]
  <2>1. PICK oper : oper = Decode(code, m, rex, m.at + 2)
    OBVIOUS
  <2>2. ~oper.isReg /\ oper.place = place /\ oper.next = m.at + Len(s)
    BY <1>3, <2>1
  <2>3. rex # 195 /\ 1 \notin 184 .. 191 /\ 1 # 3
    BY <1>3
  <2>4. Execute(code, m) = [m EXCEPT !.at = m.at + Len(s), !.mem = WriteMem(@, place, v)]
    BY <1>2, <1>3, <1>7, <2>1, <2>2, <2>3, ZenonT(30) DEF Execute
  <2>5. PICK n : n = [m EXCEPT !.at = m.at + Len(s)]
    OBVIOUS
  <2>6. n.mem = m.mem
    BY <2>5 DEF Machines
  <2>7. [m EXCEPT !.at = m.at + Len(s), !.mem = WriteMem(@, place, v)]
          = [n EXCEPT !.mem = WriteMem(n.mem, place, v)]
    BY <2>5
  <2>8. [m EXCEPT !.at = m.at + Len(s), !.mem = mem] = [n EXCEPT !.mem = mem]
    BY <2>5
  <2>. QED
    BY <1>9, <2>4, <2>6, <2>7, <2>8, Zenon
<1>12. [m EXCEPT !.at = m.at + Len(s), !.mem = mem] =
         [at |-> m.at + Len(s), regs |-> m.regs, mem |-> mem, returned |-> m.returned]
  <2>1. PICK at \in Nat : at = m.at + Len(s)
    BY <1>8
  <2>2. PICK n : n = [at |-> at, regs |-> m.regs, mem |-> m.mem, returned |-> m.returned]
    OBVIOUS
  <2>3. n \in Machines /\ n.regs = m.regs /\ n.returned = m.returned /\ n.at = at
    BY <2>2 DEF Machines
  <2>4. [m EXCEPT !.at = at] = n
    BY <2>2 DEF Machines
  <2>5. [n EXCEPT !.mem = mem] = [at |-> n.at, regs |-> n.regs, mem |-> mem, returned |-> n.returned]
    BY <2>3 DEF Machines
  <2>6. [m EXCEPT !.at = at, !.mem = mem] = [n EXCEPT !.mem = mem]
    BY <2>4
  <2>. QED
    BY <2>1, <2>3, <2>5, <2>6, Zenon
<1>13. [at |-> m.at + Len(s), regs |-> m.regs, mem |-> mem, returned |-> m.returned] \in Machines
  BY <1>4, <1>8, <1>10 DEF Machines
<1>. QED
  BY <1>7, <1>9, <1>11, <1>12, <1>13, Zenon DEF place

-----------------------------------------------------------------------------
(* What a user is promised *)

(* The instance that ImplementsAddMachine speaks of has operators of its   *)
(* own for what both sides take from AssemblerCalls.                       *)
LEMMA SameOperators ==
  /\ \A mem, address : Machine!ReadMem(mem, address) = ReadMem(mem, address)
  /\ \A mem, address, v : Machine!WriteMem(mem, address, v) = WriteMem(mem, address, v)
  /\ \A c : Machine!Promised(c) <=> Promised(c)
  /\ Machine!Registers = Registers /\ Machine!TMP = TMP /\ Machine!None = None
  /\ Machine!InitialRegs = InitialRegs /\ Machine!NoMem = NoMem
<1>1. \A mem, address : Machine!ReadMem(mem, address) = ReadMem(mem, address)
  BY DEF Machine!ReadMem, ReadMem, Machine!Untouched, Untouched
<1>2. \A mem, address, v : Machine!WriteMem(mem, address, v) = WriteMem(mem, address, v)
  BY DEF Machine!WriteMem, WriteMem
<1>3. \A a : Machine!Encodable(a) <=> Encodable(a)
  BY DEF Machine!Encodable, Encodable, Machine!None, None, Machine!RSP, RSP
<1>4. \A a : Machine!Uses(a, Machine!TMP) <=> Uses(a, TMP)
  BY DEF Machine!Uses, Uses, Machine!TMP, TMP
<1>5. \A c : Machine!Promised(c) <=> Promised(c)
  BY <1>3, <1>4 DEF Machine!Promised, Promised, Machine!TMP, TMP
<1>6. Machine!Registers = Registers /\ Machine!TMP = TMP /\ Machine!None = None
  BY DEF Machine!Registers, Registers, Machine!TMP, TMP, Machine!None, None
<1>7. Machine!InitialRegs = InitialRegs /\ Machine!NoMem = NoMem
  BY DEF Machine!InitialRegs, InitialRegs, Machine!Registers, Registers, Machine!NoMem, NoMem
<1>. QED
  BY <1>1, <1>2, <1>5, <1>6, <1>7

(* An address as its constructor is told, with the registers of regs. *)
Effective(a, regs) ==
  (IF a.base = None THEN 0 ELSE regs[a.base])
    + (IF a.index = None THEN 0 ELSE regs[a.index] * 2 ^ a.scale)
    + a.disp

(* The form of an address that can be encoded leads where the address says.*)
LEMMA PlaceIsEffective ==
  ASSUME NEW a \in AddressType, Encodable(a), NEW f \in FormType, IsFormOf(f, a), NEW regs
  PROVE  FormPlace(f, regs, a.disp) = Effective(a, regs)
<1>1. (IF NoBase(f) THEN 0 ELSE regs[f.base]) = (IF a.base = None THEN 0 ELSE regs[a.base])
  BY DEF IsFormOf
<1>2. (IF HasSIB(f) /\ f.index # RSP
       THEN regs[f.index] * 2 ^ (SIBByte(f.scale, f.index, f.base) \div 64) ELSE 0)
        = (IF a.index = None THEN 0 ELSE regs[a.index] * 2 ^ a.scale)
  <2>1. CASE a.index = None
    BY <2>1 DEF IsFormOf
  <2>2. CASE a.index # None
    <3>1. HasSIB(f) /\ f.index = a.index /\ f.scale = a.scale /\ a.index # RSP /\ a.scale <= 3
      BY <2>2 DEF IsFormOf, Encodable
    <3>2. f.scale \in Nat /\ f.index \in Registers /\ f.base \in Registers
      BY DEF FormType
    <3>3. SIBByte(f.scale, f.index, f.base) \div 64 = a.scale
      BY <3>1, <3>2, SIBFields
    <3>. QED
      BY <2>2, <3>1, <3>3, Zenon
  <2>. QED
    BY <2>1, <2>2
<1>3. (IF HasDisp(f) THEN a.disp ELSE 0) = a.disp
  BY DEF IsFormOf
<1>. QED
  BY <1>1, <1>2, <1>3, Zenon DEF FormPlace, Effective

LEMMA CodeLengths ==
  ASSUME NEW dst \in Registers
  PROVE  /\ \A src \in Registers : AddRegister(dst, src) \in Seq(ItemType) /\ Len(AddRegister(dst, src)) = 3
         /\ \A imm \in Int : MoveImmediate(dst, imm) \in Seq(ItemType) /\ Len(MoveImmediate(dst, imm)) = 3
<1>1. ASSUME NEW src \in Registers
      PROVE  AddRegister(dst, src) \in Seq(ItemType) /\ Len(AddRegister(dst, src)) = 3
  <2>1. PICK x, y, z : AddRegister(dst, src) = <<x, y, z>>
    <3>1. AddRegister(dst, src) =
            <<RexByte({"W"} \cup Extended("R", dst) \cup Extended("B", src)), Byte(3),
              Byte(3 * 64 + (src % 8) + (dst % 8) * 8)>>
      BY RegisterCode
    <3>. QED
      BY <3>1, Zenon
  <2>2. AddRegister(dst, src) \in Seq(ItemType)
    BY RegisterCode, Zenon
  <2>. QED
    BY <2>1, <2>2
<1>2. ASSUME NEW imm \in Int
      PROVE  MoveImmediate(dst, imm) \in Seq(ItemType) /\ Len(MoveImmediate(dst, imm)) = 3
  <2>1. PICK x, y, z : MoveImmediate(dst, imm) = <<x, y, z>>
    <3>1. MoveImmediate(dst, imm) =
            <<RexByte({"W"} \cup Extended("B", dst)), Byte(184 + (dst % 8)), Item(8, imm)>>
      BY MoveCode
    <3>. QED
      BY <3>1, Zenon
  <2>2. MoveImmediate(dst, imm) \in Seq(ItemType)
    BY MoveCode, Zenon
  <2>. QED
    BY <2>1, <2>2
<1>. QED
  BY <1>1, <1>2

(* What RunNext does with the code. *)
Run(code, m) == Continue(code, Continue(code, m))

(* A call of one instruction. *)
LEMMA RunOne ==
  ASSUME NEW buffer \in Seq(ItemType), NEW s \in Seq(ItemType), Len(s) > 0,
         NEW m \in Machines, ~m.returned, m.at = Len(buffer) + 1,
         NEW n \in Machines, Execute(buffer \o s, m) = n, n.at = m.at + Len(s)
  PROVE  Run(buffer \o s, m) = n /\ n.at = Len(buffer \o s) + 1
<1>1. Len(buffer) \in Nat /\ Len(s) \in Nat /\ Len(buffer \o s) = Len(buffer) + Len(s)
  BY ConcatProperties
<1>2. PICK code : code = buffer \o s
  OBVIOUS
<1>3. ~(m.at > Len(code)) /\ n.at = Len(code) + 1 /\ n.at > Len(code)
  BY <1>1, <1>2
<1>4. Continue(code, m) = n
  BY <1>2, <1>3, Zenon DEF Continue
<1>5. Continue(code, n) = n
  BY <1>3, Zenon DEF Continue
<1>. QED
  BY <1>2, <1>3, <1>4, <1>5, Zenon DEF Run

(* A call of two instructions. *)
LEMMA RunTwo ==
  ASSUME NEW code, NEW m, ~m.returned, ~(m.at > Len(code)),
         NEW n, n = Execute(code, m), ~n.returned, ~(n.at > Len(code)),
         NEW k, k = Execute(code, n)
  PROVE  Run(code, m) = k
<1>1. Continue(code, m) = n
  BY Zenon DEF Continue
<1>2. Continue(code, n) = k
  BY Zenon DEF Continue
<1>. QED
  BY <1>1, <1>2, Zenon DEF Run

LEMMA TwoLengths ==
  ASSUME NEW buffer \in Seq(ItemType), NEW s \in Seq(ItemType), NEW t \in Seq(ItemType)
  PROVE  /\ s \o t \in Seq(ItemType) /\ Len(s) \in Nat /\ Len(t) \in Nat /\ Len(buffer) \in Nat
         /\ Len(buffer \o (s \o t)) = Len(buffer) + Len(s) + Len(t)
<1>1. /\ Len(buffer) \in Nat /\ Len(s) \in Nat /\ Len(t) \in Nat
      /\ s \o t \in Seq(ItemType) /\ Len(s \o t) = Len(s) + Len(t)
  BY ConcatProperties
<1>2. Len(buffer \o (s \o t)) = Len(buffer) + Len(s \o t)
  BY <1>1, ConcatProperties
<1>. QED
  BY <1>1, <1>2

(* Code that has returned, or that has been run to its end, stays as it is.*)
LEMMA RunNothing ==
  ASSUME NEW code \in Seq(ItemType), NEW m \in Machines, m.returned \/ m.at = Len(code) + 1
  PROVE  Run(code, m) = m
<1>1. Len(code) \in Nat
  OBVIOUS
<1>2. m.returned \/ m.at > Len(code)
  BY <1>1
<1>3. Continue(code, m) = m
  BY <1>2, Zenon DEF Continue
<1>. QED
  BY <1>3, Zenon DEF Run

(* What the call c makes of the registers and the memory of m. *)
Effect(c, m, n) ==
  /\ c.op = "addRR" =>
       /\ n.regs = [m.regs EXCEPT ![c.reg] = m.regs[c.reg] + m.regs[c.src]]
       /\ n.mem = m.mem
  /\ c.op = "addRA" /\ Encodable(c.address) =>
       /\ n.regs = [m.regs EXCEPT ![c.reg] =
                      m.regs[c.reg] + ReadMem(m.mem, Effective(c.address, m.regs))]
       /\ n.mem = m.mem
  /\ c.op = "addAR" /\ Encodable(c.address) =>
       /\ n.regs = m.regs
       /\ n.mem = WriteMem(m.mem, Effective(c.address, m.regs),
                           ReadMem(m.mem, Effective(c.address, m.regs)) + m.regs[c.reg])
  /\ c.op = "addRI" /\ c.reg # TMP =>
       /\ n.regs[c.reg] = m.regs[c.reg] + c.imm
       /\ \A r \in Registers \ {TMP, c.reg} : n.regs[r] = m.regs[r]
       /\ n.mem = m.mem
  /\ c.op = "addAI" /\ Encodable(c.address) /\ ~Uses(c.address, TMP) =>
       /\ n.mem = WriteMem(m.mem, Effective(c.address, m.regs),
                           ReadMem(m.mem, Effective(c.address, m.regs)) + c.imm)
       /\ \A r \in Registers \ {TMP} : n.regs[r] = m.regs[r]
  /\ c.op = "movRI" => n.regs = [m.regs EXCEPT ![c.reg] = c.imm] /\ n.mem = m.mem
  /\ c.op = "ret" => n.regs = m.regs /\ n.mem = m.mem

(* The code of a call is run in step with its emission, whatever the call, *)
(* and has its effect.                                                     *)
Meant(c, buffer, m, n) ==
  /\ n \in Machines
  /\ n.at = Len(buffer \o Encode(c)) + 1
  /\ n.returned <=> c.op = "ret"
  /\ Effect(c, m, n)

LEMMA AddRegisterMeant ==
  ASSUME NEW c \in CallType, c.op = "addRR", NEW buffer \in Seq(ItemType),
         NEW m \in Machines, ~m.returned, m.at = Len(buffer) + 1
  PROVE  Meant(c, buffer, m, Run(buffer \o Encode(c), m))
<1>1. c.reg \in Registers /\ c.src \in Registers /\ Encode(c) = AddRegister(c.reg, c.src)
  BY CallParts, EncodeCases
<1>2. PICK s : s = AddRegister(c.reg, c.src)
  OBVIOUS
<1>3. s \in Seq(ItemType) /\ Len(s) = 3 /\ Len(s) > 0
  <2>1. s \in Seq(ItemType) /\ Len(s) = 3
    BY <1>1, <1>2, CodeLengths, Zenon
  <2>. QED
    BY <2>1
<1>4. PICK code : code = buffer \o s
  OBVIOUS
<1>5. Stands(code, m.at, s)
  BY <1>3, <1>4, StandsAfter
<1>6. PICK n : n = Execute(code, m)
  OBVIOUS
<1>7. /\ n = [at |-> m.at + 3, regs |-> [m.regs EXCEPT ![c.reg] = m.regs[c.reg] + m.regs[c.src]],
              mem |-> m.mem, returned |-> m.returned]
      /\ n \in Machines
  <2>1. Stands(code, m.at, AddRegister(c.reg, c.src))
    BY <1>2, <1>5
  <2>2. /\ Execute(code, m) =
             [at |-> m.at + 3, regs |-> [m.regs EXCEPT ![c.reg] = m.regs[c.reg] + m.regs[c.src]],
              mem |-> m.mem, returned |-> m.returned]
        /\ Execute(code, m) \in Machines
    BY <1>1, <2>1, ExecuteAddRegister, Zenon
  <2>. QED
    BY <1>6, <2>2, Zenon
<1>8. /\ n.at = m.at + Len(s) /\ ~n.returned /\ n.mem = m.mem
      /\ n.regs = [m.regs EXCEPT ![c.reg] = m.regs[c.reg] + m.regs[c.src]]
  BY <1>3, <1>7
<1>9. Run(code, m) = n /\ n.at = Len(code) + 1
  <2>1. Run(buffer \o s, m) = n /\ n.at = Len(buffer \o s) + 1
    BY <1>3, <1>4, <1>6, <1>7, <1>8, RunOne, Zenon
  <2>. QED
    BY <1>4, <2>1
<1>10. Effect(c, m, n)
  BY <1>8 DEF Effect
<1>. QED
  BY <1>1, <1>2, <1>4, <1>7, <1>8, <1>9, <1>10 DEF Meant

LEMMA MoveMeant ==
  ASSUME NEW c \in CallType, c.op = "movRI", NEW buffer \in Seq(ItemType),
         NEW m \in Machines, ~m.returned, m.at = Len(buffer) + 1
  PROVE  Meant(c, buffer, m, Run(buffer \o Encode(c), m))
<1>1. c.reg \in Registers /\ c.imm \in Int /\ Encode(c) = MoveImmediate(c.reg, c.imm)
  BY CallParts, EncodeCases
<1>2. PICK s : s = MoveImmediate(c.reg, c.imm)
  OBVIOUS
<1>3. s \in Seq(ItemType) /\ Len(s) = 3 /\ Len(s) > 0
  <2>1. s \in Seq(ItemType) /\ Len(s) = 3
    BY <1>1, <1>2, CodeLengths, Zenon
  <2>. QED
    BY <2>1
<1>4. PICK code : code = buffer \o s
  OBVIOUS
<1>5. Stands(code, m.at, s)
  BY <1>3, <1>4, StandsAfter
<1>6. PICK n : n = Execute(code, m)
  OBVIOUS
<1>7. /\ n = [at |-> m.at + 3, regs |-> [m.regs EXCEPT ![c.reg] = c.imm],
              mem |-> m.mem, returned |-> m.returned]
      /\ n \in Machines
  BY <1>1, <1>2, <1>5, <1>6, ExecuteMove
<1>8. /\ n.at = m.at + Len(s) /\ ~n.returned /\ n.mem = m.mem
      /\ n.regs = [m.regs EXCEPT ![c.reg] = c.imm]
  BY <1>3, <1>7
<1>9. Run(code, m) = n /\ n.at = Len(code) + 1
  <2>1. Run(buffer \o s, m) = n /\ n.at = Len(buffer \o s) + 1
    BY <1>3, <1>4, <1>6, <1>7, <1>8, RunOne, Zenon
  <2>. QED
    BY <1>4, <2>1
<1>10. Effect(c, m, n)
  BY <1>8 DEF Effect
<1>. QED
  BY <1>1, <1>2, <1>4, <1>7, <1>8, <1>9, <1>10 DEF Meant

LEMMA ReturnMeant ==
  ASSUME NEW c \in CallType, c.op = "ret", NEW buffer \in Seq(ItemType),
         NEW m \in Machines, ~m.returned, m.at = Len(buffer) + 1
  PROVE  Meant(c, buffer, m, Run(buffer \o Encode(c), m))
<1>1. Encode(c) = <<Byte(195)>> /\ Encode(c) \in Seq(ItemType)
  BY EncodeCases, EncodeTyped
<1>2. PICK s : s = <<Byte(195)>>
  OBVIOUS
<1>3. s \in Seq(ItemType) /\ Len(s) = 1 /\ Len(s) > 0
  BY <1>1, <1>2
<1>4. PICK code : code = buffer \o s
  OBVIOUS
<1>5. Stands(code, m.at, s)
  BY <1>3, <1>4, StandsAfter
<1>6. PICK n : n = Execute(code, m)
  OBVIOUS
<1>7. /\ n = [at |-> m.at + 1, regs |-> m.regs, mem |-> m.mem, returned |-> TRUE]
      /\ n \in Machines
  BY <1>2, <1>5, <1>6, ExecuteReturn
<1>8. n.at = m.at + Len(s) /\ n.returned /\ n.mem = m.mem /\ n.regs = m.regs
  BY <1>3, <1>7
<1>9. Run(code, m) = n /\ n.at = Len(code) + 1
  <2>1. Run(buffer \o s, m) = n /\ n.at = Len(buffer \o s) + 1
    BY <1>3, <1>4, <1>6, <1>7, <1>8, RunOne, Zenon
  <2>. QED
    BY <1>4, <2>1
<1>10. Effect(c, m, n)
  BY <1>8 DEF Effect
<1>. QED
  BY <1>1, <1>2, <1>4, <1>7, <1>8, <1>9, <1>10 DEF Meant

(* addq to a register of what is in memory, and of a register to memory.   *)
LEMMA AddMemoryMeant ==
  ASSUME NEW c \in CallType, c.op = "addRA", NEW buffer \in Seq(ItemType),
         NEW m \in Machines, ~m.returned, m.at = Len(buffer) + 1
  PROVE  Meant(c, buffer, m, Run(buffer \o Encode(c), m))
<1>1. /\ c.reg \in Registers /\ c.address \in AddressType
      /\ Encode(c) = WithOperand(3, c.reg, Address(c.address))
  BY CallParts, EncodeCases
<1>2. PICK a \in AddressType : a = c.address
  BY <1>1
<1>3. PICK f \in FormType : IsFormOf(f, a)
  BY AddressHasForm
<1>4. PICK s : s = WithOperand(3, c.reg, Address(a))
  OBVIOUS
<1>5. FormCode(s, f, 3, c.reg, a.disp)
  <2>1. 3 \in 0 .. 255
    OBVIOUS
  <2>. QED
    BY <1>1, <1>3, <1>4, <2>1, WithAddress
<1>6. s \in Seq(ItemType) /\ Len(s) > 0 /\ a.disp \in Int /\ (~HasSIB(f) => f.rm = f.base % 8)
  BY <1>3, <1>5 DEF FormCode, AddressType, IsFormOf
<1>7. PICK code : code = buffer \o s
  OBVIOUS
<1>8. Stands(code, m.at, s)
  BY <1>6, <1>7, StandsAfter
<1>9. PICK n : n = Execute(code, m)
  OBVIOUS
<1>10. PICK place : place = FormPlace(f, m.regs, a.disp)
  OBVIOUS
<1>11. /\ n = [at |-> m.at + Len(s),
               regs |-> [m.regs EXCEPT ![c.reg] = m.regs[c.reg] + ReadMem(m.mem, place)],
               mem |-> m.mem, returned |-> m.returned]
       /\ n \in Machines
  <2>1. /\ Execute(code, m) =
             [at |-> m.at + Len(s),
              regs |-> [m.regs EXCEPT
                         ![c.reg] = m.regs[c.reg] + ReadMem(m.mem, FormPlace(f, m.regs, a.disp))],
              mem |-> m.mem, returned |-> m.returned]
        /\ Execute(code, m) \in Machines
    BY <1>1, <1>5, <1>6, <1>8, ExecuteAddMemory
  <2>. QED
    BY <1>9, <1>10, <2>1, Zenon
<1>12. /\ n.at = m.at + Len(s) /\ ~n.returned /\ n.mem = m.mem
       /\ n.regs = [m.regs EXCEPT ![c.reg] = m.regs[c.reg] + ReadMem(m.mem, place)]
  BY <1>11
<1>13. Run(code, m) = n /\ n.at = Len(code) + 1
  <2>1. Run(buffer \o s, m) = n /\ n.at = Len(buffer \o s) + 1
    BY <1>6, <1>7, <1>9, <1>11, <1>12, RunOne, Zenon
  <2>. QED
    BY <1>7, <2>1
<1>14. Encodable(c.address) => place = Effective(c.address, m.regs)
  BY <1>2, <1>3, <1>10, PlaceIsEffective, Zenon
<1>15. Effect(c, m, n)
  BY <1>12, <1>14 DEF Effect
<1>. QED
  BY <1>1, <1>2, <1>4, <1>7, <1>11, <1>12, <1>13, <1>15 DEF Meant

LEMMA AddToMemoryMeant ==
  ASSUME NEW c \in CallType, c.op = "addAR", NEW buffer \in Seq(ItemType),
         NEW m \in Machines, ~m.returned, m.at = Len(buffer) + 1
  PROVE  Meant(c, buffer, m, Run(buffer \o Encode(c), m))
<1>1. /\ c.reg \in Registers /\ c.address \in AddressType
      /\ Encode(c) = WithOperand(1, c.reg, Address(c.address))
  BY CallParts, EncodeCases
<1>2. PICK a \in AddressType : a = c.address
  BY <1>1
<1>3. PICK f \in FormType : IsFormOf(f, a)
  BY AddressHasForm
<1>4. PICK s : s = WithOperand(1, c.reg, Address(a))
  OBVIOUS
<1>5. FormCode(s, f, 1, c.reg, a.disp)
  <2>1. 1 \in 0 .. 255
    OBVIOUS
  <2>. QED
    BY <1>1, <1>3, <1>4, <2>1, WithAddress
<1>6. s \in Seq(ItemType) /\ Len(s) > 0 /\ a.disp \in Int /\ (~HasSIB(f) => f.rm = f.base % 8)
  BY <1>3, <1>5 DEF FormCode, AddressType, IsFormOf
<1>7. PICK code : code = buffer \o s
  OBVIOUS
<1>8. Stands(code, m.at, s)
  BY <1>6, <1>7, StandsAfter
<1>9. PICK n : n = Execute(code, m)
  OBVIOUS
<1>10. PICK place : place = FormPlace(f, m.regs, a.disp)
  OBVIOUS
<1>11. m.regs \in [Registers -> Int] /\ m.mem \in Memories
  BY DEF Machines
<1>12. place \in Int
  BY <1>6, <1>10, <1>11, PlaceTyped
<1>13. ReadMem(m.mem, place) \in Int
  BY <1>11, <1>12, WriteTyped
<1>14. m.regs[c.reg] + ReadMem(m.mem, place) = ReadMem(m.mem, place) + m.regs[c.reg]
  BY <1>1, <1>11, <1>13
<1>15. /\ n = [at |-> m.at + Len(s), regs |-> m.regs,
               mem |-> WriteMem(m.mem, place, m.regs[c.reg] + ReadMem(m.mem, place)),
               returned |-> m.returned]
       /\ n \in Machines
  <2>1. /\ Execute(code, m) =
             [at |-> m.at + Len(s), regs |-> m.regs,
              mem |-> WriteMem(m.mem, FormPlace(f, m.regs, a.disp),
                               m.regs[c.reg] + ReadMem(m.mem, FormPlace(f, m.regs, a.disp))),
              returned |-> m.returned]
        /\ Execute(code, m) \in Machines
    BY <1>1, <1>5, <1>6, <1>8, ExecuteAddToMemory
  <2>. QED
    BY <1>9, <1>10, <2>1, Zenon
<1>16. /\ n.at = m.at + Len(s) /\ ~n.returned /\ n.regs = m.regs
       /\ n.mem = WriteMem(m.mem, place, ReadMem(m.mem, place) + m.regs[c.reg])
  BY <1>14, <1>15
<1>17. Run(code, m) = n /\ n.at = Len(code) + 1
  <2>1. Run(buffer \o s, m) = n /\ n.at = Len(buffer \o s) + 1
    BY <1>6, <1>7, <1>9, <1>15, <1>16, RunOne, Zenon
  <2>. QED
    BY <1>7, <2>1
<1>18. Encodable(c.address) => place = Effective(c.address, m.regs)
  BY <1>2, <1>3, <1>10, PlaceIsEffective, Zenon
<1>19. Effect(c, m, n)
  BY <1>16, <1>18 DEF Effect
<1>. QED
  BY <1>1, <1>2, <1>4, <1>7, <1>15, <1>16, <1>17, <1>19 DEF Meant

(* addq of an immediate to a register, by way of TMP. *)
LEMMA AddImmediateMeant ==
  ASSUME NEW c \in CallType, c.op = "addRI", NEW buffer \in Seq(ItemType),
         NEW m \in Machines, ~m.returned, m.at = Len(buffer) + 1
  PROVE  Meant(c, buffer, m, Run(buffer \o Encode(c), m))
<1>1. /\ c.reg \in Registers /\ c.imm \in Int /\ TMP \in Registers
      /\ Encode(c) = MoveImmediate(TMP, c.imm) \o AddRegister(c.reg, TMP)
  BY CallParts, EncodeCases DEF TMP, Registers
<1>2. PICK s : s = MoveImmediate(TMP, c.imm)
  OBVIOUS
<1>3. PICK t : t = AddRegister(c.reg, TMP)
  OBVIOUS
<1>4. s \in Seq(ItemType) /\ Len(s) = 3 /\ t \in Seq(ItemType) /\ Len(t) = 3
  BY <1>1, <1>2, <1>3, CodeLengths, Zenon
<1>5. s \o t \in Seq(ItemType) /\ m.at \in Nat /\ Len(s) > 0 /\ Len(t) > 0
  BY <1>4, ConcatProperties DEF Machines
<1>6. PICK code : code = buffer \o (s \o t)
  OBVIOUS
<1>7. Stands(code, m.at, s) /\ Stands(code, m.at + 3, t)
  <2>1. Stands(code, m.at, s \o t)
    BY <1>5, <1>6, StandsAfter
  <2>. QED
    BY <1>4, <1>5, <2>1, StandsParts
<1>8. PICK n : n = Execute(code, m)
  OBVIOUS
<1>9. /\ n = [at |-> m.at + 3, regs |-> [m.regs EXCEPT ![TMP] = c.imm],
              mem |-> m.mem, returned |-> m.returned]
      /\ n \in Machines
  BY <1>1, <1>2, <1>7, <1>8, ExecuteMove
<1>10. /\ n.at = m.at + Len(s) /\ n.at = m.at + 3 /\ ~n.returned /\ n.mem = m.mem
       /\ n.regs = [m.regs EXCEPT ![TMP] = c.imm]
  BY <1>4, <1>9
<1>11. PICK k : k = Execute(code, n)
  OBVIOUS
<1>12. /\ k = [at |-> n.at + 3, regs |-> [n.regs EXCEPT ![c.reg] = n.regs[c.reg] + n.regs[TMP]],
               mem |-> n.mem, returned |-> n.returned]
       /\ k \in Machines
  <2>1. Stands(code, n.at, AddRegister(c.reg, TMP))
    BY <1>3, <1>7, <1>10
  <2>2. /\ Execute(code, n) =
             [at |-> n.at + 3, regs |-> [n.regs EXCEPT ![c.reg] = n.regs[c.reg] + n.regs[TMP]],
              mem |-> n.mem, returned |-> n.returned]
        /\ Execute(code, n) \in Machines
    <3>1. n \in Machines /\ c.reg \in Registers /\ TMP \in Registers
      BY <1>1, <1>9
    <3>. QED
      BY <2>1, <3>1, ExecuteAddRegister
  <2>. QED
    BY <1>11, <2>2, Zenon
<1>13. /\ k.at = n.at + Len(t) /\ ~k.returned /\ k.mem = m.mem
       /\ k.regs = [n.regs EXCEPT ![c.reg] = n.regs[c.reg] + n.regs[TMP]]
  BY <1>4, <1>10, <1>12
<1>14. Run(code, m) = k /\ k.at = Len(code) + 1
  <2>1. Len(code) = Len(buffer) + 3 + 3 /\ Len(buffer) \in Nat
    <3>1. Len(code) = Len(buffer) + Len(s) + Len(t) /\ Len(buffer) \in Nat
      BY <1>4, <1>6, TwoLengths, Zenon
    <3>. QED
      BY <1>4, <3>1
  <2>2. ~(m.at > Len(code)) /\ ~(n.at > Len(code)) /\ k.at = Len(code) + 1
    BY <1>4, <1>10, <1>13, <2>1
  <2>. QED
    BY <1>8, <1>10, <1>11, <2>2, RunTwo, Zenon
<1>15. c.reg # TMP =>
         /\ k.regs[c.reg] = m.regs[c.reg] + c.imm
         /\ \A r \in Registers \ {TMP, c.reg} : k.regs[r] = m.regs[r]
  <2>1. m.regs \in [Registers -> Int]
    BY DEF Machines
  <2>. QED
    BY <1>1, <1>10, <1>13, <2>1
<1>16. Effect(c, m, k)
  BY <1>13, <1>15 DEF Effect
<1>. QED
  BY <1>1, <1>2, <1>3, <1>6, <1>12, <1>13, <1>14, <1>16 DEF Meant

(* addq of an immediate to memory, by way of TMP, which the address must   *)
(* not depend on.                                                          *)
LEMMA AddImmediateToMemoryMeant ==
  ASSUME NEW c \in CallType, c.op = "addAI", NEW buffer \in Seq(ItemType),
         NEW m \in Machines, ~m.returned, m.at = Len(buffer) + 1
  PROVE  Meant(c, buffer, m, Run(buffer \o Encode(c), m))
<1>1. /\ c.address \in AddressType /\ c.imm \in Int /\ TMP \in Registers
      /\ Encode(c) = MoveImmediate(TMP, c.imm) \o WithOperand(1, TMP, Address(c.address))
  BY CallParts, EncodeCases DEF TMP, Registers
<1>2. PICK a \in AddressType : a = c.address
  BY <1>1
<1>3. PICK f \in FormType : IsFormOf(f, a)
  BY AddressHasForm
<1>4. PICK s : s = MoveImmediate(TMP, c.imm)
  OBVIOUS
<1>5. PICK t : t = WithOperand(1, TMP, Address(a))
  OBVIOUS
<1>6. FormCode(t, f, 1, TMP, a.disp)
  <2>1. 1 \in 0 .. 255
    OBVIOUS
  <2>. QED
    BY <1>1, <1>3, <1>5, <2>1, WithAddress
<1>7. t \in Seq(ItemType) /\ Len(t) > 0 /\ a.disp \in Int /\ (~HasSIB(f) => f.rm = f.base % 8)
  BY <1>3, <1>6 DEF FormCode, AddressType, IsFormOf
<1>8. s \in Seq(ItemType) /\ Len(s) = 3
  BY <1>1, <1>4, CodeLengths, Zenon
<1>9. s \o t \in Seq(ItemType) /\ m.at \in Nat
  BY <1>7, <1>8, ConcatProperties DEF Machines
<1>10. PICK code : code = buffer \o (s \o t)
  OBVIOUS
<1>11. Stands(code, m.at, s) /\ Stands(code, m.at + 3, t)
  <2>1. Stands(code, m.at, s \o t)
    BY <1>9, <1>10, StandsAfter
  <2>. QED
    BY <1>7, <1>8, <1>9, <2>1, StandsParts
<1>12. PICK n : n = Execute(code, m)
  OBVIOUS
<1>13. /\ n = [at |-> m.at + 3, regs |-> [m.regs EXCEPT ![TMP] = c.imm],
               mem |-> m.mem, returned |-> m.returned]
       /\ n \in Machines
  BY <1>1, <1>4, <1>11, <1>12, ExecuteMove
<1>14. /\ n.at = m.at + 3 /\ ~n.returned /\ n.mem = m.mem
       /\ n.regs = [m.regs EXCEPT ![TMP] = c.imm]
  BY <1>13
<1>15. PICK k : k = Execute(code, n)
  OBVIOUS
<1>16. PICK place : place = FormPlace(f, n.regs, a.disp)
  OBVIOUS
<1>17. /\ k = [at |-> n.at + Len(t), regs |-> n.regs,
               mem |-> WriteMem(n.mem, place, n.regs[TMP] + ReadMem(n.mem, place)),
               returned |-> n.returned]
       /\ k \in Machines
  <2>1. Stands(code, n.at, t)
    BY <1>11, <1>14
  <2>2. /\ Execute(code, n) =
             [at |-> n.at + Len(t), regs |-> n.regs,
              mem |-> WriteMem(n.mem, FormPlace(f, n.regs, a.disp),
                               n.regs[TMP] + ReadMem(n.mem, FormPlace(f, n.regs, a.disp))),
              returned |-> n.returned]
        /\ Execute(code, n) \in Machines
    <3>1. n \in Machines /\ TMP \in Registers
      BY <1>1, <1>13
    <3>. QED
      BY <1>6, <1>7, <2>1, <3>1, ExecuteAddToMemory
  <2>. QED
    BY <1>15, <1>16, <2>2, Zenon
<1>18. /\ k.at = n.at + Len(t) /\ ~k.returned /\ k.regs = [m.regs EXCEPT ![TMP] = c.imm]
       /\ k.mem = WriteMem(m.mem, place, n.regs[TMP] + ReadMem(m.mem, place))
  BY <1>14, <1>17
<1>19. Run(code, m) = k /\ k.at = Len(code) + 1
  <2>1. Len(code) = Len(buffer) + 3 + Len(t) /\ Len(buffer) \in Nat /\ Len(t) \in Nat
    <3>1. Len(code) = Len(buffer) + Len(s) + Len(t) /\ Len(buffer) \in Nat /\ Len(t) \in Nat
      BY <1>7, <1>8, <1>10, TwoLengths, Zenon
    <3>. QED
      BY <1>8, <3>1
  <2>2. ~(m.at > Len(code)) /\ ~(n.at > Len(code)) /\ k.at = Len(code) + 1
    BY <1>7, <1>14, <1>18, <2>1
  <2>. QED
    BY <1>12, <1>14, <1>15, <2>2, RunTwo, Zenon
<1>20. m.regs \in [Registers -> Int] /\ n.regs \in [Registers -> Int] /\ m.mem \in Memories
  BY <1>13 DEF Machines
<1>21. n.regs[TMP] + ReadMem(m.mem, place) = ReadMem(m.mem, place) + c.imm
  <2>1. place \in Int
    BY <1>7, <1>16, <1>20, PlaceTyped
  <2>2. ReadMem(m.mem, place) \in Int
    BY <1>20, <2>1, WriteTyped
  <2>3. n.regs[TMP] = c.imm
    BY <1>1, <1>14, <1>20
  <2>. QED
    BY <1>1, <2>2, <2>3
<1>22. Encodable(c.address) /\ ~Uses(c.address, TMP) => place = Effective(c.address, m.regs)
  <2>. SUFFICES ASSUME Encodable(a), ~Uses(a, TMP) PROVE place = Effective(a, m.regs)
    BY <1>2
  <2>1. place = Effective(a, n.regs)
    BY <1>3, <1>16, PlaceIsEffective, Zenon
  <2>2. a.base # TMP /\ a.index # TMP
    BY DEF Uses
  <2>3. /\ a.base # None => n.regs[a.base] = m.regs[a.base]
        /\ a.index # None => n.regs[a.index] = m.regs[a.index]
    BY <1>14, <1>20, <2>2 DEF AddressType
  <2>. QED
    BY <2>1, <2>3, Zenon DEF Effective
<1>23. \A r \in Registers \ {TMP} : k.regs[r] = m.regs[r]
  BY <1>18, <1>20
<1>24. Effect(c, m, k)
  BY <1>18, <1>21, <1>22, <1>23 DEF Effect
<1>. QED
  BY <1>1, <1>2, <1>4, <1>5, <1>10, <1>17, <1>18, <1>19, <1>24 DEF Meant

(* Whatever is called, its code means what the call says. *)
LEMMA EveryCallMeant ==
  ASSUME NEW c \in CallType, NEW buffer \in Seq(ItemType),
         NEW m \in Machines, ~m.returned, m.at = Len(buffer) + 1
  PROVE  Meant(c, buffer, m, Run(buffer \o Encode(c), m))
<1>1. c.op \in {"addRR", "addRI", "addRA", "addAR", "addAI", "movRI", "ret"}
  BY CallParts
<1>2. CASE c.op = "addRR"
  BY <1>2, AddRegisterMeant
<1>3. CASE c.op = "addRI"
  BY <1>3, AddImmediateMeant
<1>4. CASE c.op = "addRA"
  BY <1>4, AddMemoryMeant
<1>5. CASE c.op = "addAR"
  BY <1>5, AddToMemoryMeant
<1>6. CASE c.op = "addAI"
  BY <1>6, AddImmediateToMemoryMeant
<1>7. CASE c.op = "movRI"
  BY <1>7, MoveMeant
<1>8. CASE c.op = "ret"
  BY <1>8, ReturnMeant
<1>. QED
  BY <1>1, <1>2, <1>3, <1>4, <1>5, <1>6, <1>7, <1>8

-----------------------------------------------------------------------------
(* The Assembler implements AddMachine *)

(* The processor has run all the code there is, or has returned from it.   *)
Synced ==
  /\ machine \in Machines
  /\ machine.returned \/ machine.at = Len(buffer_) + 1

Trusted == \A i \in DOMAIN calls : Promised(calls[i])

LEMMA InitSynced == RunInit => Synced
<1>. SUFFICES ASSUME RunInit PROVE Synced
  OBVIOUS
<1>1. machine = [at |-> 1, regs |-> InitialRegs, mem |-> NoMem, returned |-> FALSE]
  BY DEF RunInit
<1>2. InitialRegs \in [Registers -> Int]
  <2>1. ASSUME NEW r \in Registers PROVE 100 * 2 ^ r \in Int
    BY <2>1, SMT DEF Registers
  <2>. QED
    BY <2>1 DEF InitialRegs
<1>3. NoMem \in Memories
  <2>1. NoMem \in [{} -> Int] /\ {} \in SUBSET Int
    BY DEF NoMem
  <2>. QED
    BY <2>1 DEF Memories
<1>4. machine \in Machines
  BY <1>1, <1>2, <1>3 DEF Machines
<1>5. buffer_ = <<>> /\ machine.at = 1
  BY <1>1 DEF RunInit, Init
<1>. QED
  BY <1>4, <1>5 DEF Synced

(* A step of RunNext emits the code of a call, or leaves the code and the  *)
(* calls as they are.                                                      *)
LEMMA RunCases ==
  ASSUME Typed, [RunNext]_<<vars, machine>>
  PROVE  \/ UNCHANGED <<calls, buffer_, machine>>
         \/ /\ UNCHANGED <<calls, buffer_>>
            /\ machine' = Run(buffer_, machine)
         \/ \E c \in Calls :
              /\ calls' = Append(calls, c)
              /\ buffer_' = buffer_ \o Encode(c)
              /\ machine' = Run(buffer_', machine)
<1>1. CASE UNCHANGED <<vars, machine>>
  BY <1>1 DEF vars
<1>2. CASE RunNext
  <2>1. machine' = Run(buffer_', machine)
    BY <1>2 DEF RunNext, Run
  <2>2. \/ UNCHANGED <<calls, buffer_>>
        \/ \E c \in Calls : calls' = Append(calls, c) /\ buffer_' = buffer_ \o Encode(c)
    BY <1>2 DEF RunNext, Next, Assemble, MapRegion, MakeWritable, Copy, MakeExecutable, Protect,
                Ended, vars
  <2>. QED
    BY <2>1, <2>2, Zenon
<1>. QED
  BY <1>1, <1>2

(* A step that emits nothing leaves the machine as it is. *)
LEMMA IdleMachine ==
  ASSUME Typed, Synced
  PROVE  Run(buffer_, machine) = machine
<1>1. buffer_ \in Seq(ItemType) /\ machine \in Machines
      /\ (machine.returned \/ machine.at = Len(buffer_) + 1)
  BY DEF Typed, Synced
<1>. QED
  BY <1>1, RunNothing

(* What becomes of the machine when the call c is assembled. *)
LEMMA CallRuns ==
  ASSUME Typed, Synced, NEW c \in Calls,
         buffer_' = buffer_ \o Encode(c), machine' = Run(buffer_', machine)
  PROVE  /\ machine' \in Machines
         /\ machine'.returned \/ machine'.at = Len(buffer_') + 1
         /\ IF machine.returned THEN machine' = machine
            ELSE /\ machine'.returned <=> c.op = "ret"
                 /\ Effect(c, machine, machine')
<1>1. c \in CallType /\ buffer_ \in Seq(ItemType) /\ machine \in Machines
  BY CallsAssumption DEF Typed, Synced
<1>2. buffer_' \in Seq(ItemType)
  <2>1. Encode(c) \in Seq(ItemType)
    BY <1>1, EncodeTyped
  <2>. QED
    BY <1>1, <2>1, ConcatProperties
<1>3. CASE machine.returned
  <2>1. machine' = machine
    BY <1>1, <1>2, <1>3, RunNothing
  <2>. QED
    BY <1>1, <1>3, <2>1
<1>4. CASE ~machine.returned
  <2>1. machine.at = Len(buffer_) + 1
    BY <1>4 DEF Synced
  <2>2. Meant(c, buffer_, machine, Run(buffer_ \o Encode(c), machine))
    BY <1>1, <1>4, <2>1, EveryCallMeant
  <2>3. Meant(c, buffer_, machine, machine')
    BY <2>2
  <2>. QED
    BY <1>4, <2>3 DEF Meant
<1>. QED
  BY <1>3, <1>4

LEMMA NextSynced == Typed /\ Synced /\ [RunNext]_<<vars, machine>> => Synced'
<1>. SUFFICES ASSUME Typed, Synced, [RunNext]_<<vars, machine>> PROVE Synced'
  OBVIOUS
<1>1. CASE UNCHANGED <<calls, buffer_, machine>>
  BY <1>1 DEF Synced
<1>2. CASE UNCHANGED <<calls, buffer_>> /\ machine' = Run(buffer_, machine)
  <2>1. machine' = machine
    BY <1>2, IdleMachine
  <2>. QED
    BY <1>2, <2>1 DEF Synced
<1>3. ASSUME NEW c \in Calls, buffer_' = buffer_ \o Encode(c), machine' = Run(buffer_', machine)
      PROVE  Synced'
  BY <1>3, CallRuns DEF Synced
<1>. QED
  BY <1>1, <1>2, <1>3, RunCases

LEMMA SyncedHolds == RunSpec => [](Typed /\ Synced)
<1>1. Typed /\ Synced /\ [RunNext]_<<vars, machine>> => Synced'
  BY NextSynced
<1>. QED
  BY <1>1, InitSynced, TypedHolds, PTL DEF RunSpec

(* The effect of a call on the processor is what AddMachine says it does.  *)
LEMMA EffectIsDoes ==
  ASSUME Synced, NEW c \in CallType, Promised(c), Effect(c, machine, machine')
  PROVE  Machine!Does(c)
<1>1. c.op \in {"addRR", "addRI", "addRA", "addAR", "addAI", "movRI", "ret"}
  BY CallParts
<1>2. \A a : Machine!EffectiveAddress(a) = Effective(a, machine.regs)
  BY SameOperators, Zenon DEF Machine!EffectiveAddress, Effective
<1>3. \A a : Machine!Content(a) = ReadMem(machine.mem, Effective(a, machine.regs))
  BY <1>2, SameOperators, Zenon DEF Machine!Content
<1>4. \A a, v : Machine!Writes(a, v)
                  <=> machine'.mem = WriteMem(machine.mem, Effective(a, machine.regs), v)
  BY <1>2, SameOperators, Zenon DEF Machine!Writes
<1>5. \A r, v : Machine!Sets(r, v)
                  <=> machine'.regs = [machine.regs EXCEPT ![r] = v] /\ machine'.mem = machine.mem
  BY Zenon DEF Machine!Sets
<1>6. CASE c.op = "addRR"
  <2>1. Machine!Sets(c.reg, machine.regs[c.reg] + machine.regs[c.src])
    BY <1>5, <1>6 DEF Effect
  <2>. QED
    BY <1>6, <2>1 DEF Machine!Does
<1>7. CASE c.op = "addRA"
  <2>1. Encodable(c.address)
    BY <1>7 DEF Promised
  <2>2. Machine!Sets(c.reg, machine.regs[c.reg] + Machine!Content(c.address))
    BY <1>3, <1>5, <1>7, <2>1 DEF Effect
  <2>. QED
    BY <1>7, <2>2 DEF Machine!Does
<1>8. CASE c.op = "addAR"
  <2>1. Encodable(c.address)
    BY <1>8 DEF Promised
  <2>2. /\ Machine!Writes(c.address, Machine!Content(c.address) + machine.regs[c.reg])
        /\ machine'.regs = machine.regs
    BY <1>3, <1>4, <1>8, <2>1 DEF Effect
  <2>. QED
    BY <1>8, <2>2 DEF Machine!Does
<1>9. CASE c.op = "addRI"
  <2>1. c.reg # TMP
    BY <1>9 DEF Promised
  <2>2. /\ machine'.regs[c.reg] = machine.regs[c.reg] + c.imm
        /\ \A r \in Machine!Registers \ {Machine!TMP, c.reg} : machine'.regs[r] = machine.regs[r]
        /\ machine'.mem = machine.mem
    BY <1>9, <2>1, SameOperators DEF Effect
  <2>. QED
    BY <1>9, <2>2 DEF Machine!Does
<1>10. CASE c.op = "addAI"
  <2>1. Encodable(c.address) /\ ~Uses(c.address, TMP)
    BY <1>10 DEF Promised
  <2>2. /\ Machine!Writes(c.address, Machine!Content(c.address) + c.imm)
        /\ \A r \in Machine!Registers \ {Machine!TMP} : machine'.regs[r] = machine.regs[r]
    BY <1>3, <1>4, <1>10, <2>1, SameOperators DEF Effect
  <2>. QED
    BY <1>10, <2>2 DEF Machine!Does
<1>11. CASE c.op = "movRI"
  <2>1. Machine!Sets(c.reg, c.imm)
    BY <1>5, <1>11 DEF Effect
  <2>. QED
    BY <1>11, <2>1 DEF Machine!Does
<1>12. CASE c.op = "ret"
  <2>1. machine'.regs = machine.regs /\ machine'.mem = machine.mem
    BY <1>12 DEF Effect
  <2>. QED
    BY <1>12, <2>1 DEF Machine!Does
<1>. QED
  BY <1>1, <1>6, <1>7, <1>8, <1>9, <1>10, <1>11, <1>12

LEMMA TrustedNext ==
  ASSUME Typed, NEW c \in Calls, calls' = Append(calls, c)
  PROVE  Trusted' <=> Trusted /\ Promised(c)
<1>1. PICK n \in Nat : n = Len(calls)
  BY DEF Typed
<1>2. DOMAIN calls = 1 .. n /\ DOMAIN calls' = 1 .. n + 1
      /\ calls'[n + 1] = c /\ \A i \in 1 .. n : calls'[i] = calls[i]
  BY <1>1 DEF Typed
<1>3. 1 .. n + 1 = (1 .. n) \cup {n + 1}
  OBVIOUS
<1>4. Trusted' <=> \A i \in (1 .. n) \cup {n + 1} : Promised(calls'[i])
  BY <1>2, <1>3, Zenon DEF Trusted
<1>. QED
  BY <1>2, <1>4, Zenon DEF Trusted

LEMMA CallRefines ==
  ASSUME Typed, Synced, NEW c \in Calls, calls' = Append(calls, c),
         buffer_' = buffer_ \o Encode(c), machine' = Run(buffer_', machine)
  PROVE  Machine!Call(c)
<1>1. c \in CallType
  BY CallsAssumption
<1>2. Trusted' <=> Trusted /\ Machine!Promised(c)
  BY TrustedNext, SameOperators, Zenon
<1>3. Trusted \in BOOLEAN /\ Trusted' \in BOOLEAN
  BY DEF Trusted
<1>4. Trusted' = (Trusted /\ Machine!Promised(c))
  BY <1>2, <1>3
<1>5. Trusted' => Promised(c)
  BY TrustedNext, Zenon
<1>6. /\ machine' \in Machines
      /\ IF machine.returned THEN machine' = machine
         ELSE /\ machine'.returned <=> c.op = "ret"
              /\ Effect(c, machine, machine')
  BY CallRuns
<1>7. machine.returned \in BOOLEAN /\ machine'.returned \in BOOLEAN
  BY <1>6 DEF Synced, Machines
<1>8. Trusted' => IF machine.returned
                  THEN machine'.regs = machine.regs /\ machine'.mem = machine.mem
                  ELSE Machine!Does(c)
  BY <1>1, <1>5, <1>6, EffectIsDoes
<1>9. machine'.returned = (machine.returned \/ c.op = "ret")
  BY <1>6, <1>7
<1>. QED
  BY <1>4, <1>8, <1>9, Zenon DEF Machine!Call, Trusted

(* Every step is a call of AddMachine or leaves what it promises as it is. *)
LEMMA NextRefines == Typed /\ Synced /\ [RunNext]_<<vars, machine>> => [Machine!Next]_Machine!vars
<1>. SUFFICES ASSUME Typed, Synced, [RunNext]_<<vars, machine>>
              PROVE  [Machine!Next]_Machine!vars
  OBVIOUS
<1>1. CASE UNCHANGED <<calls, buffer_, machine>>
  BY <1>1 DEF Machine!vars
<1>2. CASE UNCHANGED <<calls, buffer_>> /\ machine' = Run(buffer_, machine)
  <2>1. machine' = machine
    BY <1>2, IdleMachine
  <2>. QED
    BY <1>2, <2>1 DEF Machine!vars
<1>3. ASSUME NEW c \in Calls, calls' = Append(calls, c),
             buffer_' = buffer_ \o Encode(c), machine' = Run(buffer_', machine)
      PROVE  Machine!Next
  <2>1. Machine!Call(c)
    BY <1>3, CallRefines
  <2>2. calls' # <<>> /\ Machine!Last(calls') = c
    BY <1>3 DEF Typed, Machine!Last
  <2>. QED
    BY <2>1, <2>2 DEF Machine!Next
<1>. QED
  BY <1>1, <1>2, <1>3, RunCases

LEMMA InitRefines == RunInit => Machine!Init
<1>. SUFFICES ASSUME RunInit PROVE Machine!Init
  OBVIOUS
<1>1. machine.regs = InitialRegs /\ machine.mem = NoMem /\ machine.returned = FALSE
  BY DEF RunInit
<1>2. calls = <<>> /\ DOMAIN calls = {}
  BY DEF RunInit, Init
<1>3. Trusted
  BY <1>2 DEF Trusted
<1>4. (\A i \in DOMAIN calls : Promised(calls[i])) = TRUE
  BY <1>3 DEF Trusted
<1>. QED
  BY <1>1, <1>2, <1>4, SameOperators, Zenon DEF Machine!Init

(* The Assembler implements AddMachine: whatever is called in whatever     *)
(* order, with whatever registers, addresses and immediates, a processor   *)
(* that decodes the bytes by the rules of x86-64 does what the calls say,  *)
(* as long as none of them was outside the promise.                        *)
THEOREM CodeMeansCalls == RunSpec => ImplementsAddMachine
<1>1. Typed /\ Synced /\ [RunNext]_<<vars, machine>> => [Machine!Next]_Machine!vars
  BY NextRefines
<1>2. RunSpec => Machine!Spec
  BY <1>1, InitRefines, SyncedHolds, PTL DEF RunSpec, Machine!Spec
<1>. QED
  BY <1>2 DEF ImplementsAddMachine
=============================================================================
