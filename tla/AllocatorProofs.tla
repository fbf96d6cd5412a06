--------------------------- MODULE AllocatorProofs ---------------------------
(***************************************************************************)
(* Theorems about Allocator, for every heap size, limit and set of classes.*)
(***************************************************************************)
EXTENDS Allocator, SequenceTheorems, NaturalsInduction, WellFoundedInduction, TLAPS

ClassType == [instance : FieldCounts, static : FieldCounts]
PageType  == [size : Nat, type : ClassType, ptr : Nat]

(* How the pages lie in Eden: each has the size its class asks for and     *)
(* ends at or below current_, and a later one starts above an earlier one  *)
(* with room for its own chunk's headers.                                  *)
PagesInOrder ==
  /\ \A i \in DOMAIN pages_ :
       /\ pages_[i].size = GetAllocationSize(pages_[i].type)
       /\ pages_[i].ptr >= PageHeader + SizeWord
       /\ pages_[i].ptr + pages_[i].size <= current_
  /\ \A i, j \in DOMAIN pages_ :
       i < j => pages_[i].ptr + pages_[i].size + PageHeader + SizeWord <= pages_[j].ptr

(* The inductive invariant. *)
Inv ==
  /\ TypeOK
  /\ pages_ \in Seq(PageType)
  /\ "length" \in DOMAIN array
  /\ PagesInOrder
  /\ status # "Corrupted" => current_ <= HeapSize

LEMMA InitInv == Init => Inv
<1>. SUFFICES ASSUME Init PROVE Inv
  OBVIOUS
<1>1. current_ \in Nat /\ memory \in [0 .. HeapSize - 1 -> Nat]
  BY SizesAssumption DEF Init
<1>2. pages_ = <<>> /\ array.length = 0 /\ "length" \in DOMAIN array
  BY DEF Init, NewArray
<1>. QED
  BY <1>1, <1>2, SizesAssumption DEF Init, Inv, TypeOK, PagesInOrder

(* Enlarging the record array counts one more and keeps it a record. *)
LEMMA AddCounts ==
  ASSUME "length" \in DOMAIN array, array.length \in Nat
  PROVE  Add(array).length = array.length + 1 /\ "length" \in DOMAIN Add(array)
BY DEF Add, Resize

(* The fields of one page. *)
LEMMA PageFacts ==
  ASSUME NEW seq \in Seq(PageType), NEW i \in 1 .. Len(seq)
  PROVE  /\ seq[i].ptr \in Nat
         /\ seq[i].size \in Nat
         /\ seq[i].type.instance \in Nat
<1>1. seq[i] \in PageType
  OBVIOUS
<1>. QED
  BY <1>1, SizesAssumption DEF PageType, ClassType

LEMMA NewMinorInv ==
  ASSUME Inv, NEW cls \in ClassType, NewMinor(cls)
  PROVE  Inv'
<1>. DEFINE size == GetAllocationSize(cls)
            page == [size |-> size, type |-> cls, ptr |-> current_ + SizeWord + PageHeader]
            n == Len(pages_)
<1>1. size \in Nat
  BY SizesAssumption DEF ClassType, GetAllocationSize, InstanceSize
<1>2. /\ current_ \in Nat
      /\ current_' = current_ + size + PageHeader + SizeWord
      /\ current_' \in Nat
  BY <1>1 DEF NewMinor, HeapAlloc, Inv, TypeOK, PageHeader, SizeWord
<1>3. page \in PageType
  BY <1>1, <1>2 DEF PageType, SizeWord, PageHeader
<1>4. pages_' = Append(pages_, page)
  BY DEF NewMinor
<1>5. /\ pages_ \in Seq(PageType) /\ pages_' \in Seq(PageType)
      /\ n \in Nat /\ Len(pages_') = n + 1 /\ pages_'[n + 1] = page
      /\ \A i \in 1 .. n : pages_'[i] = pages_[i]
  BY <1>3, <1>4 DEF Inv
<1>6. memory' \in [0 .. HeapSize - 1 -> Nat]
  BY <1>1 DEF NewMinor, HeapAlloc, Inv, TypeOK, PageHeader, SizeWord
<1>7. array'.length = Len(pages_') /\ "length" \in DOMAIN array'
  BY <1>5, AddCounts DEF NewMinor, Inv, TypeOK
<1>8. status' \in {"running", "Crashed", "Corrupted"}
  BY DEF NewMinor, Inv, TypeOK
<1>9. status' # "Corrupted" => current_' <= HeapSize
  BY DEF NewMinor
<1>10. PagesInOrder'
  <2>1. ASSUME NEW i \in 1 .. n + 1
        PROVE  /\ pages_'[i].size = GetAllocationSize(pages_'[i].type)
               /\ pages_'[i].ptr >= PageHeader + SizeWord
               /\ pages_'[i].ptr + pages_'[i].size <= current_'
    <3>1. CASE i = n + 1
      BY <3>1, <1>1, <1>2, <1>5 DEF PageHeader, SizeWord
    <3>2. CASE i \in 1 .. n
      <4>1. pages_[i].ptr \in Nat /\ pages_[i].size \in Nat /\ i \in DOMAIN pages_
        BY <3>2, <1>5, PageFacts
      <4>2. /\ pages_[i].size = GetAllocationSize(pages_[i].type)
            /\ pages_[i].ptr >= PageHeader + SizeWord
            /\ pages_[i].ptr + pages_[i].size <= current_
        BY <4>1 DEF Inv, PagesInOrder
      <4>3. current_ <= current_'
        BY <1>1, <1>2 DEF PageHeader, SizeWord
      <4>4. pages_'[i] = pages_[i]
        BY <3>2, <1>5
      <4>5. pages_[i].ptr + pages_[i].size <= current_'
        BY <4>1, <4>2, <4>3, <1>2
      <4>. QED
        BY <4>2, <4>4, <4>5
    <3>. QED
      BY <3>1, <3>2, <1>5
  <2>2. ASSUME NEW i \in 1 .. n + 1, NEW j \in 1 .. n + 1, i < j
        PROVE  pages_'[i].ptr + pages_'[i].size + PageHeader + SizeWord <= pages_'[j].ptr
    <3>1. i \in 1 .. n /\ pages_'[i] = pages_[i]
      BY <2>2, <1>5
    <3>2. CASE j = n + 1
      <4>1. pages_[i].ptr \in Nat /\ pages_[i].size \in Nat /\ i \in DOMAIN pages_
        BY <3>1, <1>5, PageFacts
      <4>2. pages_[i].ptr + pages_[i].size <= current_
        BY <4>1 DEF Inv, PagesInOrder
      <4>3. pages_'[j].ptr = current_ + SizeWord + PageHeader
        BY <3>2, <1>5
      <4>. QED
        BY <3>1, <4>1, <4>2, <4>3, <1>2 DEF PageHeader, SizeWord
    <3>3. CASE j \in 1 .. n
      BY <2>2, <3>1, <3>3, <1>5 DEF Inv, PagesInOrder
    <3>. QED
      BY <3>2, <3>3, <1>5
  <2>3. DOMAIN pages_' = 1 .. n + 1
    BY <1>5
  <2>. QED
    BY <2>1, <2>2, <2>3 DEF PagesInOrder, GetAllocationSize, PageHeader, SizeWord, InstanceSize
<1>11. \A i \in DOMAIN pages_' : {pages_'[i].size, pages_'[i].ptr} \subseteq Nat
  BY <1>5, PageFacts
<1>. QED
  BY <1>2, <1>5, <1>6, <1>7, <1>8, <1>9, <1>10, <1>11 DEF Inv, TypeOK

LEMMA NextInv == Inv /\ [Next]_vars => Inv'
<1>. SUFFICES ASSUME Inv, [Next]_vars PROVE Inv'
  OBVIOUS
<1>1. ASSUME NEW cls \in ClassType, NewMinor(cls) PROVE Inv'
  BY <1>1, NewMinorInv
<1>2. ASSUME NEW cls \in ClassType, status = "running", NewMajor(cls) PROVE Inv'
  BY <1>2 DEF NewMajor, Inv, TypeOK, PagesInOrder, GetAllocationSize
<1>3. CASE UNCHANGED vars
  BY <1>3 DEF vars, Inv, TypeOK, PagesInOrder, GetAllocationSize
<1>. QED
  BY <1>1, <1>2, <1>3 DEF Next, New, ClassType

LEMMA InvHolds == Spec => []Inv
BY InitInv, NextInv, PTL DEF Spec

(* The allocator's state is well typed: pages_, its array and Eden's words *)
(* of Instance::New, MinorAlloc and Heap::Alloc.                           *)
THEOREM TypesHold == Spec => []TypeOK
BY InvHolds, PTL DEF Inv

LEMMA InOrderIsDisjoint ==
  ASSUME Inv
  PROVE  InstancesDisjoint
<1>. SUFFICES ASSUME status # "Corrupted", NEW i \in DOMAIN pages_
             PROVE  /\ Words(i) \subseteq 0 .. current_ - 1
                    /\ current_ <= HeapSize
                    /\ \A j \in DOMAIN pages_ \ {i} :
                         Words(i) \cap (Words(j) \cup {pages_[j].ptr - PageHeader - SizeWord}) = {}
  BY DEF InstancesDisjoint
<1>. DEFINE end(k) == pages_[k].ptr + pages_[k].size
<1>1. \A k \in DOMAIN pages_ :
        /\ pages_[k].ptr \in Nat /\ pages_[k].size \in Nat
        /\ Words(k) = pages_[k].ptr .. end(k) - 1
  <2>. SUFFICES ASSUME NEW k \in DOMAIN pages_
               PROVE  /\ pages_[k].ptr \in Nat /\ pages_[k].size \in Nat
                      /\ Words(k) = pages_[k].ptr .. end(k) - 1
    OBVIOUS
  <2>1. pages_[k].ptr \in Nat /\ pages_[k].size \in Nat /\ pages_[k].type.instance \in Nat
    BY PageFacts DEF Inv
  <2>2. pages_[k].size = InstanceSize + pages_[k].type.instance
    BY DEF Inv, PagesInOrder, GetAllocationSize
  <2>. QED
    BY <2>1, <2>2 DEF Words, InstanceSize
<1>2. current_ \in Nat /\ DOMAIN pages_ \subseteq Nat
  BY DEF Inv, TypeOK
<1>3. Words(i) \subseteq 0 .. current_ - 1
  BY <1>1, <1>2 DEF Inv, PagesInOrder
<1>4. current_ <= HeapSize
  BY DEF Inv
<1>5. ASSUME NEW j \in DOMAIN pages_ \ {i}
      PROVE  Words(i) \cap (Words(j) \cup {pages_[j].ptr - PageHeader - SizeWord}) = {}
  <2>1. /\ Words(i) = pages_[i].ptr .. end(i) - 1 /\ Words(j) = pages_[j].ptr .. end(j) - 1
        /\ pages_[i].ptr \in Nat /\ pages_[j].ptr \in Nat /\ end(i) \in Nat /\ end(j) \in Nat
        /\ pages_[i].ptr <= end(i) /\ pages_[j].ptr <= end(j)
    BY <1>1
  <2>2. i < j => end(i) + 5 <= pages_[j].ptr
    BY <1>1 DEF Inv, PagesInOrder, PageHeader, SizeWord
  <2>3. j < i => end(j) + 5 <= pages_[i].ptr
    BY <1>1 DEF Inv, PagesInOrder, PageHeader, SizeWord
  <2>. HIDE DEF end
  <2>4. i < j \/ j < i
    BY <1>2
  <2>. QED
    BY <2>1, <2>2, <2>3, <2>4 DEF PageHeader, SizeWord
<1>. QED
  BY <1>3, <1>4, <1>5

(* No two instances share a word, nor an instance and the header of a      *)
(* chunk, until Eden or pages_ is overrun: Heap::Alloc and MinorAlloc.     *)
THEOREM InstancesStayDisjoint == Spec => []InstancesDisjoint
BY InvHolds, InOrderIsDisjoint, PTL

-----------------------------------------------------------------------------
(* Induction over a set of numbers *)

(* A set of numbers that has members has a least one. *)
LEMMA LeastMember ==
  ASSUME NEW I \in SUBSET Nat, I # {}
  PROVE  \E m \in I : \A n \in I : m <= n
<1>. DEFINE less == { ss \in Nat \X Nat : ss[1] < ss[2] }
<1>1. IsWellFoundedOn(less, Nat)
  BY NatLessThanWellFounded DEF OpToRel
<1>. HIDE DEF less
<1>2. PICK m \in I : \A n \in I : <<n, m>> \notin less
  BY <1>1, WFMin
<1>3. ASSUME NEW n \in I PROVE m <= n
  <2>1. <<n, m>> \in Nat \X Nat
    BY <1>2
  <2>2. <<n, m>>[1] = n /\ <<n, m>>[2] = m
    OBVIOUS
  <2>3. ~(n < m)
    BY <1>2, <2>1, <2>2 DEF less
  <2>. QED
    BY <2>1, <2>3
<1>. QED
  BY <1>2, <1>3

(* A set that has 0 and, with a number, the next one has every number. *)
LEMMA Induction ==
  ASSUME NEW S, 0 \in S, \A n \in Nat : n \in S => n + 1 \in S
  PROVE  \A n \in Nat : n \in S
<1>. DEFINE out == { n \in Nat : n \notin S }
<1>1. CASE out = {}
  BY <1>1
<1>2. CASE out # {}
  <2>1. PICK m \in out : \A n \in out : m <= n
    BY <1>2, LeastMember
  <2>2. m \in Nat /\ m \notin S /\ m # 0
    OBVIOUS
  <2>3. m - 1 \in Nat /\ ~(m <= m - 1)
    BY <2>2
  <2>4. m - 1 \in S
    BY <2>1, <2>3
  <2>5. (m - 1) + 1 \in S
    BY <2>3, <2>4
  <2>. QED
    BY <2>2, <2>5
<1>. QED
  BY <1>1, <1>2

-----------------------------------------------------------------------------
(* The array behind pages_ *)

LEMMA FirstCapacity == RoundUpPowTwo(10) = 16
<1>. DEFINE powers == { 2 ^ k : k \in 0 .. MaxShift }
            enough == { n \in powers : n >= 10 }
<1>1. /\ 2 ^ 0 = 1 /\ 2 ^ 1 = 2 /\ 2 ^ 2 = 4 /\ 2 ^ 3 = 8 /\ 2 ^ 4 = 16
      /\ 2 ^ 5 >= 16 /\ 2 ^ 6 >= 16 /\ 2 ^ 7 >= 16 /\ 2 ^ 8 >= 16 /\ 2 ^ 9 >= 16
      /\ 2 ^ 10 >= 16 /\ 2 ^ 11 >= 16 /\ 2 ^ 12 >= 16 /\ 2 ^ 13 >= 16 /\ 2 ^ 14 >= 16
      /\ 2 ^ 15 >= 16 /\ 2 ^ 16 >= 16 /\ 2 ^ 17 >= 16 /\ 2 ^ 18 >= 16 /\ 2 ^ 19 >= 16
      /\ 2 ^ 20 >= 16 /\ 2 ^ 21 >= 16 /\ 2 ^ 22 >= 16 /\ 2 ^ 23 >= 16 /\ 2 ^ 24 >= 16
      /\ 2 ^ 25 >= 16 /\ 2 ^ 26 >= 16 /\ 2 ^ 27 >= 16 /\ 2 ^ 28 >= 16 /\ 2 ^ 29 >= 16
      /\ 2 ^ 30 >= 16
  BY SMT
<1>2. ASSUME NEW k \in 0 .. MaxShift, 2 ^ k >= 10
      PROVE  2 ^ k >= 16
  <2>1. \/ k = 0 \/ k = 1 \/ k = 2 \/ k = 3 \/ k = 4 \/ k = 5 \/ k = 6 \/ k = 7
        \/ k = 8 \/ k = 9 \/ k = 10 \/ k = 11 \/ k = 12 \/ k = 13 \/ k = 14 \/ k = 15
        \/ k = 16 \/ k = 17 \/ k = 18 \/ k = 19 \/ k = 20 \/ k = 21 \/ k = 22 \/ k = 23
        \/ k = 24 \/ k = 25 \/ k = 26 \/ k = 27 \/ k = 28 \/ k = 29 \/ k = 30
    BY DEF MaxShift
  <2>2. ~(1 >= 10 \/ 2 >= 10 \/ 4 >= 10 \/ 8 >= 10) /\ 16 >= 16
    OBVIOUS
  <2>. QED
    BY <1>1, <1>2, <2>1, <2>2, Zenon
<1>3. 16 \in enough
  <2>1. 4 \in 0 .. MaxShift
    BY DEF MaxShift
  <2>2. 16 \in powers
    BY <1>1, <2>1, Zenon
  <2>. QED
    BY <2>2
<1>4. \A n \in enough : 16 <= n
  BY <1>2
<1>5. enough \subseteq Int
  BY DEF MaxShift
<1>6. RoundUpPowTwo(10) = CHOOSE x \in enough : \A y \in enough : x <= y
  BY DEF RoundUpPowTwo, Min
<1>. HIDE DEF enough
<1>7. PICK x \in enough : x = RoundUpPowTwo(10) /\ \A y \in enough : x <= y
  BY <1>3, <1>4, <1>6
<1>8. x <= 16 /\ 16 <= x /\ x \in Int
  BY <1>3, <1>4, <1>5, <1>7
<1>. QED
  BY <1>7, <1>8

(* How the array grows: its first block has room for sixteen pages, and    *)
(* the second for the one more that it was enlarged for.                   *)
ArrayGrows ==
  /\ DOMAIN array = {"length", "capacity", "block"}
  /\ array.length \in Nat
  /\ array.length <= 16 => array.capacity = 16 /\ array.block = 16
  /\ array.length = 17 => array.block = 17

LEMMA InitArrayGrows == Init => ArrayGrows
BY FirstCapacity DEF Init, NewArray, ArrayGrows

LEMMA AddArrayGrows ==
  ASSUME ArrayGrows, array' = Add(array)
  PROVE  ArrayGrows'
<1>1. array.length + 1 \in Nat
  BY DEF ArrayGrows
<1>2. CASE array.length + 1 > array.capacity
  <2>1. array' = [length |-> array.length + 1, capacity |-> RoundUpPowTwo(array.length + 1),
                  block |-> array.length + 1]
    BY <1>2 DEF Add, Resize
  <2>2. ~(array.length + 1 <= 16)
    BY <1>2 DEF ArrayGrows
  <2>. QED
    BY <1>1, <2>1, <2>2 DEF ArrayGrows
<1>3. CASE ~(array.length + 1 > array.capacity)
  <2>1. array' = [array EXCEPT !.length = array.length + 1]
    BY <1>3 DEF Add, Resize
  <2>2. /\ DOMAIN array' = {"length", "capacity", "block"}
        /\ array'.length = array.length + 1
        /\ array'.capacity = array.capacity /\ array'.block = array.block
    BY <2>1 DEF ArrayGrows
  <2>3. array'.length # 17
    <3>1. CASE array.length = 16
      BY <1>3, <3>1 DEF ArrayGrows
    <3>. QED
      BY <2>2, <3>1 DEF ArrayGrows
  <2>. QED
    BY <1>1, <2>2, <2>3 DEF ArrayGrows
<1>. QED
  BY <1>2, <1>3

LEMMA NextArrayGrows == ArrayGrows /\ [Next]_vars => ArrayGrows'
<1>. SUFFICES ASSUME ArrayGrows, [Next]_vars PROVE ArrayGrows'
  OBVIOUS
<1>1. CASE array' = Add(array)
  BY <1>1, AddArrayGrows
<1>2. CASE array' = array
  BY <1>2 DEF ArrayGrows
<1>. QED
  BY <1>1, <1>2 DEF Next, New, NewMinor, NewMajor, vars

(* pages_ writes within its block as long as it holds at most one page     *)
(* more than its first capacity: Array::Resize, which allocates less than  *)
(* it records, enlarges the block by the one slot that Add then fills.     *)
THEOREM PagesStayInBlock == Spec => []PagesFit
<1>1. ArrayGrows /\ Inv => PagesFit
  BY FirstCapacity DEF ArrayGrows, Inv, TypeOK, PagesFit, InBlock
<1>. QED
  BY <1>1, InitArrayGrows, NextArrayGrows, InvHolds, PTL DEF Spec

-----------------------------------------------------------------------------
(* The walk of Heap::Visit *)

NextChunk(mem, p) == p + mem[p]

LastChunk(mem, p) == NextChunk(mem, p) \notin DOMAIN mem \/ mem[NextChunk(mem, p)] = 0

Walked(mem, walk, p) ==
  IF LastChunk(mem, p) THEN <<p>> ELSE <<p>> \o walk[NextChunk(mem, p)]

(* walk says what Visit finds from every word of Eden that is not below    *)
(* from.                                                                   *)
WalksFrom(mem, walk, from) ==
  /\ walk = [p \in from .. HeapSize - 1 |-> walk[p]]
  /\ \A p \in from .. HeapSize - 1 : walk[p] = Walked(mem, walk, p)

LEMMA WalkExtends ==
  ASSUME NEW mem \in [0 .. HeapSize - 1 -> Nat], NEW walk, NEW from \in 0 .. HeapSize,
         from > 0, WalksFrom(mem, walk, from)
  PROVE  \E w : WalksFrom(mem, w, from - 1)
<1>. DEFINE first == from - 1
            w == [p \in first .. HeapSize - 1 |->
                    IF p = first THEN Walked(mem, walk, first) ELSE walk[p]]
<1>1. HeapSize \in Nat
  BY SizesAssumption
<1>2. first \in 0 .. HeapSize - 1 /\ first \notin from .. HeapSize - 1
  BY <1>1
<1>3. w = [p \in first .. HeapSize - 1 |-> w[p]]
  OBVIOUS
<1>4. w[first] = Walked(mem, walk, first)
  BY <1>2
<1>5. ASSUME NEW p \in from .. HeapSize - 1 PROVE w[p] = walk[p]
  BY <1>1, <1>2
<1>. HIDE DEF w
<1>6. ASSUME NEW p \in first .. HeapSize - 1
      PROVE  w[p] = Walked(mem, w, p)
  <2>1. p \in 0 .. HeapSize - 1 /\ mem[p] \in Nat
    BY <1>1
  <2>2. CASE LastChunk(mem, p)
    <3>1. CASE p = first
      BY <1>4, <2>2, <3>1 DEF Walked
    <3>2. CASE p # first
      <4>1. p \in from .. HeapSize - 1
        BY <1>1, <3>2
      <4>2. walk[p] = Walked(mem, walk, p) /\ w[p] = walk[p]
        BY <1>5, <4>1 DEF WalksFrom
      <4>. QED
        BY <2>2, <4>2 DEF Walked
    <3>. QED
      BY <3>1, <3>2
  <2>3. CASE ~LastChunk(mem, p)
    <3>1. NextChunk(mem, p) \in 0 .. HeapSize - 1 /\ mem[NextChunk(mem, p)] # 0
      BY <2>3 DEF LastChunk
    <3>2. mem[p] # 0
      BY <2>1, <3>1 DEF NextChunk
    <3>3. NextChunk(mem, p) \in from .. HeapSize - 1
      BY <1>1, <2>1, <3>1, <3>2 DEF NextChunk
    <3>4. w[NextChunk(mem, p)] = walk[NextChunk(mem, p)]
      BY <1>5, <3>3
    <3>5. CASE p = first
      BY <1>4, <2>3, <3>4, <3>5 DEF Walked
    <3>6. CASE p # first
      <4>1. p \in from .. HeapSize - 1
        BY <1>1, <3>6
      <4>2. walk[p] = Walked(mem, walk, p) /\ w[p] = walk[p]
        BY <1>5, <4>1 DEF WalksFrom
      <4>. QED
        BY <2>3, <3>4, <4>2 DEF Walked
    <3>. QED
      BY <3>5, <3>6
  <2>. QED
    BY <2>2, <2>3
<1>. QED
  BY <1>3, <1>6 DEF WalksFrom

(* The recursion of Visit is well founded: a chunk without a size ends it. *)
LEMMA WalkExists ==
  ASSUME NEW mem \in [0 .. HeapSize - 1 -> Nat]
  PROVE  \E walk : WalksFrom(mem, walk, 0)
<1>. DEFINE S == { n \in Nat : n <= HeapSize => \E walk : WalksFrom(mem, walk, HeapSize - n) }
<1>1. HeapSize \in Nat
  BY SizesAssumption
<1>2. 0 \in S
  <2>1. PICK w : w = [p \in {} |-> <<>>]
    OBVIOUS
  <2>2. HeapSize .. HeapSize - 1 = {}
    BY <1>1
  <2>3. WalksFrom(mem, w, HeapSize)
    BY <2>1, <2>2 DEF WalksFrom
  <2>4. HeapSize - 0 = HeapSize
    BY <1>1
  <2>. QED
    BY <2>3, <2>4
<1>3. ASSUME NEW n \in Nat, n \in S PROVE n + 1 \in S
  <2>1. SUFFICES ASSUME n + 1 <= HeapSize
                 PROVE  \E walk : WalksFrom(mem, walk, HeapSize - (n + 1))
    BY <1>3
  <2>2. n <= HeapSize /\ HeapSize - n \in 0 .. HeapSize /\ HeapSize - n > 0
    BY <1>1, <1>3, <2>1
  <2>3. PICK walk : WalksFrom(mem, walk, HeapSize - n)
    BY <1>3, <2>2
  <2>4. (HeapSize - n) - 1 = HeapSize - (n + 1)
    BY <1>1
  <2>5. \E w : WalksFrom(mem, w, (HeapSize - n) - 1)
    BY <2>2, <2>3, WalkExtends
  <2>. QED
    BY <2>4, <2>5
<1>. HIDE DEF S
<1>4. HeapSize \in S
  BY <1>1, <1>2, <1>3, Induction
<1>5. HeapSize <= HeapSize /\ HeapSize - HeapSize = 0
  BY <1>1
<1>. QED
  BY <1>4, <1>5 DEF S

(* What Visit finds is the walk from the first word. *)
LEMMA VisitWalks ==
  ASSUME memory \in [0 .. HeapSize - 1 -> Nat]
  PROVE  \E walk : WalksFrom(memory, walk, 0) /\ Visit = walk[0]
<1>. DEFINE rec(w) == [p \in DOMAIN memory |->
                         IF p + memory[p] \notin DOMAIN memory \/ memory[p + memory[p]] = 0
                         THEN <<p>> ELSE <<p>> \o w[p + memory[p]]]
            found == CHOOSE w : w = rec(w)
<1>1. DOMAIN memory = 0 .. HeapSize - 1
  OBVIOUS
<1>2. PICK walk : WalksFrom(memory, walk, 0)
  BY WalkExists
<1>3. walk = rec(walk)
  <2>1. DOMAIN walk = DOMAIN memory
    BY <1>1, <1>2 DEF WalksFrom
  <2>2. ASSUME NEW p \in DOMAIN memory PROVE walk[p] = rec(walk)[p]
    <3>1. walk[p] = Walked(memory, walk, p)
      BY <1>1, <1>2 DEF WalksFrom
    <3>. QED
      BY <3>1 DEF Walked, LastChunk, NextChunk
  <2>3. walk = [p \in DOMAIN memory |-> walk[p]]
    BY <1>1, <1>2 DEF WalksFrom
  <2>. QED
    BY <2>1, <2>2, <2>3
<1>4. found = rec(found)
  BY <1>3
<1>5. Visit = found[0]
  BY DEF Visit
<1>6. WalksFrom(memory, found, 0)
  BY <1>1, <1>4 DEF WalksFrom, Walked, LastChunk, NextChunk
<1>. QED
  BY <1>5, <1>6

(* Where the chunk of a page starts, and the words of Eden from there to   *)
(* the chunk after it, or to current_.                                     *)
Start(i) == pages_[i].ptr - PageHeader - SizeWord

ChunkEnds(i) == Start(i) + memory[Start(i)] = IF i = Len(pages_) THEN current_ ELSE Start(i + 1)

(* The chunks follow one another from the first word of Eden to current_,  *)
(* and each holds its size.                                                *)
ChunksLinked ==
  status # "Corrupted" =>
    /\ IF pages_ = <<>> THEN current_ = 0 ELSE Start(1) = 0
    /\ \A i \in DOMAIN pages_ : memory[Start(i)] # 0 /\ ChunkEnds(i)

LEMMA InitLinked == Init => ChunksLinked
BY DEF Init, ChunksLinked

LEMMA StartsBelow ==
  ASSUME Inv, NEW i \in DOMAIN pages_
  PROVE  /\ Start(i) \in Nat /\ Start(i) < current_
         /\ i \in Nat /\ i >= 1 /\ i <= Len(pages_) /\ Len(pages_) \in Nat
         /\ i # Len(pages_) => i + 1 \in DOMAIN pages_
<1>1. pages_[i].ptr \in Nat /\ pages_[i].size \in Nat
  BY PageFacts DEF Inv
<1>2. current_ \in Nat
  BY DEF Inv, TypeOK
<1>. QED
  BY <1>1, <1>2 DEF Inv, PagesInOrder, Start, PageHeader, SizeWord

LEMMA NewMinorLinked ==
  ASSUME Inv, Inv', ChunksLinked, NEW cls \in ClassType, NewMinor(cls),
         status = "running", status' # "Corrupted"
  PROVE  ChunksLinked'
<1>. DEFINE size == GetAllocationSize(cls)
            whole == size + PageHeader + SizeWord
            page == [size |-> size, type |-> cls, ptr |-> current_ + SizeWord + PageHeader]
<1>0. PICK n \in Nat : n = Len(pages_)
  BY DEF Inv
<1>1. size \in Nat
  BY SizesAssumption DEF ClassType, GetAllocationSize, InstanceSize
<1>2. whole \in Nat /\ whole > 0
  BY <1>1 DEF PageHeader, SizeWord
<1>3. /\ current_ \in Nat /\ current_' = current_ + whole
      /\ memory' = [p \in DOMAIN memory |->
                      IF p = current_ THEN whole
                      ELSE IF p \in current_ .. current_ + whole - 1 THEN 0 ELSE memory[p]]
  BY DEF NewMinor, HeapAlloc, Inv, TypeOK
<1>4. current_' <= HeapSize /\ DOMAIN memory = 0 .. HeapSize - 1 /\ HeapSize \in Nat
  BY SizesAssumption DEF NewMinor, Inv, TypeOK
<1>5. pages_' = Append(pages_, page)
  BY DEF NewMinor
<1>6. /\ n \in Nat /\ Len(pages_') = n + 1 /\ pages_'[n + 1] = page
      /\ DOMAIN pages_ = 1 .. n /\ DOMAIN pages_' = 1 .. n + 1
      /\ \A i \in 1 .. n : pages_'[i] = pages_[i]
  BY <1>0, <1>5 DEF Inv
<1>. HIDE DEF size, page
<1>7. page.ptr = current_ + SizeWord + PageHeader
  BY DEF page
<1>8. Start(n + 1)' = current_
  BY <1>3, <1>6, <1>7 DEF Start, PageHeader, SizeWord
<1>9. ASSUME NEW i \in 1 .. n PROVE Start(i)' = Start(i)
  BY <1>6 DEF Start
<1>10. memory'[current_] = whole
  BY <1>2, <1>3, <1>4
<1>11. ASSUME NEW p \in Nat, p < current_ PROVE memory'[p] = memory[p]
  BY <1>2, <1>3, <1>4, <1>11
<1>12. memory'[Start(n + 1)'] # 0 /\ ChunkEnds(n + 1)'
  BY <1>2, <1>3, <1>6, <1>8, <1>10 DEF ChunkEnds
<1>13. ASSUME NEW i \in 1 .. n
       PROVE  memory'[Start(i)'] # 0 /\ ChunkEnds(i)'
  <2>1. Start(i) \in Nat /\ Start(i) < current_
    BY <1>6, StartsBelow
  <2>2. memory'[Start(i)'] = memory[Start(i)]
    BY <1>9, <1>11, <2>1
  <2>3. memory[Start(i)] # 0 /\ ChunkEnds(i)
    BY <1>6 DEF ChunksLinked
  <2>4. CASE i = n
    <3>1. Start(i) + memory[Start(i)] = current_
      BY <1>0, <2>3, <2>4 DEF ChunkEnds
    <3>2. Start(i)' + memory'[Start(i)'] = Start(n + 1)'
      BY <1>8, <1>9, <2>2, <3>1
    <3>3. i # Len(pages_') /\ i + 1 = n + 1
      BY <1>6, <2>4
    <3>. QED
      BY <2>2, <2>3, <3>2, <3>3 DEF ChunkEnds
  <2>5. CASE i # n
    <3>1. i + 1 \in 1 .. n /\ i # Len(pages_')
      BY <1>6, <2>5
    <3>2. Start(i) + memory[Start(i)] = Start(i + 1)
      BY <1>0, <2>3, <2>5 DEF ChunkEnds
    <3>3. Start(i + 1)' = Start(i + 1)
      BY <1>9, <3>1
    <3>4. Start(i)' + memory'[Start(i)'] = Start(i + 1)'
      BY <1>9, <2>2, <3>2, <3>3
    <3>. QED
      BY <2>2, <2>3, <3>1, <3>4 DEF ChunkEnds
  <2>. QED
    BY <2>4, <2>5
<1>14. Start(1)' = 0
  <2>1. CASE n = 0
    <3>1. pages_ = <<>>
      BY <1>0, <2>1, EmptySeq DEF Inv
    <3>2. current_ = 0
      BY <3>1 DEF ChunksLinked
    <3>. QED
      BY <1>8, <2>1, <3>2
  <2>2. CASE n # 0
    <3>1. pages_ # <<>> /\ 1 \in 1 .. n
      BY <1>6, <2>2
    <3>. QED
      BY <1>9, <3>1 DEF ChunksLinked
  <2>. QED
    BY <2>1, <2>2
<1>15. pages_' # <<>>
  BY <1>6
<1>16. ASSUME NEW i \in 1 .. n + 1 PROVE i \in 1 .. n \/ i = n + 1
  BY <1>6
<1>. QED
  BY <1>6, <1>12, <1>13, <1>14, <1>15, <1>16 DEF ChunksLinked

LEMMA NextLinked == Inv /\ Inv' /\ ChunksLinked /\ [Next]_vars => ChunksLinked'
<1>. SUFFICES ASSUME Inv, Inv', ChunksLinked, [Next]_vars PROVE ChunksLinked'
  OBVIOUS
<1>1. ASSUME NEW cls \in ClassType, status = "running", NewMinor(cls) PROVE ChunksLinked'
  <2>1. CASE status' = "Corrupted"
    BY <2>1 DEF ChunksLinked
  <2>. QED
    BY <1>1, <2>1, NewMinorLinked
<1>2. ASSUME NEW cls \in ClassType, status = "running", NewMajor(cls) PROVE ChunksLinked'
  BY <1>2 DEF NewMajor, ChunksLinked, ChunkEnds, Start
<1>3. CASE UNCHANGED vars
  BY <1>3 DEF vars, ChunksLinked, ChunkEnds, Start
<1>. QED
  BY <1>1, <1>2, <1>3 DEF Next, New, ClassType

LEMMA LinkedHolds == Spec => []ChunksLinked
BY InvHolds, InitLinked, NextLinked, PTL DEF Spec

(* A walk along linked chunks visits the starts of all that follow.        *)
LEMMA WalkFollowsChunks ==
  ASSUME Inv, ChunksLinked, status = "running", pages_ # <<>>,
         current_ < HeapSize, memory[current_] = 0,
         NEW walk, WalksFrom(memory, walk, 0)
  PROVE  walk[0] = [i \in 1 .. Len(pages_) |-> Start(i)]
<1>0. PICK n \in Nat : n = Len(pages_)
  BY DEF Inv
<1>. DEFINE from(k) == [i \in 1 .. k + 1 |-> Start(n - k - 1 + i)]
            S == { k \in Nat : k < n => walk[Start(n - k)] = from(k) }
<1>1. /\ n \in Nat /\ n > 0 /\ DOMAIN pages_ = 1 .. n
      /\ DOMAIN memory = 0 .. HeapSize - 1 /\ HeapSize \in Nat
      /\ current_ \in Nat /\ current_ <= HeapSize
      /\ \A p \in DOMAIN memory : memory[p] \in Nat
  BY <1>0, SizesAssumption DEF Inv, TypeOK
<1>2. ASSUME NEW i \in 1 .. n
      PROVE  /\ Start(i) \in Nat /\ Start(i) < current_ /\ Start(i) \in DOMAIN memory
             /\ memory[Start(i)] # 0 /\ ChunkEnds(i)
             /\ walk[Start(i)] = Walked(memory, walk, Start(i))
  <2>1. Start(i) \in Nat /\ Start(i) < current_
    BY <1>1, StartsBelow
  <2>2. Start(i) \in DOMAIN memory
    BY <1>1, <2>1
  <2>3. walk[Start(i)] = Walked(memory, walk, Start(i))
    BY <1>1, <2>2 DEF WalksFrom
  <2>. QED
    BY <1>1, <2>1, <2>2, <2>3 DEF ChunksLinked
<1>3. 0 \in S
  <2>1. n \in 1 .. n
    BY <1>1
  <2>2. NextChunk(memory, Start(n)) = current_
    BY <1>0, <1>2, <2>1 DEF ChunkEnds, NextChunk
  <2>3. LastChunk(memory, Start(n))
    BY <2>2 DEF LastChunk
  <2>4. walk[Start(n)] = <<Start(n)>>
    BY <1>2, <2>1, <2>3 DEF Walked
  <2>5. from(0) = <<Start(n)>>
    BY <1>1
  <2>6. n - 0 = n
    BY <1>1
  <2>. QED
    BY <2>4, <2>5, <2>6
<1>4. ASSUME NEW k \in Nat, k \in S PROVE k + 1 \in S
  <2>1. SUFFICES ASSUME k + 1 < n PROVE walk[Start(n - (k + 1))] = from(k + 1)
    BY <1>4
  <2>2. PICK i : i = n - (k + 1)
    OBVIOUS
  <2>3. i \in 1 .. n /\ i # n /\ i + 1 \in 1 .. n /\ i + 1 = n - k /\ k < n
    BY <1>1, <2>1, <2>2
  <2>4. NextChunk(memory, Start(i)) = Start(i + 1)
    BY <1>0, <1>2, <2>3 DEF ChunkEnds, NextChunk
  <2>5. ~LastChunk(memory, Start(i))
    BY <1>2, <2>3, <2>4 DEF LastChunk
  <2>6. walk[Start(i + 1)] = from(k)
    BY <1>4, <2>3
  <2>7. walk[Start(i)] = <<Start(i)>> \o from(k)
    <3>1. walk[Start(i)] = <<Start(i)>> \o walk[Start(i + 1)]
      BY <1>2, <2>3, <2>4, <2>5, Zenon DEF Walked
    <3>. QED
      BY <2>6, <3>1, Zenon
  <2>8. <<Start(i)>> \o from(k) = from(k + 1)
    <3>. DEFINE s == [j \in 1 .. k + 1 |-> Start(i + j)]
                t == [j \in 1 .. k + 2 |-> Start(i - 1 + j)]
    <3>1. from(k) = s /\ from(k + 1) = t
      BY <1>1, <2>2, <2>3
    <3>2. s \in Seq(Nat) /\ Len(s) = k + 1 /\ t \in Seq(Nat) /\ Len(t) = k + 2
      BY <1>1, <1>2, <2>2, <2>3
    <3>3. <<Start(i)>> \o s \in Seq(Nat) /\ Len(<<Start(i)>> \o s) = k + 2
      BY <1>2, <2>3, <3>2
    <3>4. ASSUME NEW j \in 1 .. k + 2 PROVE (<<Start(i)>> \o s)[j] = t[j]
      <4>1. PICK u \in Seq(Nat) : u = s
        BY <3>2
      <4>2. <<Start(i)>> \in Seq(Nat) /\ Len(<<Start(i)>>) = 1
        BY <1>2, <2>3
      <4>3. CASE j = 1
        <5>1. (<<Start(i)>> \o u)[1] = Start(i)
          BY <4>2
        <5>2. t[1] = Start(i)
          BY <2>3
        <5>. QED
          BY <4>1, <4>3, <5>1, <5>2
      <4>4. CASE j # 1
        <5>1. j - 1 \in 1 .. k + 1 /\ i + (j - 1) = i - 1 + j
          BY <2>3, <4>4
        <5>2. Len(u) = k + 1
          BY <3>2, <4>1
        <5>3. (<<Start(i)>> \o u)[j] = u[j - 1]
          BY <4>2, <5>1, <5>2
        <5>4. s[j - 1] = Start(i + (j - 1)) /\ t[j] = Start(i - 1 + j)
          BY <5>1
        <5>. QED
          BY <4>1, <5>1, <5>3, <5>4
      <4>. QED
        BY <4>3, <4>4
    <3>. QED
      BY <3>1, <3>2, <3>3, <3>4, SeqEqual
  <2>. QED
    BY <2>2, <2>7, <2>8
<1>. HIDE DEF S
<1>5. n - 1 \in S
  BY <1>1, <1>3, <1>4, Induction
<1>6. walk[Start(1)] = from(n - 1)
  BY <1>1, <1>5 DEF S
<1>7. from(n - 1) = [i \in 1 .. n |-> Start(i)]
  BY <1>0, <1>1
<1>8. Start(1) = 0
  BY DEF ChunksLinked
<1>. HIDE DEF from
<1>. QED
  BY <1>0, <1>6, <1>7, <1>8

(* Heap::Visit finds the chunks of the pages, all of them and in order,    *)
(* wherever what follows the last one was zero when malloc returned it:    *)
(* each chunk's size leads to the next.                                    *)
THEOREM VisitIsComplete == Spec => []VisitFindsPages
<1>1. ASSUME Inv, ChunksLinked, status = "running", pages_ # <<>>,
             current_ < HeapSize, memory[current_] = 0
      PROVE  Visit = [i \in DOMAIN pages_ |-> pages_[i].ptr - PageHeader - SizeWord]
  <2>1. PICK walk : WalksFrom(memory, walk, 0) /\ Visit = walk[0]
    BY <1>1, VisitWalks DEF Inv, TypeOK
  <2>2. walk[0] = [i \in 1 .. Len(pages_) |-> Start(i)]
    BY <1>1, <2>1, WalkFollowsChunks
  <2>3. DOMAIN pages_ = 1 .. Len(pages_)
    BY <1>1 DEF Inv
  <2>. QED
    BY <2>1, <2>2, <2>3 DEF Start
<1>2. Inv /\ ChunksLinked => VisitFindsPages
  BY <1>1 DEF VisitFindsPages
<1>. QED
  BY <1>2, InvHolds, LinkedHolds, PTL
=============================================================================
