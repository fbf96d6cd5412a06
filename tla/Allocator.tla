----------------------------- MODULE Allocator ------------------------------
(***************************************************************************)
(* Instance::New (Sources/object.cc), Allocator and Heap (Sources/alloc.h  *)
(* and alloc.cc): instances are carved from the Eden heap by moving a      *)
(* pointer, and every piece is recorded in pages_.  Sizes and positions    *)
(* are in machine words, positions from eden_->start_.  Nothing is freed,  *)
(* and survivor_, tenured_ and large_ are never allocated from.            *)
(***************************************************************************)
EXTENDS Array, Sequences

CONSTANTS
  HeapSize,     \* ESCH_HEAP_SIZE
  MinorLimit,   \* ESCH_GC_MIN_SIZE: the largest piece MinorAlloc takes
  Garbage,      \* what memory that malloc returns may hold
  FieldCounts,  \* how many fields of each kind a class may have
  MaxObjects    \* how many instances are made

(* sizeof(Instance): its table pointer and type_; sizeof(AllocPage): refs, *)
(* size, color with marked, and ptr; the size_t before each chunk.         *)
InstanceSize == 2
PageHeader == 4
SizeWord == 1

ASSUME SizesAssumption ==
  /\ {HeapSize, MinorLimit, MaxObjects} \cup Garbage \cup FieldCounts \subseteq Nat
  /\ HeapSize > 0 /\ RoundUpPowTwo(HeapSize) = HeapSize

VARIABLES
  current_,  \* where the next chunk of eden_ starts
  memory,    \* the words of eden_ as far as Heap::Visit may read them
  pages_,    \* the AllocPages, each with the class of its instance
  array,     \* the Array that holds pages_
  status     \* "running"; "Crashed"; "Corrupted": wrote outside a block

vars == <<current_, memory, pages_, array, status>>

Init ==
  /\ current_ = 0
  /\ \E g \in Garbage : memory = [p \in 0 .. HeapSize - 1 |-> g]
  /\ pages_ = <<>>
  /\ array = NewArray(10)
  /\ status = "running"

(* Mutant: the header of the instance is forgotten. *)
GetFieldsSize(cls) == cls.instance

(* Class::GetAllocationSize: static fields take no room. *)
GetAllocationSize(cls) == InstanceSize + cls.instance

(* Mutants of Heap::Alloc: the size word is not counted; the size stored   *)
(* is the one asked for.                                                   *)
HeapAllocUncounted(size) ==
  /\ current_' = current_ + size
  /\ memory' = [p \in DOMAIN memory |->
                  IF p = current_ THEN size
                  ELSE IF p \in current_ .. current_ + size - 1 THEN 0 ELSE memory[p]]

HeapAllocShort(size) ==
  /\ current_' = current_ + size + SizeWord
  /\ memory' = [p \in DOMAIN memory |->
                  IF p = current_ THEN size
                  ELSE IF p \in current_ .. current_ + size THEN 0 ELSE memory[p]]

(* Heap::Alloc does not compare with End(): it clears the chunk and stores *)
(* its size.                                                               *)
HeapAlloc(size) ==
  LET whole == size + SizeWord
  IN  /\ current_' = current_ + whole
      /\ memory' = [p \in DOMAIN memory |->
                      IF p = current_ THEN whole
                      ELSE IF p \in current_ .. current_ + whole - 1 THEN 0 ELSE memory[p]]

(* Instance::New of a class, through MinorAlloc.  raw is never nullptr, so *)
(* that the retry is never taken.  A chunk that runs over the end of Eden, *)
(* or an entry over the end of pages_, is written all the same.            *)
NewMinor(cls) ==
  LET size == GetAllocationSize(cls)
  IN  /\ size + PageHeader <= MinorLimit
      /\ HeapAlloc(size + PageHeader)
      /\ pages_' = Append(pages_, [size |-> size, type |-> cls,
                                   ptr |-> current_ + SizeWord + PageHeader])
      /\ array' = Add(array)
      /\ status' = IF current_' <= HeapSize /\ InBlock(array') THEN status ELSE "Corrupted"

(* A larger instance goes to MajorAlloc, which returns nullptr, and New    *)
(* copies the new instance there.                                          *)
NewMajor(cls) ==
  /\ GetAllocationSize(cls) + PageHeader > MinorLimit
  /\ status' = "Crashed"
  /\ UNCHANGED <<current_, memory, pages_, array>>

New ==
  /\ status = "running"
  /\ Len(pages_) < MaxObjects
  /\ \E cls \in [instance : FieldCounts, static : FieldCounts] : NewMinor(cls) \/ NewMajor(cls)

Next == New

Spec == Init /\ [][Next]_vars

-----------------------------------------------------------------------------
(* Heap::Visit, what PrintHeap prints: the starts of the chunks it visits. *)
(* It reads the size of the chunk that follows before it compares with     *)
(* End().  Not defined when it would read outside of Eden, or never end.   *)
Visit ==
  LET next(p) == p + memory[p]
      walk[p \in DOMAIN memory] ==
        IF next(p) \notin DOMAIN memory \/ memory[next(p)] = 0 THEN <<p>>
        ELSE <<p>> \o walk[next(p)]
  IN  walk[0]

-----------------------------------------------------------------------------
(* Types of the allocator's state; the array counts the pages. *)
TypeOK ==
  /\ current_ \in Nat
  /\ memory \in [0 .. HeapSize - 1 -> Nat]
  /\ \A i \in DOMAIN pages_ : {pages_[i].size, pages_[i].ptr} \subseteq Nat
  /\ array.length = Len(pages_)
  /\ status \in {"running", "Crashed", "Corrupted"}

(* Words of Eden that belong to the i-th instance: those its object and    *)
(* its fields need.                                                        *)
Words(i) == pages_[i].ptr .. pages_[i].ptr + InstanceSize + pages_[i].type.instance - 1

(* Every instance lies in Eden below current_, and it shares no word with  *)
(* another instance nor with the header of another's chunk.  Heap::Alloc   *)
(* with MinorAlloc's arithmetic on sizes.                                  *)
InstancesDisjoint ==
  status # "Corrupted" =>
    \A i \in DOMAIN pages_ :
      /\ Words(i) \subseteq 0 .. current_ - 1
      /\ current_ <= HeapSize
      /\ \A j \in DOMAIN pages_ \ {i} :
           Words(i) \cap (Words(j) \cup {pages_[j].ptr - PageHeader - SizeWord}) = {}

(* Heap::Visit finds exactly the chunks of the pages, in order, provided   *)
(* there is at least one, and the memory after the last is in Eden and was *)
(* zero when malloc returned it.                                           *)
VisitFindsPages ==
  /\ status = "running" /\ pages_ # <<>>
  /\ current_ < HeapSize /\ memory[current_] = 0
  => Visit = [i \in DOMAIN pages_ |-> pages_[i].ptr - PageHeader - SizeWord]

(* pages_ has room for every entry as long as it holds at most one more    *)
(* than its first capacity; Resize allocates less than it records          *)
(* (array.h:62).                                                           *)
PagesFit == Len(pages_) <= RoundUpPowTwo(10) + 1 => InBlock(array)

(* Eden never holds more than its size: an allocation that does not fit    *)
(* is refused with nullptr, as MinorAlloc expects (alloc.cc:19).           *)
EdenNotExceeded == current_ <= HeapSize
=============================================================================
