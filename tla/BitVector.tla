------------------------------ MODULE BitVector ------------------------------
(***************************************************************************)
(* BitVector of Sources/bit_vector.h.  A word is the set of the positions  *)
(* of its bits that are one.  The vectors are all of one size, as the ones *)
(* that work together in ComputeDominators are.                            *)
(*                                                                         *)
(* A mask is made by shifting the int 1, and then widened to a word.  A    *)
(* shift by the width of an int or more is undefined: the model ends there *)
(* (defined becomes FALSE).                                                *)
(***************************************************************************)
EXTENDS Integers

CONSTANTS
  Vectors,        \* the vectors in use
  size_,          \* bits in each
  kBitsPerWord,   \* bits of a word: 64
  IntBits         \* bits of an int: 32

ASSUME SizeAssumption ==
  /\ size_ \in Nat \ {0}
  /\ kBitsPerWord \in Nat \ {0}
  /\ IntBits \in 1 .. kBitsPerWord

VARIABLES
  data_,     \* the words of each vector
  result,    \* what the last call that returns a bool has returned
  defined    \* no shift so far was undefined

vars == <<data_, result, defined>>

(* Mutant: no word for the bits that do not fill one. *)
RoundedDown == size_ \div kBitsPerWord

asize_ == 1 + ((size_ - 1) \div kBitsPerWord)

Words == 0 .. asize_ - 1
Bits  == 0 .. kBitsPerWord - 1

Init ==
  /\ data_ = [v \in Vectors |-> [k \in Words |-> {}]]
  /\ result = FALSE
  /\ defined = TRUE

-----------------------------------------------------------------------------
Indices == 0 .. size_ - 1

Word(i) == i \div kBitsPerWord
Bit(i)  == i % kBitsPerWord

Shiftable(i) == Bit(i) < IntBits

(* static_cast<uword>(1 << (i % kBitsPerWord)): the sign bit of the int is *)
(* copied into every bit above it.                                         *)
Mask(i) == IF Bit(i) = IntBits - 1 THEN Bit(i) .. kBitsPerWord - 1 ELSE {Bit(i)}

(* Each word of v becomes what new says, and the call returns r.           *)
Store(v, new(_), r) ==
  /\ defined
  /\ data_' = [data_ EXCEPT ![v] = [k \in Words |-> new(k)]]
  /\ result' = r
  /\ UNCHANGED defined

StoreWord(v, k, word, r) ==
  /\ defined
  /\ data_' = [data_ EXCEPT ![v][k] = word]
  /\ result' = r
  /\ UNCHANGED defined

Undefined ==
  /\ defined
  /\ defined' = FALSE
  /\ UNCHANGED <<data_, result>>

Clear(v) == Store(v, LAMBDA k : {}, result)

Add(v, i) ==
  IF Shiftable(i)
  THEN StoreWord(v, Word(i), data_[v][Word(i)] \cup Mask(i), result)
  ELSE Undefined

(* Mutant: only the bit of the index itself. *)
RemoveBit(v, i) ==
  IF Shiftable(i)
  THEN StoreWord(v, Word(i), data_[v][Word(i)] \ {Bit(i)}, result)
  ELSE Undefined

Remove(v, i) ==
  IF Shiftable(i)
  THEN StoreWord(v, Word(i), data_[v][Word(i)] \ Mask(i), result)
  ELSE Undefined

Contains(v, i) ==
  IF Shiftable(i)
  THEN StoreWord(v, Word(i), data_[v][Word(i)], data_[v][Word(i)] \cap Mask(i) # {})
  ELSE Undefined

Intersect(v, other) == Store(v, LAMBDA k : data_[v][k] \cap data_[other][k], result)

(* AddAll and KillAndAdd say whether a word has changed. *)
StoreChanged(v, new(_)) == Store(v, new, \E k \in Words : new(k) # data_[v][k])

AddAll(v, from) == StoreChanged(v, LAMBDA k : data_[v][k] \cup data_[from][k])

(* Mutant: changed is what the last word says. *)
KillAndAddLast(v, kill, gen) ==
  LET after(k) == data_[v][k] \cup (data_[gen][k] \ data_[kill][k])
  IN  Store(v, after, after(asize_ - 1) # data_[v][asize_ - 1])

KillAndAdd(v, kill, gen) ==
  StoreChanged(v, LAMBDA k : data_[v][k] \cup (data_[gen][k] \ data_[kill][k]))

Next ==
  \/ \E v \in Vectors : Clear(v)
  \/ \E v \in Vectors, i \in Indices : Add(v, i) \/ Remove(v, i) \/ Contains(v, i)
  \/ \E v, w \in Vectors : Intersect(v, w) \/ AddAll(v, w)
  \/ \E v, kill, gen \in Vectors : KillAndAdd(v, kill, gen)

Spec == Init /\ [][Next]_vars

-----------------------------------------------------------------------------
(* Types of a vector's words, of which there is one for every index: asize_ *)
(* rounds size_ up to whole words; bit_vector.h:15-20.                     *)
TypeOK ==
  /\ data_ \in [Vectors -> [Words -> SUBSET Bits]]
  /\ \A v \in Vectors, i \in Indices : Word(i) \in DOMAIN data_[v]
  /\ result \in BOOLEAN
  /\ defined \in BOOLEAN

(* The bits from the sign bit up are all one or all zero.  They must stay  *)
(* together, or else Contains of the sign bit's index would depend on bits *)
(* that no index below it sets.  Add, Remove and the loops over words.     *)
SignBitsTogether ==
  \A v \in Vectors, k \in Words :
    \A b, c \in IntBits - 1 .. kBitsPerWord - 1 : b \in data_[v][k] <=> c \in data_[v][k]

Members(v) ==
  { i \in Indices : Shiftable(i) /\ data_[v][Word(i)] \cap Mask(i) # {} }

IS == INSTANCE IndexSet WITH
        members <- [v \in Vectors |-> Members(v)],
        Exact   <- { i \in Indices : Shiftable(i) }

(* BitVector implements IndexSet: with indices whose bit fits in an int,   *)
(* the sign bit included, every call does to the bits and returns what the *)
(* set operation of its name would; bit_vector.h:23-72.                    *)
ImplementsIndexSet == IS!Spec
=============================================================================
