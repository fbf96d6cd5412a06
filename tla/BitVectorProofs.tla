--------------------------- MODULE BitVectorProofs ---------------------------
(***************************************************************************)
(* For every size, word and int: BitVector is well typed, keeps the bits   *)
(* from the sign bit up together, and implements IndexSet.                 *)
(***************************************************************************)
EXTENDS BitVector, TLAPS

(* Dividing with rest. *)
LEMMA Division ==
  ASSUME NEW n \in Nat, NEW d \in Nat \ {0}
  PROVE  /\ n \div d \in Nat
         /\ n % d \in 0 .. d - 1
         /\ n = d * (n \div d) + (n % d)
  OBVIOUS

LEMMA DivisionMonotonic ==
  ASSUME NEW m \in Nat, NEW n \in Nat, m <= n, NEW d \in Nat \ {0}
  PROVE  m \div d <= n \div d
<1>1. /\ m \div d \in Nat /\ n \div d \in Nat
      /\ m % d \in 0 .. d - 1 /\ n % d \in 0 .. d - 1
      /\ m = d * (m \div d) + (m % d) /\ n = d * (n \div d) + (n % d)
  BY Division
<1>. DEFINE p == m \div d
            q == n \div d
<1>. HIDE DEF p, q
<1>2. ASSUME p > q PROVE FALSE
  <2>1. p >= q + 1
    BY <1>1, <1>2 DEF p, q
  <2>2. d * p >= d * (q + 1)
    BY <1>1, <2>1 DEF p, q
  <2>. QED
    BY <1>1, <2>2 DEF p, q
<1>. QED
  BY <1>1, <1>2 DEF p, q

LEMMA Located ==
  ASSUME NEW i \in Indices
  PROVE  /\ i \in Nat
         /\ Word(i) \in Words
         /\ Bit(i) \in Bits
         /\ i = kBitsPerWord * Word(i) + Bit(i)
<1>1. i \in Nat /\ i <= size_ - 1 /\ size_ - 1 \in Nat /\ kBitsPerWord \in Nat \ {0}
  BY SizeAssumption DEF Indices
<1>2. /\ i \div kBitsPerWord \in Nat /\ (size_ - 1) \div kBitsPerWord \in Nat
      /\ i % kBitsPerWord \in 0 .. kBitsPerWord - 1
      /\ i = kBitsPerWord * (i \div kBitsPerWord) + (i % kBitsPerWord)
  BY <1>1, Division
<1>3. i \div kBitsPerWord <= (size_ - 1) \div kBitsPerWord
  BY <1>1, DivisionMonotonic
<1>4. i \div kBitsPerWord \in 0 .. ((size_ - 1) \div kBitsPerWord)
  BY <1>2, <1>3
<1>5. 0 .. asize_ - 1 = 0 .. ((size_ - 1) \div kBitsPerWord)
  BY <1>2 DEF asize_
<1>. QED
  BY <1>1, <1>2, <1>4, <1>5 DEF Word, Bit, Words, Bits

-----------------------------------------------------------------------------
(* A word the code can make: the bits from the sign bit up are together,   *)
(* and each bit is in the mask of an index of the word.                    *)
Together(S) == \A b, c \in IntBits - 1 .. kBitsPerWord - 1 : b \in S <=> c \in S

WellFormed(k, S) ==
  /\ S \subseteq Bits
  /\ Together(S)
  /\ \A b \in S : \E i \in Indices : Shiftable(i) /\ Word(i) = k /\ b \in Mask(i)

LEMMA MaskWellFormed ==
  ASSUME NEW i \in Indices, Shiftable(i)
  PROVE  WellFormed(Word(i), Mask(i)) /\ Bit(i) \in Mask(i)
<1>1. /\ Bit(i) \in 0 .. kBitsPerWord - 1 /\ Bit(i) < IntBits
      /\ kBitsPerWord \in Nat /\ IntBits \in Nat /\ IntBits <= kBitsPerWord
  BY Located, SizeAssumption DEF Bits, Shiftable
<1>2. Mask(i) \subseteq Bits /\ Bit(i) \in Mask(i)
  BY <1>1 DEF Mask, Bits
<1>3. Together(Mask(i))
  BY <1>1 DEF Mask, Together
<1>. QED
  BY <1>2, <1>3 DEF WellFormed

(* In one word, the mask of an index has no other index's bit. *)
LEMMA MaskApart ==
  ASSUME NEW i \in Indices, NEW j \in Indices, Shiftable(i), Shiftable(j),
         Word(i) = Word(j), Bit(j) \in Mask(i)
  PROVE  i = j
<1>1. /\ Bit(i) \in 0 .. kBitsPerWord - 1 /\ Bit(i) < IntBits
      /\ Bit(j) \in 0 .. kBitsPerWord - 1 /\ Bit(j) < IntBits
      /\ kBitsPerWord \in Nat /\ IntBits \in Nat
  BY Located, SizeAssumption DEF Bits, Shiftable
<1>2. Bit(i) = Bit(j)
  BY <1>1 DEF Mask
<1>. QED
  BY <1>2, Located

(* A mask meets a well-formed word exactly when the index's bit is in it. *)
LEMMA MaskMeets ==
  ASSUME NEW i \in Indices, Shiftable(i), NEW S, Together(S), S \subseteq Bits
  PROVE  (S \cap Mask(i) # {}) <=> Bit(i) \in S
<1>1. /\ Bit(i) \in 0 .. kBitsPerWord - 1 /\ Bit(i) < IntBits
      /\ kBitsPerWord \in Nat /\ IntBits \in Nat /\ IntBits <= kBitsPerWord
  BY Located, SizeAssumption DEF Bits, Shiftable
<1>2. Bit(i) \in Mask(i)
  BY MaskWellFormed
<1>3. ASSUME NEW b \in S, b \in Mask(i) PROVE Bit(i) \in S
  <2>1. CASE Bit(i) = IntBits - 1
    <3>1. /\ b \in IntBits - 1 .. kBitsPerWord - 1
          /\ Bit(i) \in IntBits - 1 .. kBitsPerWord - 1
      BY <1>1, <1>3, <2>1 DEF Mask
    <3>. QED
      BY <3>1, <1>3 DEF Together
  <2>2. CASE Bit(i) # IntBits - 1
    BY <1>3, <2>2 DEF Mask
  <2>. QED
    BY <2>1, <2>2
<1>. QED
  BY <1>2, <1>3

LEMMA WellFormedClosed ==
  ASSUME NEW k, NEW S, NEW T, WellFormed(k, S), WellFormed(k, T)
  PROVE  /\ WellFormed(k, S \cup T)
         /\ WellFormed(k, S \cap T)
         /\ WellFormed(k, S \ T)
<1>1. Together(S \cup T) /\ Together(S \cap T) /\ Together(S \ T)
  BY DEF WellFormed, Together
<1>. QED
  BY <1>1 DEF WellFormed

LEMMA EmptyWellFormed ==
  ASSUME NEW k PROVE WellFormed(k, {})
  BY DEF WellFormed, Together

(* What a word gains, it gains the bit of an index for. *)
LEMMA GainsIndex ==
  ASSUME NEW k, NEW S, NEW T, WellFormed(k, S), WellFormed(k, T), ~(T \subseteq S)
  PROVE  \E i \in Indices : Shiftable(i) /\ Word(i) = k /\ Bit(i) \in T /\ Bit(i) \notin S
<1>1. PICK b \in T : b \notin S
  OBVIOUS
<1>2. PICK i \in Indices : Shiftable(i) /\ Word(i) = k /\ b \in Mask(i)
  BY <1>1 DEF WellFormed
<1>3. T \ S \subseteq Bits /\ Together(T \ S) /\ b \in (T \ S) \cap Mask(i)
  BY <1>1, <1>2, WellFormedClosed DEF WellFormed
<1>4. Bit(i) \in T \ S
  BY <1>2, <1>3, MaskMeets
<1>. QED
  BY <1>2, <1>4

-----------------------------------------------------------------------------
(* The inductive invariant. *)
Inv ==
  /\ TypeOK
  /\ \A v \in Vectors, k \in Words : WellFormed(k, data_[v][k])

LEMMA InvImpliesSignBitsTogether == Inv => SignBitsTogether
  BY DEF Inv, SignBitsTogether, WellFormed, Together

(* Words of the right types are words enough. *)
LEMMA WordForEach ==
  ASSUME NEW d \in [Vectors -> [Words -> SUBSET Bits]], NEW v \in Vectors, NEW i \in Indices
  PROVE  Word(i) \in DOMAIN d[v]
<1>1. Word(i) \in Words
  BY Located
<1>. QED
  BY <1>1

LEMMA InvInit == Init => Inv
<1>. SUFFICES ASSUME Init PROVE Inv
  OBVIOUS
<1>0. data_ \in [Vectors -> [Words -> SUBSET Bits]]
  BY DEF Init
<1>1. TypeOK
  BY <1>0, WordForEach DEF Init, TypeOK
<1>2. \A v \in Vectors, k \in Words : WellFormed(k, data_[v][k])
  BY EmptyWellFormed DEF Init
<1>. QED
  BY <1>1, <1>2 DEF Inv

(* An operation that gives one vector well-formed words keeps Inv. *)
LEMMA InvStored ==
  ASSUME Inv, NEW v \in Vectors, NEW f, NEW r \in BOOLEAN,
         f = [k \in Words |-> f[k]], \A k \in Words : WellFormed(k, f[k]),
         data_' = [data_ EXCEPT ![v] = f], result' = r, defined' = defined
  PROVE  Inv'
<1>1. \A k \in Words : f[k] \in SUBSET Bits
  BY DEF WellFormed
<1>2. f \in [Words -> SUBSET Bits]
  BY <1>1
<1>a. data_' \in [Vectors -> [Words -> SUBSET Bits]]
  BY <1>2 DEF Inv, TypeOK
<1>b. result' \in BOOLEAN /\ defined' \in BOOLEAN
  BY DEF Inv, TypeOK
<1>3. TypeOK'
  BY <1>a, <1>b, WordForEach DEF TypeOK, Word
<1>4. \A w \in Vectors, k \in Words : WellFormed(k, data_'[w][k])
  BY DEF Inv, TypeOK
<1>. QED
  BY <1>3, <1>4 DEF Inv, WellFormed, Together, Shiftable, Mask, Word, Bit

(* What each call leaves in the words of its vector is well formed. *)
LEMMA CallsWellFormed ==
  ASSUME Inv, NEW v \in Vectors, NEW w \in Vectors, NEW u \in Vectors
  PROVE  /\ \A k \in Words :
              /\ WellFormed(k, {})
              /\ WellFormed(k, data_[v][k] \cap data_[w][k])
              /\ WellFormed(k, data_[v][k] \cup data_[w][k])
              /\ WellFormed(k, data_[v][k] \cup (data_[w][k] \ data_[u][k]))
         /\ \A i \in Indices : Shiftable(i) =>
              /\ Word(i) \in Words
              /\ WellFormed(Word(i), data_[v][Word(i)] \cup Mask(i))
              /\ WellFormed(Word(i), data_[v][Word(i)] \ Mask(i))
              /\ WellFormed(Word(i), data_[v][Word(i)])
<1>1. ASSUME NEW k \in Words
      PROVE  /\ WellFormed(k, {})
             /\ WellFormed(k, data_[v][k] \cap data_[w][k])
             /\ WellFormed(k, data_[v][k] \cup data_[w][k])
             /\ WellFormed(k, data_[v][k] \cup (data_[w][k] \ data_[u][k]))
  <2>1. WellFormed(k, data_[v][k]) /\ WellFormed(k, data_[w][k]) /\ WellFormed(k, data_[u][k])
    BY DEF Inv
  <2>2. WellFormed(k, data_[w][k] \ data_[u][k])
    BY <2>1, WellFormedClosed
  <2>. QED
    BY <2>1, <2>2, WellFormedClosed, EmptyWellFormed
<1>2. ASSUME NEW i \in Indices, Shiftable(i)
      PROVE  /\ Word(i) \in Words
             /\ WellFormed(Word(i), data_[v][Word(i)] \cup Mask(i))
             /\ WellFormed(Word(i), data_[v][Word(i)] \ Mask(i))
             /\ WellFormed(Word(i), data_[v][Word(i)])
  <2>1. Word(i) \in Words
    BY Located
  <2>2. WellFormed(Word(i), data_[v][Word(i)]) /\ WellFormed(Word(i), Mask(i))
    BY <1>2, <2>1, MaskWellFormed DEF Inv
  <2>. QED
    BY <2>1, <2>2, WellFormedClosed
<1>. QED
  BY <1>1, <1>2

LEMMA StoreWordKeepsInv ==
  ASSUME Inv, NEW v \in Vectors, NEW k \in Words, NEW S, WellFormed(k, S),
         NEW r \in BOOLEAN, StoreWord(v, k, S, r)
  PROVE  Inv'
<1>. DEFINE f == [data_[v] EXCEPT ![k] = S]
<1>0. data_' = [data_ EXCEPT ![v][k] = S] /\ result' = r /\ defined' = defined
  BY DEF StoreWord
<1>2. f = [data_[v] EXCEPT ![k] = S]
  OBVIOUS
<1>. HIDE DEF f
<1>1. /\ data_' = [data_ EXCEPT ![v] = f]
      /\ f = [l \in Words |-> f[l]]
      /\ \A l \in Words : WellFormed(l, f[l])
  BY <1>0, <1>2 DEF Inv, TypeOK
<1>. QED
  BY <1>0, <1>1, InvStored

LEMMA InvNext == Inv /\ [Next]_vars => Inv'
<1>. SUFFICES ASSUME Inv, [Next]_vars PROVE Inv'
  OBVIOUS
<1>0. result \in BOOLEAN
  BY DEF Inv, TypeOK
<1>1. ASSUME NEW v \in Vectors, Clear(v) PROVE Inv'
  <2>. DEFINE f == [k \in Words |-> {}]
  <2>1. f = [k \in Words |-> f[k]] /\ \A k \in Words : WellFormed(k, f[k])
    BY CallsWellFormed
  <2>2. data_' = [data_ EXCEPT ![v] = f] /\ result' \in BOOLEAN /\ defined' = defined
    BY <1>0, <1>1 DEF Clear, Store
  <2>. HIDE DEF f
  <2>. QED
    BY <2>1, <2>2, InvStored
<1>2. ASSUME NEW v \in Vectors, NEW i \in Indices, Add(v, i) \/ Remove(v, i) \/ Contains(v, i)
      PROVE  Inv'
  <2>1. CASE ~Shiftable(i)
    <3>1. Undefined
      BY <1>2, <2>1 DEF Add, Remove, Contains
    <3>. QED
      BY <3>1 DEF Undefined, Inv, TypeOK, WellFormed, Together, Shiftable, Mask, Word, Bit
  <2>2. CASE Shiftable(i)
    BY <1>0, <1>2, <2>2, CallsWellFormed, StoreWordKeepsInv DEF Add, Remove, Contains
  <2>. QED
    BY <2>1, <2>2
<1>3. ASSUME NEW v \in Vectors, NEW w \in Vectors, Intersect(v, w) PROVE Inv'
  <2>. DEFINE f == [k \in Words |-> data_[v][k] \cap data_[w][k]]
  <2>1. f = [k \in Words |-> f[k]] /\ \A k \in Words : WellFormed(k, f[k])
    BY CallsWellFormed
  <2>2. data_' = [data_ EXCEPT ![v] = f] /\ result' \in BOOLEAN /\ defined' = defined
    BY <1>0, <1>3 DEF Intersect, Store
  <2>. HIDE DEF f
  <2>. QED
    BY <2>1, <2>2, InvStored
<1>4. ASSUME NEW v \in Vectors, NEW w \in Vectors, AddAll(v, w) PROVE Inv'
  <2>. DEFINE f == [k \in Words |-> data_[v][k] \cup data_[w][k]]
  <2>1. f = [k \in Words |-> f[k]] /\ \A k \in Words : WellFormed(k, f[k])
    BY CallsWellFormed
  <2>2. data_' = [data_ EXCEPT ![v] = f] /\ result' \in BOOLEAN /\ defined' = defined
    BY <1>4 DEF AddAll, StoreChanged, Store
  <2>. HIDE DEF f
  <2>. QED
    BY <2>1, <2>2, InvStored
<1>5. ASSUME NEW v \in Vectors, NEW u \in Vectors, NEW w \in Vectors, KillAndAdd(v, u, w) PROVE Inv'
  <2>. DEFINE f == [k \in Words |-> data_[v][k] \cup (data_[w][k] \ data_[u][k])]
  <2>1. f = [k \in Words |-> f[k]] /\ \A k \in Words : WellFormed(k, f[k])
    BY CallsWellFormed
  <2>2. data_' = [data_ EXCEPT ![v] = f] /\ result' \in BOOLEAN /\ defined' = defined
    BY <1>5 DEF KillAndAdd, StoreChanged, Store
  <2>. HIDE DEF f
  <2>. QED
    BY <2>1, <2>2, InvStored
<1>6. CASE UNCHANGED vars
  BY <1>6 DEF vars, Inv, TypeOK, WellFormed, Together, Shiftable, Mask, Word, Bit
<1>. QED
  BY <1>1, <1>2, <1>3, <1>4, <1>5, <1>6 DEF Next

(* Every call keeps the types of the vectors' words, and an index always   *)
(* has a word, whatever the sizes; bit_vector.h:15-72.                     *)
THEOREM TypesHold == Spec => []TypeOK
<1>1. Inv => TypeOK
  BY DEF Inv
<1>. QED
  BY <1>1, InvInit, InvNext, PTL DEF Spec

(* No sequence of calls separates the bits from the sign bit up, whatever  *)
(* the sizes of int and word are; bit_vector.h:28-32.                      *)
THEOREM SignBitsStayTogether == Spec => []SignBitsTogether
  BY InvImpliesSignBitsTogether, InvInit, InvNext, PTL DEF Spec

-----------------------------------------------------------------------------
(* The indices of which words hold the bit. *)
MembersOf(f) == { i \in Indices : Shiftable(i) /\ Bit(i) \in f[Word(i)] }

LEMMA MembersByBit ==
  ASSUME Inv, NEW v \in Vectors
  PROVE  Members(v) = MembersOf(data_[v])
<1>1. ASSUME NEW i \in Indices, Shiftable(i)
      PROVE  (data_[v][Word(i)] \cap Mask(i) # {}) <=> Bit(i) \in data_[v][Word(i)]
  <2>1. WellFormed(Word(i), data_[v][Word(i)])
    BY Located DEF Inv
  <2>. QED
    BY <1>1, <2>1, MaskMeets DEF WellFormed
<1>. QED
  BY <1>1 DEF Members, MembersOf

LEMMA MembersByBitNext ==
  ASSUME Inv', NEW v \in Vectors
  PROVE  Members(v)' = MembersOf(data_'[v])
<1>1. ASSUME NEW i \in Indices, Shiftable(i)
      PROVE  (data_'[v][Word(i)] \cap Mask(i) # {}) <=> Bit(i) \in data_'[v][Word(i)]
  <2>1. Together(data_'[v][Word(i)]) /\ data_'[v][Word(i)] \subseteq Bits
    BY Located DEF Inv, WellFormed, Together
  <2>. QED
    BY <1>1, <2>1, MaskMeets
<1>. QED
  BY <1>1 DEF Members, MembersOf, Shiftable, Mask, Word, Bit

(* What a call that stores f in v is to a user of the sets. *)
LEMMA StoreIsBecomes ==
  ASSUME Inv, Inv', NEW v \in Vectors, NEW f,
         data_' = [data_ EXCEPT ![v] = f], defined, defined' = defined
  PROVE  IS!Becomes(v, MembersOf(f), result')
<1>1. data_'[v] = f /\ \A w \in Vectors : w # v => data_'[w] = data_[w]
  BY DEF Inv, TypeOK
<1>2. \A w \in Vectors : Members(w)' = IF w = v THEN MembersOf(f) ELSE Members(w)
  BY <1>1, MembersByBit, MembersByBitNext
<1>3. [w \in Vectors |-> Members(w)]' = [[w \in Vectors |-> Members(w)] EXCEPT ![v] = MembersOf(f)]
  BY <1>2
<1>. QED
  BY <1>3 DEF IS!Becomes

Exact == { i \in Indices : Shiftable(i) }

LEMMA AddOrRemoveImplements ==
  ASSUME Inv, Inv', NEW v \in Vectors, NEW i \in Indices, Shiftable(i),
         Add(v, i) \/ Remove(v, i) \/ Contains(v, i)
  PROVE  IS!Add(v, i) \/ IS!Remove(v, i) \/ IS!Contains(v, i)
<1>. DEFINE k == Word(i)
            m == [w \in Vectors |-> Members(w)]
<1>0. k \in Words /\ m[v] = MembersOf(data_[v]) /\ i \in Exact
  BY Located, MembersByBit DEF Exact
<1>1. /\ WellFormed(k, data_[v][k] \cup Mask(i))
      /\ WellFormed(k, data_[v][k] \ Mask(i))
      /\ WellFormed(k, data_[v][k])
  BY CallsWellFormed
<1>2. \A j \in Indices : Shiftable(j) /\ Word(j) = k => (Bit(j) \in Mask(i) <=> j = i)
  BY MaskApart, MaskWellFormed
<1>3. CASE Add(v, i)
  <2>. DEFINE f == [data_[v] EXCEPT ![k] = data_[v][k] \cup Mask(i)]
  <2>1. f = [data_[v] EXCEPT ![k] = data_[v][k] \cup Mask(i)]
    OBVIOUS
  <2>2. /\ data_' = [data_ EXCEPT ![v][k] = data_[v][k] \cup Mask(i)]
        /\ result' = result /\ defined /\ defined' = defined
    BY <1>3 DEF Add, StoreWord
  <2>. HIDE DEF f
  <2>3. /\ data_' = [data_ EXCEPT ![v] = f]
        /\ \A l \in Words : f[l] = IF l = k THEN data_[v][k] \cup Mask(i) ELSE data_[v][l]
    BY <1>0, <2>1, <2>2 DEF Inv, TypeOK
  <2>4. \A j \in Indices : Shiftable(j) => (Bit(j) \in f[Word(j)] <=> Bit(j) \in data_[v][Word(j)] \/ j = i)
    BY <1>2, <2>3, Located
  <2>5. MembersOf(f) = MembersOf(data_[v]) \cup {i}
    BY <2>4 DEF MembersOf
  <2>6. IS!Becomes(v, MembersOf(f), result')
    BY <2>2, <2>3, StoreIsBecomes
  <2>. QED
    BY <1>0, <2>2, <2>5, <2>6 DEF IS!Add, Exact
<1>4. CASE Remove(v, i)
  <2>. DEFINE f == [data_[v] EXCEPT ![k] = data_[v][k] \ Mask(i)]
  <2>1. f = [data_[v] EXCEPT ![k] = data_[v][k] \ Mask(i)]
    OBVIOUS
  <2>2. /\ data_' = [data_ EXCEPT ![v][k] = data_[v][k] \ Mask(i)]
        /\ result' = result /\ defined /\ defined' = defined
    BY <1>4 DEF Remove, StoreWord
  <2>. HIDE DEF f
  <2>3. /\ data_' = [data_ EXCEPT ![v] = f]
        /\ \A l \in Words : f[l] = IF l = k THEN data_[v][k] \ Mask(i) ELSE data_[v][l]
    BY <1>0, <2>1, <2>2 DEF Inv, TypeOK
  <2>4. \A j \in Indices : Shiftable(j) => (Bit(j) \in f[Word(j)] <=> Bit(j) \in data_[v][Word(j)] /\ j # i)
    BY <1>2, <2>3, Located
  <2>5. MembersOf(f) = MembersOf(data_[v]) \ {i}
    BY <2>4 DEF MembersOf
  <2>6. IS!Becomes(v, MembersOf(f), result')
    BY <2>2, <2>3, StoreIsBecomes
  <2>. QED
    BY <1>0, <2>2, <2>5, <2>6 DEF IS!Remove, Exact
<1>5. CASE Contains(v, i)
  <2>1. /\ data_' = [data_ EXCEPT ![v][k] = data_[v][k]] /\ defined /\ defined' = defined
        /\ result' = (data_[v][k] \cap Mask(i) # {})
    BY <1>5 DEF Contains, StoreWord
  <2>2. data_' = [data_ EXCEPT ![v] = data_[v]]
    BY <2>1 DEF Inv, TypeOK
  <2>3. IS!Becomes(v, MembersOf(data_[v]), result')
    BY <2>1, <2>2, StoreIsBecomes
  <2>4. result' = (Bit(i) \in data_[v][k])
    BY <1>1, <2>1, MaskMeets DEF WellFormed
  <2>5. result' = (i \in MembersOf(data_[v]))
    BY <2>4 DEF MembersOf
  <2>. QED
    BY <1>0, <2>3, <2>5 DEF IS!Contains, Exact
<1>. QED
  BY <1>3, <1>4, <1>5

(* The calls on whole vectors. *)
LEMMA ClearImplements ==
  ASSUME Inv, Inv', NEW v \in Vectors, Clear(v)
  PROVE  IS!Clear(v)
<1>. DEFINE f == [k \in Words |-> {}]
<1>1. data_' = [data_ EXCEPT ![v] = f] /\ result' = result /\ defined /\ defined' = defined
  BY DEF Clear, Store
<1>2. MembersOf(f) = {}
  BY Located DEF MembersOf
<1>. HIDE DEF f
<1>3. IS!Becomes(v, MembersOf(f), result')
  BY <1>1, StoreIsBecomes
<1>. QED
  BY <1>1, <1>2, <1>3 DEF IS!Clear

LEMMA IntersectImplements ==
  ASSUME Inv, Inv', NEW v \in Vectors, NEW w \in Vectors, Intersect(v, w)
  PROVE  IS!Intersect(v, w)
<1>. DEFINE f == [k \in Words |-> data_[v][k] \cap data_[w][k]]
<1>1. data_' = [data_ EXCEPT ![v] = f] /\ result' = result /\ defined /\ defined' = defined
  BY DEF Intersect, Store
<1>2. MembersOf(f) = MembersOf(data_[v]) \cap MembersOf(data_[w])
  BY Located DEF MembersOf
<1>3. Members(v) = MembersOf(data_[v]) /\ Members(w) = MembersOf(data_[w])
  BY MembersByBit
<1>. HIDE DEF f
<1>4. IS!Becomes(v, MembersOf(f), result')
  BY <1>1, StoreIsBecomes
<1>. QED
  BY <1>1, <1>2, <1>3, <1>4 DEF IS!Intersect

(* A word changes exactly when the vector gains an index. *)
LEMMA ChangedIsGained ==
  ASSUME Inv, NEW v \in Vectors, NEW g \in [Words -> SUBSET Bits],
         \A k \in Words : WellFormed(k, g[k])
  PROVE  /\ (\E k \in Words : data_[v][k] \cup g[k] # data_[v][k])
              <=> ~(MembersOf(g) \subseteq MembersOf(data_[v]))
         /\ MembersOf([k \in Words |-> data_[v][k] \cup g[k]])
              = MembersOf(data_[v]) \cup MembersOf(g)
<1>1. ASSUME NEW k \in Words, ~(g[k] \subseteq data_[v][k])
      PROVE  ~(MembersOf(g) \subseteq MembersOf(data_[v]))
  <2>1. WellFormed(k, data_[v][k]) /\ WellFormed(k, g[k])
    BY DEF Inv
  <2>2. PICK i \in Indices : Shiftable(i) /\ Word(i) = k /\ Bit(i) \in g[k] /\ Bit(i) \notin data_[v][k]
    BY <1>1, <2>1, GainsIndex
  <2>. QED
    BY <2>2 DEF MembersOf
<1>2. ASSUME NEW i \in MembersOf(g), i \notin MembersOf(data_[v])
      PROVE  \E k \in Words : ~(g[k] \subseteq data_[v][k])
  BY <1>2, Located DEF MembersOf
<1>3. MembersOf([k \in Words |-> data_[v][k] \cup g[k]]) = MembersOf(data_[v]) \cup MembersOf(g)
  BY Located DEF MembersOf
<1>. QED
  BY <1>1, <1>2, <1>3

LEMMA AddAllImplements ==
  ASSUME Inv, Inv', NEW v \in Vectors, NEW w \in Vectors, AddAll(v, w)
  PROVE  IS!AddAll(v, w)
<1>. DEFINE f == [k \in Words |-> data_[v][k] \cup data_[w][k]]
<1>1. /\ data_' = [data_ EXCEPT ![v] = f] /\ defined /\ defined' = defined
      /\ result' = (\E k \in Words : data_[v][k] \cup data_[w][k] # data_[v][k])
  BY DEF AddAll, StoreChanged, Store
<1>2. /\ data_[w] \in [Words -> SUBSET Bits] /\ \A k \in Words : WellFormed(k, data_[w][k])
      /\ Members(v) = MembersOf(data_[v]) /\ Members(w) = MembersOf(data_[w])
  BY MembersByBit DEF Inv, TypeOK
<1>3. /\ MembersOf(f) = MembersOf(data_[v]) \cup MembersOf(data_[w])
      /\ result' = ~(MembersOf(data_[w]) \subseteq MembersOf(data_[v]))
  BY <1>1, <1>2, ChangedIsGained
<1>. HIDE DEF f
<1>4. IS!Becomes(v, MembersOf(f), result')
  BY <1>1, StoreIsBecomes
<1>. QED
  BY <1>2, <1>3, <1>4 DEF IS!AddAll

LEMMA KillAndAddImplements ==
  ASSUME Inv, Inv', NEW v \in Vectors, NEW u \in Vectors, NEW w \in Vectors, KillAndAdd(v, u, w)
  PROVE  IS!KillAndAdd(v, u, w)
<1>. DEFINE g == [k \in Words |-> data_[w][k] \ data_[u][k]]
            f == [k \in Words |-> data_[v][k] \cup g[k]]
<1>1. /\ data_' = [data_ EXCEPT ![v] = f] /\ defined /\ defined' = defined
      /\ result' = (\E k \in Words : data_[v][k] \cup g[k] # data_[v][k])
  BY DEF KillAndAdd, StoreChanged, Store
<1>2. \A k \in Words : WellFormed(k, g[k])
  BY WellFormedClosed DEF Inv
<1>3. /\ g \in [Words -> SUBSET Bits]
      /\ Members(v) = MembersOf(data_[v]) /\ Members(w) = MembersOf(data_[w])
      /\ Members(u) = MembersOf(data_[u])
  BY MembersByBit DEF Inv, TypeOK
<1>4. MembersOf(g) = MembersOf(data_[w]) \ MembersOf(data_[u])
  BY Located DEF MembersOf
<1>. HIDE DEF g
<1>5. /\ MembersOf(f) = MembersOf(data_[v]) \cup MembersOf(g)
      /\ result' = ~(MembersOf(g) \subseteq MembersOf(data_[v]))
  BY <1>1, <1>2, <1>3, ChangedIsGained
<1>. HIDE DEF f
<1>6. IS!Becomes(v, MembersOf(f), result')
  BY <1>1, StoreIsBecomes
<1>. QED
  BY <1>3, <1>4, <1>5, <1>6 DEF IS!KillAndAdd

-----------------------------------------------------------------------------
LEMMA InitImplements == Init => IS!Init
<1>. SUFFICES ASSUME Init PROVE IS!Init
  OBVIOUS
<1>1. \A v \in Vectors : Members(v) = {}
  BY Located DEF Init, Members
<1>. QED
  BY <1>1 DEF Init, IS!Init

LEMMA StepImplements ==
  ASSUME Inv, Inv', [Next]_vars
  PROVE  [IS!Next]_(IS!vars)
<1>1. ASSUME NEW v \in Vectors, Clear(v) PROVE IS!Next
  BY <1>1, ClearImplements DEF IS!Next
<1>2. ASSUME NEW v \in Vectors, NEW i \in Indices, Add(v, i) \/ Remove(v, i) \/ Contains(v, i)
      PROVE  IS!Next
  <2>1. CASE Shiftable(i)
    BY <1>2, <2>1, AddOrRemoveImplements DEF IS!Next
  <2>2. CASE ~Shiftable(i)
    <3>1. Undefined
      BY <1>2, <2>2 DEF Add, Remove, Contains
    <3>2. Indices # { j \in Indices : Shiftable(j) }
      BY <2>2
    <3>3. \A w \in Vectors : Members(w)' = Members(w)
      BY <3>1 DEF Undefined, Members, Shiftable, Mask, Word, Bit
    <3>. QED
      BY <3>1, <3>2, <3>3 DEF Undefined, IS!Leave, IS!Next
  <2>. QED
    BY <2>1, <2>2
<1>3. ASSUME NEW v \in Vectors, NEW w \in Vectors, Intersect(v, w) PROVE IS!Next
  BY <1>3, IntersectImplements DEF IS!Next
<1>4. ASSUME NEW v \in Vectors, NEW w \in Vectors, AddAll(v, w) PROVE IS!Next
  BY <1>4, AddAllImplements DEF IS!Next
<1>5. ASSUME NEW v \in Vectors, NEW u \in Vectors, NEW w \in Vectors, KillAndAdd(v, u, w)
      PROVE  IS!Next
  BY <1>5, KillAndAddImplements DEF IS!Next
<1>6. CASE UNCHANGED vars
  <2>1. \A w \in Vectors : Members(w)' = Members(w)
    BY <1>6 DEF vars, Members, Shiftable, Mask, Word, Bit
  <2>. QED
    BY <1>6, <2>1 DEF vars, IS!vars
<1>. QED
  BY <1>1, <1>2, <1>3, <1>4, <1>5, <1>6 DEF Next

(* BitVector implements IndexSet, whatever the sizes of a vector, a word   *)
(* and an int are: each of its calls is the set operation of its name on   *)
(* indices whose bit fits in an int; bit_vector.h:23-72.                   *)
THEOREM BitVectorImplementsIndexSet == Spec => ImplementsIndexSet
<1>1. Spec => []Inv
  BY InvInit, InvNext, PTL DEF Spec
<1>2. Init => IS!Init
  BY InitImplements
<1>3. Inv /\ Inv' /\ [Next]_vars => [IS!Next]_(IS!vars)
  BY StepImplements
<1>. QED
  BY <1>1, <1>2, <1>3, PTL DEF Spec, ImplementsIndexSet, IS!Spec
=============================================================================
