------------------------------- MODULE Array --------------------------------
(***************************************************************************)
(* Array<T> of Sources/array.h, without its elements: how many slots it    *)
(* uses, how many it believes it has, and how many the block behind data_  *)
(* really has.                                                             *)
(***************************************************************************)
EXTENDS Naturals, FiniteSetsExt

(* Sizes stay below 2 ^ MaxShift here; the code's words are wider. *)
MaxShift == 30

(* RoundUpPowTwo of Sources/common.h: the least power of two that is not   *)
(* below x; 0 - 1 is all ones, so that 0 stays 0.                          *)
RoundUpPowTwo(x) ==
  IF x = 0 THEN 0 ELSE Min({ n \in { 2 ^ k : k \in 0 .. MaxShift } : n >= x })

NewArray(initialCap) ==
  [length |-> 0, capacity |-> RoundUpPowTwo(initialCap),
   block |-> RoundUpPowTwo(initialCap)]

(* Mutants: growing does not count the new slot; the block is never        *)
(* enlarged.                                                               *)
ResizeKeepingLength(array, newLen) ==
  IF newLen > array.capacity
  THEN [length |-> newLen, capacity |-> RoundUpPowTwo(newLen), block |-> newLen]
  ELSE array

ResizeWithoutRealloc(array, newLen) ==
  [length |-> newLen, capacity |-> RoundUpPowTwo(newLen), block |-> array.block]

(* Resize reallocs newLen slots but records RoundUpPowTwo(newLen) of them. *)
Resize(array, newLen) ==
  IF newLen > array.capacity
  THEN [length |-> newLen, capacity |-> RoundUpPowTwo(newLen), block |-> newLen]
  ELSE [array EXCEPT !.length = newLen]

(* Add writes the slot that Resize has added. *)
Add(array) == Resize(array, array.length + 1)

(* Whether every slot in use lies in the block. *)
InBlock(array) == array.length <= array.block
=============================================================================
