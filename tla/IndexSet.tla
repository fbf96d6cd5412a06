------------------------------ MODULE IndexSet -------------------------------
(***************************************************************************)
(* What a user of BitVector may rely on: each vector is a set of indices,  *)
(* and the operations are those of sets, as long as every index is one     *)
(* that the vectors represent exactly.  After any other, nothing is        *)
(* promised.                                                               *)
(***************************************************************************)
EXTENDS Naturals

CONSTANTS Vectors, Indices, Exact

VARIABLES
  members,   \* the indices in each vector
  result,    \* what the last operation that returns a bool has returned
  defined    \* every index so far was in Exact

vars == <<members, result, defined>>

Init ==
  /\ members = [v \in Vectors |-> {}]
  /\ result = FALSE
  /\ defined = TRUE

(* v becomes S, and the result is r. *)
Becomes(v, S, r) ==
  /\ defined
  /\ members' = [members EXCEPT ![v] = S]
  /\ result' = r
  /\ UNCHANGED defined

Clear(v)        == Becomes(v, {}, result)
Add(v, i)       == i \in Exact /\ Becomes(v, members[v] \cup {i}, result)
Remove(v, i)    == i \in Exact /\ Becomes(v, members[v] \ {i}, result)
Contains(v, i)  == i \in Exact /\ Becomes(v, members[v], i \in members[v])
Intersect(v, w) == Becomes(v, members[v] \cap members[w], result)

(* These tell whether the vector has changed. *)
AddAll(v, from) ==
  Becomes(v, members[v] \cup members[from], ~(members[from] \subseteq members[v]))
KillAndAdd(v, kill, gen) ==
  Becomes(v, members[v] \cup (members[gen] \ members[kill]),
          ~(members[gen] \ members[kill] \subseteq members[v]))

Leave ==
  /\ defined
  /\ Indices # Exact
  /\ defined' = FALSE
  /\ UNCHANGED <<members, result>>

Next ==
  \/ \E v \in Vectors : Clear(v)
  \/ \E v \in Vectors, i \in Indices : Add(v, i) \/ Remove(v, i) \/ Contains(v, i)
  \/ \E v, w \in Vectors : Intersect(v, w) \/ AddAll(v, w)
  \/ \E v, kill, gen \in Vectors : KillAndAdd(v, kill, gen)
  \/ Leave

Spec == Init /\ [][Next]_vars
=============================================================================
