---------------------------- MODULE MCFlowGraph ------------------------------
(***************************************************************************)
(* Small instances of FlowGraphBuilder: every body of at most two          *)
(* statements and four leaves over one literal, one local and one field.   *)
(***************************************************************************)
EXTENDS FlowGraphProperties

Lit   == Place("Literal", DoubleClass, 0)
Loc   == Place("Local", 1, 1)
Other == Place("Local", 1, 2)
Fld   == Place("StaticField", 7, 1)

ExprsOf(leaves, n) ==
  [leaves : [1 .. n -> leaves], ops : [1 .. n - 1 -> {"kPLUS", "kMULTIPLY"}]]
StmtsOf(dests, leaves, n) == [dest : dests, value : ExprsOf(leaves, n)]

(* Bodies with a given number of leaves per statement. *)
OneStatement(dests, leaves, n) == { <<s>> : s \in StmtsOf(dests, leaves, n) }
TwoStatements(dests, leaves, m, n) ==
  { <<s, t>> : s \in StmtsOf(dests, leaves, m), t \in StmtsOf(dests, leaves, n) }

Places == {Lit, Loc, Fld}
Dests  == {Loc, Other, Fld}

(* Without return statements: an empty body, one statement of up to four   *)
(* leaves, two of up to three together.                                    *)
PlainBodies ==
  {<<>>} \cup UNION { OneStatement(Dests, Places, n) : n \in 1 .. 4 }
    \cup UNION { TwoStatements(Dests, Places, m, n) :
                   <<m, n>> \in {<<1, 1>>, <<1, 2>>, <<2, 1>>} }

(* With a return statement before, after or without another statement.     *)
MixedBodies ==
  UNION { OneStatement({Loc, Fld, ReturnPlace}, Places, n) : n \in 1 .. 3 }
    \cup TwoStatements({Loc, ReturnPlace}, {Lit, Fld}, 1, 2)

SmallBodies == PlainBodies \cup MixedBodies
=============================================================================
