------------------------------ MODULE MCParser -------------------------------
(***************************************************************************)
(* Small instances of Parser for TLC.  A prefix puts the parser at the     *)
(* start of one construct; the tokens after it are arbitrary.              *)
(***************************************************************************)
EXTENDS ParserProperties, ExampleFile

NoPrefix == <<>>
AnyToken == Token

(* class A{ Int A(A: Int){ return A } }                                    *)
OneClass ==
  <<K("kCLASS"), Id("A"), K("kLBRACE")>>
  \o <<Id("Int"), Id("A"), K("kLPAREN")>> \o Typed("A", "Int") \o <<K("kRPAREN")>>
  \o <<K("kLBRACE"), K("kRETURN"), Id("A"), K("kRBRACE"), K("kRBRACE")>>

(* A local declared Int is initialised by an Int when its initialiser is a *)
(* number: `var ten: Int = 10' of Example.esch (line 18), against the      *)
(* literals of ParseUnaryExpr (parser.cc:28).                              *)
IntLocalsHoldInts ==
  \A c \in DOMAIN classes : \A f \in DOMAIN classes[c].functions :
    \A i \in DOMAIN classes[c].functions[f].ast :
      LET stmt == classes[c].functions[f].ast[i]
          declared == scopes[stmt.dest.at[1]].vars[stmt.dest.at[2]].type
          value == stmt.value.leaves[1]
      IN  /\ stmt.dest.on = "Local" /\ declared = IntClass
          /\ Len(stmt.value.leaves) = 1 /\ value.on = "Literal"
          => value.at[1] = IntClass
=============================================================================
