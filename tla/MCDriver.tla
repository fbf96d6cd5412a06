------------------------------ MODULE MCDriver -------------------------------
(***************************************************************************)
(* Small instances of Driver: the user's file is Example.esch up to the    *)
(* keyword of its last definition, and then any tokens of MainTokens.      *)
(***************************************************************************)
EXTENDS DriverProperties, ExampleFile

(* Example.esch up to the name of Main's function. *)
UpToFunc ==
  LET last == CHOOSE i \in DOMAIN Example : Example[i] = K("kFUNC")
  IN  SubSeq(Example, 1, last)

MainTokens ==
  {Id("Main"), Id("main"), Id("Int")}
    \cup { K(kind) : kind \in {"kLBRACE", "kRBRACE", "kLPAREN", "kRPAREN", "kVAR",
                               "kCOLON", "kEQUALS", "kLIT_NUMBER", "kSEMICOLON", "kRETURN"} }

(* `main(){ ... } }' takes six tokens, the body the others. *)
Longest   == Len(UpToFunc) + 13

Names     == ExampleNames
Sizes     == {1, 8, 9}
=============================================================================
