----------------------------- MODULE ExampleFile -----------------------------
(***************************************************************************)
(* The repository's Example.esch, as the tokens that the parser reads and  *)
(* as the characters that the lexer reads.                                 *)
(***************************************************************************)
EXTENDS Sequences

K(kind)  == [kind |-> kind, text |-> ""]
Id(name) == [kind |-> "kIDENTIFIER", text |-> name]
Typed(name, type) == <<Id(name), K("kCOLON"), Id(type)>>

(* The tokens of Example.esch. *)
Example ==
  <<K("kENUM"), Id("Modifier"), K("kLBRACE"),
      Id("kPrivate"), K("kCOMMA"), Id("kStatic"), K("kCOMMA"), Id("kNone"), K("kRBRACE")>>
  \o <<K("kCLASS"), Id("Field"), K("kLBRACE")>>
  \o <<K("kPRIVATE"), K("kVAR")>> \o Typed("mod", "Modifier")
  \o   <<K("kEQUALS"), K("kLIT_NUMBER"), K("kSEMICOLON")>>
  \o <<K("kVAR")>> \o Typed("name", "String")
  \o   <<K("kEQUALS"), K("kLIT_STRING"), K("kSEMICOLON")>>
  \o <<Id("String"), Id("getName"), K("kLPAREN")>> \o Typed("y", "String")
  \o   <<K("kRPAREN"), K("kLBRACE"), K("kRETURN"), Id("name"), K("kPLUS"), Id("y"),
         K("kSEMICOLON"), K("kRBRACE"), K("kRBRACE")>>
  \o <<K("kOBJECT"), Id("Main"), K("kLBRACE")>>
  \o <<K("kFUNC"), Id("main"), K("kLPAREN"), K("kRPAREN"), K("kLBRACE"), K("kVAR")>>
  \o   Typed("ten", "Int") \o <<K("kEQUALS"), K("kLIT_NUMBER"), K("kCOMMA")>>
  \o   Typed("twenty", "Int") \o <<K("kEQUALS"), Id("ten"), K("kMULTIPLY"),
         K("kLIT_NUMBER"), K("kSEMICOLON"), K("kRBRACE"), K("kRBRACE")>>

ExampleNames == {"Modifier", "kPrivate", "kStatic", "kNone", "Field", "mod", "name",
                 "getName", "y", "Main", "main", "ten", "twenty", "Int", "String"}

(* The characters of each name, and of the whole file.                     *)
Spelling ==
  [Modifier |-> <<"M","o","d","i","f","i","e","r">>,
   kPrivate |-> <<"k","P","r","i","v","a","t","e">>,
   kStatic |-> <<"k","S","t","a","t","i","c">>,
   kNone |-> <<"k","N","o","n","e">>,
   Field |-> <<"F","i","e","l","d">>,
   mod |-> <<"m","o","d">>,
   name |-> <<"n","a","m","e">>,
   getName |-> <<"g","e","t","N","a","m","e">>,
   y |-> <<"y">>,
   Main |-> <<"M","a","i","n">>,
   main |-> <<"m","a","i","n">>,
   ten |-> <<"t","e","n">>,
   twenty |-> <<"t","w","e","n","t","y">>,
   Int |-> <<"I","n","t">>,
   String |-> <<"S","t","r","i","n","g">>]

ExampleText ==
  <<"e","n","u","m"," ","M","o","d","i","f","i","e","r","{","\n">>
  \o <<" "," "," "," ","k","P","r","i","v","a","t","e",",","\n">>
  \o <<" "," "," "," ","k","S","t","a","t","i","c",",","\n">>
  \o <<" "," "," "," ","k","N","o","n","e","\n">>
  \o <<"}","\n">>
  \o <<"\n">>
  \o <<"c","l","a","s","s"," ","F","i","e","l","d","{","\n">>
  \o <<" "," "," "," ","p","r","i","v","a","t","e"," ","v","a","r"," ","m","o">>
  \o <<"d",":"," ","M","o","d","i","f","i","e","r"," ","="," ","0",";","\n">>
  \o <<" "," "," "," ","v","a","r"," ","n","a","m","e",":"," ","S","t","r","i","n","g"," ","=">>
  \o <<" ","\"","T","h","i","s"," ","i","s"," ","a"," ","s","t","r","i","n","g","\"",";","\n">>
  \o <<"\n">>
  \o <<" "," "," "," ","S","t","r","i","n","g"," ","g","e","t","N","a">>
  \o <<"m","e","(","y",":"," ","S","t","r","i","n","g",")","{","\n">>
  \o <<" "," "," "," "," "," "," "," ","r","e","t","u","r">>
  \o <<"n"," ","n","a","m","e"," ","+"," ","y",";","\n">>
  \o <<" "," "," "," ","}","\n">>
  \o <<"}","\n">>
  \o <<"\n">>
  \o <<"o","b","j","e","c","t"," ","M","a","i","n","{","\n">>
  \o <<" "," "," "," ","f","u","n","c"," ","m","a","i","n","(",")","{","\n">>
  \o <<" "," "," "," "," "," "," "," ","v","a","r"," ","t","e">>
  \o <<"n",":"," ","I","n","t"," ","="," ","1","0",",","\n">>
  \o <<" "," "," "," "," "," "," "," "," "," "," "," ","t","w","e","n","t","y">>
  \o <<":"," ","I","n","t"," ","="," ","t","e","n"," ","*"," ","2",";","\n">>
  \o <<" "," "," "," ","}","\n">>
  \o <<"}">>
=============================================================================
