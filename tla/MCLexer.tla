------------------------------- MODULE MCLexer -------------------------------
(***************************************************************************)
(* Small instances of Lexer: every short text over an alphabet that holds  *)
(* one character of each kind, longer texts around one keyword, and        *)
(* Example.esch.                                                           *)
(***************************************************************************)
EXTENDS LexerProperties, ExampleFile

TextsOver(alphabet, n) == UNION { [1 .. k -> alphabet] : k \in 0 .. n }

AnyText   == TextsOver({"v", "1", Point, Quote, " ", "=", "_", "[", Eof}, 4)
WordTexts == TextsOver({"v", "a", "r", "="}, 6)
OneLoop   == TextsOver({"1", Point, "a"}, 6)

SmallFiles == AnyText \cup WordTexts \cup OneLoop \cup {ExampleText}

(* Their characters, and those of the keywords.                            *)
Chars ==
  Space \cup {Eof, Quote, Point, "_", "[", "=", "{", "}", "(", ")", ":", ";", ",", "+", "*"}
    \cup {"0", "1", "2"} \cup {"F", "I", "M", "N", "P", "S", "T", "a", "b", "c", "d", "e", "f",
          "g", "h", "i", "j", "k", "l", "m", "n", "o", "p", "r", "s", "t", "u", "v", "w", "x", "y"}

(* The characters of Example.esch become the tokens that the parser's runs *)
(* start from: the same kinds, and the same identifiers.                   *)
ExampleTokens ==
  file_ = ExampleText /\ pc = "Done" =>
    /\ Len(tokens) = Len(Example) + 1
    /\ \A i \in DOMAIN Example :
         /\ tokens[i].kind = Example[i].kind
         /\ tokens[i].kind = "kIDENTIFIER" => tokens[i].text = Spelling[Example[i].text]
=============================================================================
