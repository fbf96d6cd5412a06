--------------------------- MODULE LexerProperties ---------------------------
(***************************************************************************)
(* What NextToken must do: its types, a reference tokenisation that says   *)
(* for a whole text where each token ends, what an identifier can be, and  *)
(* which texts make the lexer read forever.                                *)
(***************************************************************************)
EXTENDS Lexer, SequencesExt

TokenKind == PlainKinds \cup {"kIDENTIFIER", "kEOF"}

(* Types of the lexer's locals and of the tokens it has returned.          *)
TypeOK ==
  /\ file_ \in Files
  /\ at \in 0 .. Len(file_)
  /\ pc \in {"Real", "String", "Number", "Word", "Done"}
  /\ stream \in Seq(Char)
  /\ dbl \in BOOLEAN
  /\ tokens \in Seq([kind : TokenKind, text : Seq(Char)])

-----------------------------------------------------------------------------
(* The reference.  Lexeme(t, i, j): the characters i to j of t are a token *)
(* that starts at i; there is at most one such j.                          *)

Least(S) == CHOOSE x \in S : \A y \in S : x <= y

KindsSpelled(c) == { k \in DOMAIN SymbolText : SymbolText[k] = c }

StringEnds(t, i) == { j \in i + 1 .. Len(t) : t[j] = Quote }

(* The longest digits with at most one point among them. *)
NumberEnds(t, i) ==
  { j \in i .. Len(t) : /\ \A k \in i .. j : t[k] \in Digit \cup {Point}
                        /\ \A k, l \in i .. j : t[k] = Point /\ t[l] = Point => k = l }

KeywordEnds(t, i) ==
  { j \in i + 1 .. Len(t) : \E k \in DOMAIN KeywordText : KeywordText[k] = SubSeq(t, i, j) }

(* Just before a space or a symbol. *)
WordEnds(t, i) ==
  { j \in i .. Len(t) - 1 : t[j + 1] \in Space \/ IsSymbol(t[j + 1]) }

(* The ends of the token that starts at i: empty if it is never finished.  *)
(* A byte 0xFF is a token there.                                           *)
Ends(t, i) ==
  CASE KindsSpelled(t[i]) # {} \/ t[i] = Eof -> {i}
    [] t[i] = Quote -> StringEnds(t, i)
    [] t[i] \in Digit -> LET S == NumberEnds(t, i) IN { j \in S : j + 1 \notin S }
    [] OTHER -> KeywordEnds(t, i) \cup WordEnds(t, i)

EofToken == [kind |-> "kEOF", text |-> <<>>]

TokenAt(t, i, j) ==
  LET text == SubSeq(t, i, j)
  IN  CASE t[i] = Eof -> EofToken
        [] KindsSpelled(t[i]) # {} ->
             [kind |-> CHOOSE k \in KindsSpelled(t[i]) : TRUE, text |-> text]
        [] t[i] = Quote -> [kind |-> "kLIT_STRING", text |-> SubSeq(t, i + 1, j - 1)]
        [] t[i] \in Digit -> [kind |-> "kLIT_NUMBER", text |-> text]
        [] OTHER -> [kind |-> IF j \in KeywordEnds(t, i) THEN GetKeyword(text)
                              ELSE "kIDENTIFIER",
                     text |-> text]

(* The tokens of t from its i-th character on, and whether they end.       *)
Reference(t) ==
  LET from[i \in 1 .. Len(t) + 1] ==
        IF i <= Len(t) /\ t[i] \in Space THEN from[i + 1]
        ELSE IF i <= Len(t) /\ Ends(t, i) # {}
        THEN LET j == Least(Ends(t, i))
             IN  [from[j + 1] EXCEPT !.tokens = <<TokenAt(t, i, j)>> \o @]
        ELSE [tokens |-> IF i > Len(t) THEN <<EofToken>> ELSE <<>>, ends |-> i > Len(t)]
  IN  from[1]

(* The tokens returned are always the first ones of the reference, and all *)
(* of them once the lexer is done: no character is lost or read twice      *)
(* where one loop hands over to the next, and a byte 0xFF between two      *)
(* tokens costs neither of them.  NextToken with Peek, Next and NextReal   *)
(* (parser.h:29-44, parser.cc:89-142).                                     *)
TokensFollowReference ==
  LET expected == Reference(file_).tokens
  IN  /\ IsPrefix(tokens, expected)
      /\ pc = "Done" => tokens = expected

(* No identifier begins with a keyword, and after its first character none *)
(* has a symbol: `variable' and `a_b' are never one token.  The loop over  *)
(* a word (parser.cc:128-137).                                             *)
StartsWith(text, word) ==
  Len(word) <= Len(text) /\ \A i \in 1 .. Len(word) : text[i] = word[i]

IdentifierText(text) ==
  /\ \A k \in DOMAIN KeywordText : ~StartsWith(text, KeywordText[k])
  /\ \A i \in 2 .. Len(text) : ~IsSymbol(text[i]) /\ text[i] \notin Space

IdentifiersCut ==
  \A i \in DOMAIN tokens :
    tokens[i].kind = "kIDENTIFIER" => IdentifierText(tokens[i].text)

(* What the parser may count on: a text whose last string and last word    *)
(* are closed is read to its end; any other text is read forever, inside   *)
(* the token it leaves open.  The loops at parser.cc:109 and 128.          *)
LexEnds ==
  IF Reference(file_).ends THEN <>(pc = "Done") ELSE <>[](pc \in {"String", "Word"})
=============================================================================
