----------------------------- MODULE LexerProofs -----------------------------
(***************************************************************************)
(* For every set of files: the lexer is well typed, no identifier it       *)
(* returns begins with a keyword or holds a symbol after its first         *)
(* character, and the tokens are those of the reference.                   *)
(*                                                                         *)
(* The argument for the last: the reference, a function defined by         *)
(* recursion from the end of the file, can be unfolded once                *)
(* (FromUnfold); whatever the lexer is doing, its token starts at a        *)
(* character from which the reference says what is still to come           *)
(* (Following), and has not ended yet (OpenAt).                            *)
(***************************************************************************)
EXTENDS LexerProperties, SequenceTheorems, NaturalsInduction, WellFoundedInduction, TLAPS

(* What the word in progress owes to IdentifiersCut. *)
WordOpen == pc = "Word" => stream # <<>> /\ IdentifierText(stream)

Inv == TypeOK /\ WordOpen /\ IdentifiersCut

LEMMA KeywordsTyped ==
  ASSUME NEW k \in DOMAIN KeywordText
  PROVE  /\ KeywordText[k] \in Seq(Char)
         /\ Len(KeywordText[k]) \in Nat /\ Len(KeywordText[k]) > 1
         /\ k \in PlainKinds
<1>1. KeywordText[k] \in Seq(Char)
  BY CharAssumption
<1>2. k \in PlainKinds
  BY DEF KeywordText, PlainKinds, Keywords, Literals
<1>3. KeywordText[k] \in {<<"e","n","u","m">>, <<"c","l","a","s","s">>,
        <<"p","r","i","v","a","t","e">>, <<"e","x","t","e","n","d","s">>, <<"n","i","l">>,
        <<"v","a","r">>, <<"f","u","n","c">>, <<"p","r","o","t","o">>,
        <<"o","b","j","e","c","t">>, <<"r","e","t","u","r","n">>, <<"t","r","u","e">>,
        <<"f","a","l","s","e">>}
  BY DEF KeywordText
<1>4. Len(KeywordText[k]) > 1
  BY SMTT(30), <1>3
<1>. QED
  BY <1>1, <1>2, <1>4, LenProperties

LEMMA SymbolsTyped ==
  ASSUME NEW k \in DOMAIN SymbolText
  PROVE  k \in PlainKinds
BY DEF SymbolText, PlainKinds, Symbols, Operators

(* One character never completes a keyword. *)
LEMMA FirstCharacter ==
  ASSUME NEW c \in Char
  PROVE  IdentifierText(<<c>>)
BY KeywordsTyped DEF IdentifierText, StartsWith

(* A word that has not become a keyword with its last character has none   *)
(* for a prefix.                                                           *)
LEMMA NextCharacter ==
  ASSUME NEW s \in Seq(Char), NEW c \in Char, s # <<>>, IdentifierText(s), InWord(c),
         ~IsKeyword(Append(s, c))
  PROVE  IdentifierText(Append(s, c))
<1>. DEFINE word == Append(s, c)
<1>1. /\ word \in Seq(Char) /\ Len(word) = Len(s) + 1
      /\ word[Len(word)] = c
      /\ \A i \in 1 .. Len(s) : word[i] = s[i]
      /\ Len(s) \in Nat /\ Len(word) \in Nat
  BY AppendProperties, LenProperties
<1>2. ASSUME NEW k \in DOMAIN KeywordText, StartsWith(word, KeywordText[k])
      PROVE  FALSE
  <2>. DEFINE keyword == KeywordText[k]
  <2>1. keyword \in Seq(Char) /\ Len(keyword) \in Nat /\ Len(keyword) <= Len(word)
        /\ \A i \in 1 .. Len(keyword) : word[i] = keyword[i]
    BY <1>2, KeywordsTyped DEF StartsWith
  <2>. HIDE DEF keyword, word
  <2>2. CASE Len(keyword) <= Len(s)
    <3>1. StartsWith(s, keyword)
      BY <1>1, <2>1, <2>2 DEF StartsWith
    <3>. QED
      BY <3>1 DEF IdentifierText, keyword
  <2>3. CASE Len(keyword) = Len(word)
    <3>1. keyword = word
      BY <1>1, <2>1, <2>3, SeqEqual
    <3>. QED
      BY <3>1 DEF IsKeyword, keyword, word
  <2>. QED
    BY <1>1, <2>1, <2>2, <2>3
<1>3. ASSUME NEW i \in 2 .. Len(word)
      PROVE  ~IsSymbol(word[i]) /\ word[i] \notin Space
  <2>. HIDE DEF word
  <2>1. CASE i = Len(word)
    BY <1>1, <2>1 DEF InWord
  <2>2. CASE i # Len(word)
    <3>1. i \in 2 .. Len(s)
      BY <1>1, <2>2
    <3>. QED
      BY <1>1, <3>1 DEF IdentifierText
  <2>. QED
    BY <2>1, <2>2
<1>. HIDE DEF word
<1>4. IdentifierText(word)
  BY <1>2, <1>3 DEF IdentifierText
<1>. QED
  BY <1>4 DEF word

-----------------------------------------------------------------------------
LEMMA PeekTyped ==
  ASSUME TypeOK
  PROVE  /\ Peek \in Char
         /\ file_ \in Seq(Char)
         /\ Read => at' \in 0 .. Len(file_)
<1>1. file_ \in Seq(Char)
  BY CharAssumption DEF TypeOK
<1>2. Peek \in Char
  BY <1>1, ElementOfSeq, CharAssumption DEF TypeOK, Peek
<1>. QED
  BY <1>1, <1>2, LenProperties DEF TypeOK, Read

(* Returning a token leaves what was returned before, and no word open.    *)
LEMMA ReturnKeeps ==
  ASSUME Inv, NEW kind \in TokenKind, NEW text \in Seq(Char), Return(kind, text),
         kind = "kIDENTIFIER" => IdentifierText(text),
         file_' = file_, at' \in 0 .. Len(file_)
  PROVE  Inv'
<1>. DEFINE T == [kind : TokenKind, text : Seq(Char)]
            token == [kind |-> kind, text |-> text]
<1>2. tokens \in Seq(T) /\ token \in T /\ tokens' = Append(tokens, token)
  BY DEF Inv, TypeOK, Return
<1>. HIDE DEF T, token
<1>1. TypeOK'
  <2>1. tokens' \in Seq(T)
    BY <1>2, AppendProperties
  <2>2. stream' \in Seq(Char)
    BY DEF Return
  <2>. QED
    BY <2>1, <2>2 DEF Inv, TypeOK, Return, T
<1>3. IdentifiersCut'
  <2>. SUFFICES ASSUME NEW i \in DOMAIN tokens', tokens'[i].kind = "kIDENTIFIER"
                PROVE  IdentifierText(tokens'[i].text)
    BY DEF IdentifiersCut, IdentifierText, StartsWith
  <2>1. /\ Len(tokens') = Len(tokens) + 1 /\ DOMAIN tokens' = 1 .. Len(tokens')
        /\ tokens'[Len(tokens')] = token
        /\ \A j \in 1 .. Len(tokens) : tokens'[j] = tokens[j]
        /\ Len(tokens) \in Nat /\ DOMAIN tokens = 1 .. Len(tokens)
    BY <1>2, AppendProperties, LenProperties
  <2>2. CASE i = Len(tokens')
    BY <2>1, <2>2 DEF token
  <2>3. CASE i # Len(tokens')
    <3>1. i \in DOMAIN tokens /\ tokens'[i] = tokens[i]
      BY <1>2, <2>1, <2>3
    <3>. QED
      BY <3>1 DEF Inv, IdentifiersCut
  <2>. QED
    BY <2>2, <2>3
<1>4. WordOpen'
  BY DEF WordOpen, Return
<1>. QED
  BY <1>1, <1>3, <1>4 DEF Inv

(* A step inside a token, or between tokens. *)
LEMMA ReadingKeeps ==
  ASSUME Inv, file_' = file_, tokens' = tokens, at' \in 0 .. Len(file_),
         pc' \in {"Real", "String", "Number", "Word"}, stream' \in Seq(Char),
         dbl' \in BOOLEAN, WordOpen'
  PROVE  Inv'
<1>1. TypeOK'
  BY DEF Inv, TypeOK
<1>2. IdentifiersCut'
  BY DEF Inv, IdentifiersCut, IdentifierText, StartsWith
<1>. QED
  BY <1>1, <1>2 DEF Inv

LEMMA NextInv == Inv /\ [Next]_vars => Inv'
<1>. SUFFICES ASSUME Inv, [Next]_vars PROVE Inv'
  OBVIOUS
<1>. USE DEF Inv
<1>0. /\ Peek \in Char /\ (Read => at' \in 0 .. Len(file_))
      /\ stream \in Seq(Char) /\ dbl \in BOOLEAN /\ at \in 0 .. Len(file_)
  BY PeekTyped DEF TypeOK
<1>00. {"kEOF", "kLIT_STRING", "kLIT_NUMBER", "kIDENTIFIER"} \subseteq TokenKind
       /\ PlainKinds \subseteq TokenKind /\ "kIDENTIFIER" \notin PlainKinds
  BY DEF TokenKind, PlainKinds, Literals, Operators, Symbols, Keywords
<1>000. ASSUME NEW c PROVE Collect(c) /\ c \in Char => stream' \in Seq(Char) /\ Read
  BY <1>0 DEF Collect
<1>1. CASE SkipSpace
  BY <1>0, <1>1, ReadingKeeps DEF SkipSpace, WordOpen
<1>2. CASE EndOfFile
  <2>1. <<>> \in Seq(Char)
    OBVIOUS
  <2>. QED
    BY <1>0, <1>00, <1>2, <2>1, ReturnKeeps DEF EndOfFile
<1>3. CASE SymbolToken
  <2>1. PICK k \in DOMAIN SymbolText : Return(k, <<Peek>>)
    BY <1>3 DEF SymbolToken
  <2>2. <<Peek>> \in Seq(Char) /\ k \in TokenKind /\ k # "kIDENTIFIER"
    BY <1>0, <1>00, SymbolsTyped
  <2>. QED
    BY <1>0, <1>3, <2>1, <2>2, ReturnKeeps DEF SymbolToken
<1>4. CASE BeginString
  BY <1>0, <1>4, ReadingKeeps DEF BeginString, Enter, WordOpen
<1>5. CASE StringChar
  BY <1>0, <1>000, <1>5, ReadingKeeps DEF StringChar, WordOpen
<1>6. CASE EndString
  BY <1>0, <1>00, <1>6, ReturnKeeps DEF EndString
<1>7. CASE BeginNumber
  BY <1>0, <1>7, ReadingKeeps DEF BeginNumber, Enter, WordOpen
<1>8. CASE NumberChar
  BY <1>0, <1>000, <1>8, ReadingKeeps DEF NumberChar, WordOpen
<1>9. CASE EndNumber
  BY <1>0, <1>00, <1>9, ReturnKeeps DEF EndNumber
<1>10. CASE BeginWord
  <2>1. WordOpen' /\ stream' \in Seq(Char)
    BY <1>0, <1>10, FirstCharacter DEF BeginWord, Enter, WordOpen
  <2>. QED
    BY <1>0, <1>10, <2>1, ReadingKeeps DEF BeginWord, Enter
<1>11. CASE WordChar
  <2>. DEFINE word == Append(stream, Peek)
  <2>1. word \in Seq(Char)
    BY <1>0
  <2>2. CASE IsKeyword(word)
    <3>1. GetKeyword(word) \in DOMAIN KeywordText
      BY <2>2 DEF IsKeyword, GetKeyword
    <3>. QED
      BY <1>0, <1>00, <1>11, <2>1, <2>2, <3>1, KeywordsTyped, ReturnKeeps DEF WordChar
  <2>3. CASE ~IsKeyword(word)
    <3>1. stream' \in {stream, word} /\ Read /\ pc' = "Word" /\ dbl' = dbl
          /\ tokens' = tokens /\ file_' = file_
      BY <1>11, <2>3 DEF WordChar, Collect
    <3>2. IdentifierText(word) /\ word # <<>>
      BY <1>0, <1>11, <2>3, NextCharacter DEF WordChar, WordOpen
    <3>3. WordOpen'
      BY <1>11, <3>1, <3>2 DEF WordOpen, WordChar
    <3>. QED
      BY <1>0, <2>1, <3>1, <3>3, ReadingKeeps
  <2>. QED
    BY <2>2, <2>3
<1>12. CASE EndWord
  BY <1>0, <1>00, <1>12, ReturnKeeps DEF EndWord, WordOpen
<1>13. CASE UNCHANGED vars
  BY <1>13 DEF vars, TypeOK, WordOpen, IdentifiersCut, IdentifierText, StartsWith
<1>. QED
  BY <1>1, <1>2, <1>3, <1>4, <1>5, <1>6, <1>7, <1>8, <1>9, <1>10, <1>11, <1>12, <1>13
     DEF Next, Terminated

LEMMA InitInv == Init => Inv
<1>. SUFFICES ASSUME Init PROVE Inv
  OBVIOUS
<1>1. file_ \in Seq(Char)
  BY CharAssumption DEF Init
<1>2. stream \in Seq(Char) /\ tokens \in Seq([kind : TokenKind, text : Seq(Char)])
  BY DEF Init
<1>3. IdentifiersCut
  BY DEF Init, IdentifiersCut
<1>4. at \in 0 .. Len(file_)
  BY <1>1, LenProperties DEF Init
<1>5. TypeOK
  BY <1>2, <1>4 DEF Init, TypeOK
<1>6. WordOpen
  BY DEF Init, WordOpen
<1>. QED
  BY <1>3, <1>5, <1>6 DEF Inv

LEMMA InvHolds == Spec => []Inv
BY InitInv, NextInv, PTL DEF Spec

(* The lexer's state is well typed, whatever the files hold.               *)
THEOREM TypesHold == Spec => []TypeOK
<1>1. Inv => TypeOK
  BY DEF Inv
<1>. QED
  BY <1>1, InvHolds, PTL

(* No identifier begins with a keyword or holds a symbol after its first   *)
(* character, whatever the files hold.                                     *)
THEOREM IdentifiersAreCut == Spec => []IdentifiersCut
<1>1. Inv => IdentifiersCut
  BY DEF Inv
<1>. QED
  BY <1>1, InvHolds, PTL

-----------------------------------------------------------------------------
(* Induction over a set of numbers *)

LEMMA LeastMember ==
  ASSUME NEW I \in SUBSET Nat, I # {}
  PROVE  \E m \in I : \A n \in I : m <= n
<1>. DEFINE less == { ss \in Nat \X Nat : ss[1] < ss[2] }
<1>1. IsWellFoundedOn(less, Nat)
  BY NatLessThanWellFounded DEF OpToRel
<1>. HIDE DEF less
<1>2. PICK m \in I : \A n \in I : <<n, m>> \notin less
  BY <1>1, WFMin
<1>3. ASSUME NEW n \in I PROVE m <= n
  <2>1. <<n, m>> \in Nat \X Nat
    BY <1>2
  <2>2. <<n, m>>[1] = n /\ <<n, m>>[2] = m
    OBVIOUS
  <2>3. ~(n < m)
    BY <1>2, <2>1, <2>2 DEF less
  <2>. QED
    BY <2>1, <2>3
<1>. QED
  BY <1>2, <1>3

(* A set that has 0 and, with a number, the next one has every number. *)
LEMMA Induction ==
  ASSUME NEW S, 0 \in S, \A n \in Nat : n \in S => n + 1 \in S
  PROVE  \A n \in Nat : n \in S
<1>. DEFINE out == { n \in Nat : n \notin S }
<1>1. CASE out = {}
  BY <1>1
<1>2. CASE out # {}
  <2>1. PICK m \in out : \A n \in out : m <= n
    BY <1>2, LeastMember
  <2>2. m \in Nat /\ m \notin S /\ m # 0
    OBVIOUS
  <2>3. m - 1 \in Nat /\ ~(m <= m - 1)
    BY <2>2
  <2>4. m - 1 \in S
    BY <2>1, <2>3
  <2>5. (m - 1) + 1 \in S
    BY <2>3, <2>4
  <2>. QED
    BY <2>2, <2>5
<1>. QED
  BY <1>1, <1>2

LEMMA LeastIs ==
  ASSUME NEW S \in SUBSET Nat, NEW j \in S, \A x \in S : j <= x
  PROVE  Least(S) = j
<1>1. PICK m \in S : m = Least(S) /\ \A y \in S : m <= y
  BY DEF Least
<1>2. m <= j /\ j <= m /\ m \in Nat /\ j \in Nat
  BY <1>1
<1>. QED
  BY <1>1, <1>2

LEMMA LeastIn ==
  ASSUME NEW S \in SUBSET Nat, S # {}
  PROVE  Least(S) \in S
<1>1. PICK m \in S : \A n \in S : m <= n
  BY LeastMember
<1>. QED
  BY <1>1, LeastIs

-----------------------------------------------------------------------------
(* Characters *)

LEMMA SymbolsApart ==
  ASSUME NEW k \in DOMAIN SymbolText
  PROVE  /\ SymbolText[k] \notin Space \cup Digit \cup {Quote, Eof}
         /\ \A l \in DOMAIN SymbolText : SymbolText[l] = SymbolText[k] => l = k
<1>. DEFINE Spelled(l, c) ==
              \/ l = "kEQUALS" /\ c = "="
              \/ l = "kLBRACE" /\ c = "{"
              \/ l = "kRBRACE" /\ c = "}"
              \/ l = "kSEMICOLON" /\ c = ";"
              \/ l = "kCOMMA" /\ c = ","
              \/ l = "kPLUS" /\ c = "+"
              \/ l = "kMINUS" /\ c = "-"
              \/ l = "kMULTIPLY" /\ c = "*"
              \/ l = "kDIVIDE" /\ c = "/"
              \/ l = "kCOLON" /\ c = ":"
              \/ l = "kLPAREN" /\ c = "("
              \/ l = "kRPAREN" /\ c = ")"
<1>1. DOMAIN SymbolText = {"kEQUALS", "kLBRACE", "kRBRACE", "kSEMICOLON", "kCOMMA", "kPLUS",
                            "kMINUS", "kMULTIPLY", "kDIVIDE", "kCOLON", "kLPAREN", "kRPAREN"}
  BY DEF SymbolText
<1>2. /\ SymbolText["kEQUALS"] = "="
      /\ SymbolText["kLBRACE"] = "{"
      /\ SymbolText["kRBRACE"] = "}"
      /\ SymbolText["kSEMICOLON"] = ";"
      /\ SymbolText["kCOMMA"] = ","
      /\ SymbolText["kPLUS"] = "+"
      /\ SymbolText["kMINUS"] = "-"
      /\ SymbolText["kMULTIPLY"] = "*"
      /\ SymbolText["kDIVIDE"] = "/"
      /\ SymbolText["kCOLON"] = ":"
      /\ SymbolText["kLPAREN"] = "("
      /\ SymbolText["kRPAREN"] = ")"
  BY DEF SymbolText
<1>3. ASSUME NEW l \in DOMAIN SymbolText PROVE Spelled(l, SymbolText[l])
  <2>1. CASE l \in {"kEQUALS", "kLBRACE", "kRBRACE", "kSEMICOLON"}
    BY <1>2, <2>1
  <2>2. CASE l \in {"kCOMMA", "kPLUS", "kMINUS", "kMULTIPLY"}
    BY <1>2, <2>2
  <2>3. CASE l \in {"kDIVIDE", "kCOLON", "kLPAREN", "kRPAREN"}
    BY <1>2, <2>3
  <2>. QED
    BY <1>1, <2>1, <2>2, <2>3
<1>4. ASSUME NEW l, NEW c, Spelled(l, c)
      PROVE  /\ c \notin Space \cup Digit \cup {Quote, Eof}
             /\ \A m : Spelled(m, c) => m = l
  BY <1>4 DEF Space, Digit, Quote, Eof
<1>. HIDE DEF Spelled
<1>. QED
  BY <1>3, <1>4

LEMMA OthersApart ==
  /\ Quote \notin Digit /\ Quote \notin Space /\ Quote # Eof
  /\ Point \notin Digit
  /\ \A c \in Digit : c \notin Space /\ c # Eof /\ c # Point
  /\ Eof \notin Digit \cup Space \cup {Point, Quote} /\ ~IsSymbol(Eof)
BY DEF Space, Digit, Quote, Eof, Point, IsSymbol

(* No keyword contains what the end of the file yields. *)
LEMMA NoKeywordHasEof ==
  ASSUME NEW k \in DOMAIN KeywordText, NEW i \in 1 .. Len(KeywordText[k])
  PROVE  KeywordText[k][i] # Eof
<1>. DEFINE Letters == {"a", "b", "c", "d", "e", "f", "i", "j", "l", "m", "n", "o", "p", "r", "s", "t", "u", "v", "x"}
<1>1. /\ <<"e","n","u","m">> \in Seq(Letters)
      /\ <<"c","l","a","s","s">> \in Seq(Letters)
      /\ <<"p","r","i","v","a","t","e">> \in Seq(Letters)
      /\ <<"e","x","t","e","n","d","s">> \in Seq(Letters)
      /\ <<"n","i","l">> \in Seq(Letters)
      /\ <<"v","a","r">> \in Seq(Letters)
      /\ <<"f","u","n","c">> \in Seq(Letters)
      /\ <<"p","r","o","t","o">> \in Seq(Letters)
      /\ <<"o","b","j","e","c","t">> \in Seq(Letters)
      /\ <<"r","e","t","u","r","n">> \in Seq(Letters)
      /\ <<"t","r","u","e">> \in Seq(Letters)
      /\ <<"f","a","l","s","e">> \in Seq(Letters)
  OBVIOUS
<1>2. KeywordText[k] \in Seq(Letters)
  <2>1. \/ KeywordText[k] = <<"e","n","u","m">>
        \/ KeywordText[k] = <<"c","l","a","s","s">>
        \/ KeywordText[k] = <<"p","r","i","v","a","t","e">>
        \/ KeywordText[k] = <<"e","x","t","e","n","d","s">>
        \/ KeywordText[k] = <<"n","i","l">>
        \/ KeywordText[k] = <<"v","a","r">>
        \/ KeywordText[k] = <<"f","u","n","c">>
        \/ KeywordText[k] = <<"p","r","o","t","o">>
        \/ KeywordText[k] = <<"o","b","j","e","c","t">>
        \/ KeywordText[k] = <<"r","e","t","u","r","n">>
        \/ KeywordText[k] = <<"t","r","u","e">>
        \/ KeywordText[k] = <<"f","a","l","s","e">>
    BY DEF KeywordText
  <2>. HIDE DEF Letters
  <2>. QED
    BY <1>1, <2>1
<1>3. KeywordText[k][i] \in Letters
  BY <1>2, ElementOfSeq
<1>. QED
  BY <1>3 DEF Eof

-----------------------------------------------------------------------------
(* The reference *)

TokenType == [kind : TokenKind, text : Seq(Char)]

LEMMA EndsBounded ==
  ASSUME NEW t \in Seq(Char), NEW i \in 1 .. Len(t)
  PROVE  Ends(t, i) \in SUBSET (i .. Len(t))
<1>1. /\ StringEnds(t, i) \subseteq i .. Len(t) /\ NumberEnds(t, i) \subseteq i .. Len(t)
      /\ KeywordEnds(t, i) \subseteq i .. Len(t) /\ WordEnds(t, i) \subseteq i .. Len(t)
  BY LenProperties DEF StringEnds, NumberEnds, KeywordEnds, WordEnds
<1>2. { j \in NumberEnds(t, i) : j + 1 \notin NumberEnds(t, i) } \subseteq i .. Len(t)
  BY <1>1
<1>. QED
  BY <1>1, <1>2 DEF Ends

LEMMA EndFound ==
  ASSUME NEW t \in Seq(Char), NEW i \in 1 .. Len(t), Ends(t, i) # {}
  PROVE  Least(Ends(t, i)) \in Ends(t, i) /\ Least(Ends(t, i)) \in i .. Len(t)
<1>1. PICK S : S = Ends(t, i)
  OBVIOUS
<1>2. S \in SUBSET (i .. Len(t)) /\ i \in Nat /\ S # {}
  BY <1>1, EndsBounded, LenProperties
<1>3. S \in SUBSET Nat
  BY <1>2
<1>4. Least(S) \in S
  BY <1>2, <1>3, LeastIn
<1>. QED
  BY <1>1, <1>2, <1>4

LEMMA TokenTyped ==
  ASSUME NEW t \in Seq(Char), NEW i \in 1 .. Len(t), NEW j \in i .. Len(t)
  PROVE  TokenAt(t, i, j) \in TokenType
<1>1. SubSeq(t, i, j) \in Seq(Char) /\ SubSeq(t, i + 1, j - 1) \in Seq(Char)
  BY LenProperties, SubSeqProperties, ElementOfSeq
<1>2. PICK text : text = SubSeq(t, i, j)
  OBVIOUS
<1>3. ASSUME KindsSpelled(t[i]) # {}
      PROVE  (CHOOSE k \in KindsSpelled(t[i]) : TRUE) \in TokenKind
  BY <1>3, SymbolsTyped DEF KindsSpelled, TokenKind
<1>4. ASSUME j \in KeywordEnds(t, i) PROVE GetKeyword(text) \in TokenKind
  <2>1. IsKeyword(text)
    BY <1>2, <1>4 DEF KeywordEnds, IsKeyword
  <2>2. GetKeyword(text) \in DOMAIN KeywordText
    BY <2>1 DEF IsKeyword, GetKeyword
  <2>. QED
    BY <2>2, KeywordsTyped DEF TokenKind
<1>5. {"kLIT_STRING", "kLIT_NUMBER", "kIDENTIFIER"} \subseteq TokenKind
  BY DEF TokenKind, PlainKinds, Literals
<1>6. EofToken \in TokenType
  BY DEF EofToken, TokenType, TokenKind
<1>7. CASE t[i] = Eof
  <2>1. t[i] # Quote /\ t[i] \notin Digit /\ KindsSpelled(t[i]) = {}
    BY <1>7, OthersApart, SymbolsApart DEF KindsSpelled
  <2>. QED
    BY <1>6, <1>7, <2>1 DEF TokenAt
<1>8. CASE t[i] # Eof
  BY <1>1, <1>2, <1>3, <1>4, <1>5, <1>8 DEF TokenAt, TokenType
<1>. QED
  BY <1>7, <1>8

Verdict == [tokens : Seq(TokenType), ends : BOOLEAN]

(* The reference from the i-th character on, where f says what it is after *)
(* that.                                                                   *)
RefersTo(f, t, i) ==
  IF i <= Len(t) /\ t[i] \in Space THEN f[i + 1]
  ELSE IF i <= Len(t) /\ Ends(t, i) # {}
  THEN LET j == Least(Ends(t, i))
       IN  [f[j + 1] EXCEPT !.tokens = <<TokenAt(t, i, j)>> \o @]
  ELSE [tokens |-> IF i > Len(t) THEN <<EofToken>> ELSE <<>>, ends |-> i > Len(t)]

IsReference(f, t, m) ==
  /\ DOMAIN f = m .. Len(t) + 1
  /\ \A i \in m .. Len(t) + 1 : f[i] = RefersTo(f, t, i)

LEMMA RefersCases ==
  ASSUME NEW f, NEW t \in Seq(Char), NEW i \in Nat
  PROVE  /\ i > Len(t) => RefersTo(f, t, i) = [tokens |-> <<EofToken>>, ends |-> TRUE]
         /\ i <= Len(t) /\ t[i] \in Space => RefersTo(f, t, i) = f[i + 1]
         /\ i <= Len(t) /\ t[i] \notin Space /\ Ends(t, i) = {} =>
              RefersTo(f, t, i) = [tokens |-> <<>>, ends |-> FALSE]
         /\ i <= Len(t) /\ t[i] \notin Space /\ Ends(t, i) # {} =>
              RefersTo(f, t, i) = [f[Least(Ends(t, i)) + 1] EXCEPT
                                     !.tokens = <<TokenAt(t, i, Least(Ends(t, i)))>> \o @]
<1>1. (i > Len(t)) = ~(i <= Len(t))
  BY LenProperties
<1>2. CASE i > Len(t)
  <2>1. (i > Len(t)) = TRUE /\ ~(i <= Len(t))
    BY <1>1, <1>2
  <2>. QED
    BY <2>1, Zenon DEF RefersTo
<1>3. CASE i <= Len(t)
  <2>1. (i > Len(t)) = FALSE
    BY <1>1, <1>3
  <2>. QED
    BY <1>3, <2>1, Zenon DEF RefersTo
<1>. QED
  BY <1>1, <1>2, <1>3

LEMMA RefersAlike ==
  ASSUME NEW t \in Seq(Char), NEW i \in 1 .. Len(t) + 1, NEW f, NEW g,
         \A k \in i + 1 .. Len(t) + 1 : f[k] = g[k]
  PROVE  RefersTo(f, t, i) = RefersTo(g, t, i)
<1>1. CASE i > Len(t)
  BY <1>1 DEF RefersTo
<1>2. CASE ~(i > Len(t))
  <2>1. i \in 1 .. Len(t) /\ Len(t) \in Nat
    BY <1>2, LenProperties
  <2>2. f[i + 1] = g[i + 1]
    BY <2>1
  <2>3. CASE Ends(t, i) = {}
    BY <1>2, <2>2, <2>3 DEF RefersTo
  <2>4. CASE Ends(t, i) # {}
    <3>1. PICK j \in i .. Len(t) : j = Least(Ends(t, i))
      BY <2>1, <2>4, EndFound
    <3>2. f[j + 1] = g[j + 1]
      BY <2>1, <3>1
    <3>. QED
      BY <1>2, <2>2, <3>1, <3>2, Zenon DEF RefersTo
  <2>. QED
    BY <2>3, <2>4
<1>. QED
  BY <1>1, <1>2

LEMMA RefersTyped ==
  ASSUME NEW t \in Seq(Char), NEW i \in 1 .. Len(t) + 1, NEW f,
         \A k \in i + 1 .. Len(t) + 1 : f[k] \in Verdict
  PROVE  RefersTo(f, t, i) \in Verdict
<1>1. CASE i > Len(t)
  <2>1. EofToken \in TokenType
    BY DEF EofToken, TokenType, TokenKind
  <2>. QED
    BY <1>1, <2>1 DEF RefersTo, Verdict
<1>2. CASE ~(i > Len(t))
  <2>1. i \in 1 .. Len(t) /\ Len(t) \in Nat
    BY <1>2, LenProperties
  <2>2. f[i + 1] \in Verdict
    BY <2>1
  <2>3. CASE Ends(t, i) = {}
    <3>1. [tokens |-> <<>>, ends |-> FALSE] \in Verdict
      BY DEF Verdict
    <3>. QED
      <4>1. i \in Nat /\ i <= Len(t)
        BY <2>1
      <4>2. CASE t[i] \in Space
        BY <2>2, <4>1, <4>2, RefersCases
      <4>3. CASE t[i] \notin Space
        BY <2>3, <3>1, <4>1, <4>3, RefersCases
      <4>. QED
        BY <4>2, <4>3
  <2>4. CASE Ends(t, i) # {}
    <3>1. PICK j \in i .. Len(t) : j = Least(Ends(t, i))
      BY <2>1, <2>4, EndFound
    <3>2. PICK rest \in Verdict : rest = f[j + 1]
      BY <2>1, <3>1
    <3>3. PICK tok \in TokenType : tok = TokenAt(t, i, j)
      BY <2>1, <3>1, TokenTyped
    <3>4. [rest EXCEPT !.tokens = <<tok>> \o @] \in Verdict
      <4>1. rest.tokens \in Seq(TokenType) /\ <<tok>> \in Seq(TokenType)
        BY DEF Verdict
      <4>2. PICK more : more = <<tok>> \o rest.tokens
        OBVIOUS
      <4>3. more \in Seq(TokenType)
        BY <4>1, <4>2, ConcatProperties
      <4>. QED
        BY <4>2, <4>3 DEF Verdict
    <3>5. CASE t[i] \in Space
      BY <1>2, <2>2, <3>5 DEF RefersTo
    <3>6. CASE t[i] \notin Space
      <4>1. RefersTo(f, t, i) = [rest EXCEPT !.tokens = <<tok>> \o @]
        BY <2>1, <2>4, <3>1, <3>2, <3>3, <3>6, RefersCases
      <4>. QED
        BY <3>4, <4>1
    <3>. QED
      BY <3>5, <3>6
  <2>. QED
    BY <2>3, <2>4
<1>. QED
  BY <1>1, <1>2

LEMMA ReferenceExists ==
  ASSUME NEW t \in Seq(Char)
  PROVE  \E f : IsReference(f, t, 1)
<1>. DEFINE S == { d \in Nat : d <= Len(t) => \E f : IsReference(f, t, Len(t) + 1 - d) }
<1>0. PICK n \in Nat : n = Len(t)
  BY LenProperties
<1>1. ASSUME NEW m \in 1 .. n + 1, NEW f, \A i \in m + 1 .. n + 1 : f[i] = RefersTo(f, t, i)
      PROVE  \E g : IsReference(g, t, m)
  <2>1. PICK v : v = RefersTo(f, t, m)
    OBVIOUS
  <2>2. PICK g : g = [i \in m .. n + 1 |-> IF i = m THEN v ELSE f[i]]
    OBVIOUS
  <2>3. ASSUME NEW i \in m .. n + 1 PROVE g[i] = RefersTo(g, t, i)
    <3>1. \A k \in i + 1 .. n + 1 : f[k] = g[k]
      BY <2>2
    <3>2. RefersTo(f, t, i) = RefersTo(g, t, i)
      BY <1>0, <3>1, RefersAlike
    <3>3. CASE i = m
      BY <2>1, <2>2, <3>2, <3>3
    <3>4. CASE i # m
      <4>1. g[i] = f[i] /\ i \in m + 1 .. n + 1
        BY <2>2, <3>4
      <4>. QED
        BY <1>1, <3>2, <4>1
    <3>. QED
      BY <3>3, <3>4
  <2>4. DOMAIN g = m .. n + 1
    BY <2>2
  <2>. QED
    BY <1>0, <2>3, <2>4 DEF IsReference
<1>2. 0 \in S
  <2>1. PICK f : f = [i \in {} |-> 0]
    OBVIOUS
  <2>2. n + 1 \in 1 .. n + 1 /\ n + 1 - 0 = n + 1 /\ \A i \in n + 1 + 1 .. n + 1 : FALSE
    OBVIOUS
  <2>3. \E g : IsReference(g, t, n + 1)
    BY <1>1, <2>2
  <2>. QED
    BY <1>0, <2>2, <2>3
<1>3. ASSUME NEW d \in Nat, d \in S PROVE d + 1 \in S
  <2>. SUFFICES ASSUME d + 1 <= n PROVE \E g : IsReference(g, t, n + 1 - (d + 1))
    BY <1>0
  <2>1. PICK m \in 1 .. n + 1 : m = n + 1 - (d + 1) /\ m + 1 = n + 1 - d
    OBVIOUS
  <2>2. PICK f : IsReference(f, t, m + 1)
    BY <1>0, <1>3, <2>1
  <2>3. \E g : IsReference(g, t, m)
    BY <1>0, <1>1, <2>2 DEF IsReference
  <2>. QED
    BY <2>1, <2>3
<1>. HIDE DEF S
<1>4. n \in S
  BY <1>2, <1>3, Induction
<1>5. n <= n /\ n + 1 - n = 1
  OBVIOUS
<1>. QED
  BY <1>0, <1>4, <1>5 DEF S

(* The function that Reference defines. *)
From(t) == CHOOSE from : from = [i \in 1 .. Len(t) + 1 |-> RefersTo(from, t, i)]

LEMMA FromUnfold ==
  ASSUME NEW t \in Seq(Char)
  PROVE  /\ Reference(t) = From(t)[1]
         /\ \A i \in 1 .. Len(t) + 1 : From(t)[i] = RefersTo(From(t), t, i)
<1>1. Reference(t) = From(t)[1]
  BY Zenon DEF Reference, From, RefersTo
<1>2. PICK f : IsReference(f, t, 1)
  BY ReferenceExists
<1>3. PICK g : g = [i \in 1 .. Len(t) + 1 |-> f[i]]
  OBVIOUS
<1>4. ASSUME NEW i \in 1 .. Len(t) + 1 PROVE f[i] = RefersTo(g, t, i)
  <2>1. \A k \in i + 1 .. Len(t) + 1 : k \in 1 .. Len(t) + 1
    BY LenProperties
  <2>2. RefersTo(f, t, i) = RefersTo(g, t, i)
    BY <1>3, <2>1, RefersAlike
  <2>. QED
    BY <1>2, <2>2 DEF IsReference
<1>5. g = [i \in 1 .. Len(t) + 1 |-> RefersTo(g, t, i)]
  BY <1>3, <1>4
<1>6. From(t) = [i \in 1 .. Len(t) + 1 |-> RefersTo(From(t), t, i)]
  BY <1>5, Zenon DEF From
<1>. QED
  BY <1>1, <1>6

LEMMA FromTyped ==
  ASSUME NEW t \in Seq(Char), NEW i \in 1 .. Len(t) + 1
  PROVE  From(t)[i] \in Verdict
<1>1. PICK n \in Nat : n = Len(t)
  BY LenProperties
<1>2. PICK f : f = From(t) /\ \A k \in 1 .. n + 1 : f[k] = RefersTo(f, t, k)
  BY <1>1, FromUnfold
<1>. DEFINE S == { d \in Nat : d <= n + 1 => \A k \in n + 2 - d .. n + 1 : f[k] \in Verdict }
<1>3. 0 \in S
  OBVIOUS
<1>4. ASSUME NEW d \in Nat, d \in S PROVE d + 1 \in S
  <2>. SUFFICES ASSUME d + 1 <= n + 1, NEW k \in n + 2 - (d + 1) .. n + 1
                PROVE  f[k] \in Verdict
    OBVIOUS
  <2>1. \A l \in k + 1 .. n + 1 : f[l] \in Verdict
    BY <1>4
  <2>2. k \in 1 .. n + 1
    OBVIOUS
  <2>. QED
    BY <1>1, <1>2, <2>1, <2>2, RefersTyped
<1>. HIDE DEF S
<1>5. n + 1 \in S
  BY <1>3, <1>4, Induction
<1>6. n + 1 <= n + 1 /\ i \in n + 2 - (n + 1) .. n + 1
  BY <1>1
<1>. QED
  BY <1>2, <1>5, <1>6 DEF S

-----------------------------------------------------------------------------
(* The lexer against the reference *)

Expected(i) == From(file_)[i].tokens

(* The token that is being read starts at the i-th character, and does not *)
(* end before the next one.                                                *)
OpenAt(i) ==
  CASE pc = "Real" -> i = at + 1 /\ ~dbl
    [] pc = "String" ->
         /\ i \in 1 .. at /\ file_[i] = Quote
         /\ stream = SubSeq(file_, i + 1, at)
         /\ \A j \in i + 1 .. at : file_[j] # Quote
    [] pc = "Number" ->
         /\ i \in 1 .. at /\ file_[i] \in Digit
         /\ stream = SubSeq(file_, i, at)
         /\ at \in NumberEnds(file_, i)
         /\ dbl <=> \E j \in i .. at : file_[j] = Point
    [] pc = "Word" ->
         /\ i \in 1 .. at
         /\ KindsSpelled(file_[i]) = {}
         /\ file_[i] \notin Space \cup Digit \cup {Eof, Quote}
         /\ stream = SubSeq(file_, i, at)
         /\ \A j \in i .. at : j \notin KeywordEnds(file_, i)
         /\ \A j \in i .. at - 1 : j \notin WordEnds(file_, i)
    [] OTHER -> FALSE

Following ==
  IF pc = "Done" THEN tokens = Expected(1)
  ELSE \E i \in 1 .. Len(file_) + 1 : OpenAt(i) /\ tokens \o Expected(i) = Expected(1)

LEMMA FollowingSuffices == TypeOK /\ Following => TokensFollowReference
<1>. SUFFICES ASSUME TypeOK, Following PROVE TokensFollowReference
  OBVIOUS
<1>1. file_ \in Seq(Char) /\ tokens \in Seq(TokenType)
  BY CharAssumption DEF TypeOK, TokenType
<1>2. PICK expected : expected = Expected(1)
  OBVIOUS
<1>3. Reference(file_).tokens = expected
  BY <1>1, <1>2, FromUnfold DEF Expected
<1>4. CASE pc = "Done"
  <2>1. tokens = expected
    BY <1>2, <1>4 DEF Following
  <2>2. IsPrefix(tokens, tokens)
    BY <1>1, LenProperties DEF IsPrefix
  <2>. QED
    BY <1>3, <2>1, <2>2 DEF TokensFollowReference
<1>5. CASE pc # "Done"
  <2>1. PICK i \in 1 .. Len(file_) + 1 : tokens \o Expected(i) = expected
    BY <1>2, <1>5 DEF Following
  <2>2. PICK rest \in Seq(TokenType) : rest = Expected(i)
    BY <1>1, FromTyped DEF Expected, Verdict
  <2>3. tokens \o rest = expected
    BY <2>1, <2>2
  <2>4. /\ Len(expected) = Len(tokens) + Len(rest) /\ Len(tokens) \in Nat /\ Len(rest) \in Nat
        /\ \A k \in 1 .. Len(tokens) : expected[k] = tokens[k]
    BY <1>1, <2>3, ConcatProperties, LenProperties
  <2>5. SubSeq(tokens, 1, Len(tokens)) = SubSeq(expected, 1, Len(tokens))
    BY <2>4
  <2>6. IsPrefix(tokens, expected)
    BY <2>4, <2>5 DEF IsPrefix
  <2>. QED
    BY <1>3, <1>5, <2>6 DEF TokensFollowReference
<1>. QED
  BY <1>4, <1>5

(* The token of the reference that starts at the i-th character. *)
LEMMA NextExpected ==
  ASSUME file_ \in Seq(Char), NEW i \in 1 .. Len(file_),
         file_[i] \notin Space,
         NEW j \in Ends(file_, i), \A k \in Ends(file_, i) : j <= k
  PROVE  Expected(i) = <<TokenAt(file_, i, j)>> \o Expected(j + 1)
<1>1. PICK S : S = Ends(file_, i) /\ S \in SUBSET Nat /\ S \in SUBSET (i .. Len(file_))
  BY EndsBounded, LenProperties
<1>2. Least(S) = j /\ S # {} /\ j \in i .. Len(file_)
  BY <1>1, LeastIs
<1>3. PICK f : f = From(file_)
  OBVIOUS
<1>4. Len(file_) \in Nat
  BY LenProperties
<1>5. f[i] = RefersTo(f, file_, i)
  BY <1>3, <1>4, FromUnfold
<1>6. PICK rest \in Verdict : rest = f[j + 1]
  BY <1>2, <1>3, <1>4, FromTyped
<1>7. PICK tok : tok = TokenAt(file_, i, j)
  OBVIOUS
<1>8. f[i] = [rest EXCEPT !.tokens = <<tok>> \o @]
  <2>1. ~(i > Len(file_)) /\ file_[i] \notin Space
    BY <1>4
  <2>2. Ends(file_, i) # {} /\ Least(Ends(file_, i)) = j
    BY <1>1, <1>2
  <2>. QED
    BY <1>4, <1>5, <1>6, <1>7, <2>1, <2>2, RefersCases
<1>9. f[i].tokens = <<tok>> \o rest.tokens
  BY <1>8 DEF Verdict
<1>. QED
  BY <1>3, <1>6, <1>7, <1>9 DEF Expected

LEMMA FilePrimed ==
  ASSUME file_' = file_
  PROVE  \A i : Expected(i)' = Expected(i)
BY DEF Expected

LEMMA FileTyped ==
  ASSUME TypeOK
  PROVE  /\ file_ \in Seq(Char) /\ Len(file_) \in Nat /\ at \in 0 .. Len(file_)
         /\ tokens \in Seq(TokenType) /\ stream \in Seq(Char)
         /\ Peek # Eof => at < Len(file_) /\ Peek = file_[at + 1]
         /\ at < Len(file_) => Peek = file_[at + 1]
<1>1. file_ \in Seq(Char) /\ tokens \in Seq(TokenType) /\ at \in 0 .. Len(file_)
      /\ stream \in Seq(Char)
  BY CharAssumption DEF TypeOK, TokenType
<1>2. Len(file_) \in Nat
  BY <1>1, LenProperties
<1>. QED
  BY <1>1, <1>2 DEF Peek

LEMMA SubSeqGrows ==
  ASSUME NEW t \in Seq(Char), NEW i \in 1 .. Len(t), NEW k \in i .. Len(t)
  PROVE  Append(SubSeq(t, i, k - 1), t[k]) = SubSeq(t, i, k)
<1>1. SubSeq(t, i, k) = SubSeq(t, i, k - 1) \o <<t[k]>>
  BY SubSeqRecursiveSecond
<1>2. PICK s \in Seq(Char), c \in Char : s = SubSeq(t, i, k - 1) /\ c = t[k]
  <2>1. \A l \in 1 .. Len(t) : t[l] \in Char
    BY ElementOfSeq
  <2>2. PICK n \in Int : n = k - 1 /\ i \in Int /\ (\A l \in i .. n : t[l] \in Char) /\ t[k] \in Char
    BY <2>1, LenProperties
  <2>3. SubSeq(t, i, n) \in Seq(Char)
    BY <2>2, SubSeqProperties
  <2>. QED
    BY <2>2, <2>3
<1>3. Append(s, c) = s \o <<c>>
  OBVIOUS
<1>. QED
  BY <1>1, <1>2, <1>3

(* A loop goes on, and its token still starts at the same character. *)
LEMMA GoesOn ==
  ASSUME NEW i \in 1 .. Len(file_) + 1, tokens \o Expected(i) = Expected(1),
         file_' = file_, tokens' = tokens, pc' # "Done", OpenAt(i)'
  PROVE  Following'
<1>1. Expected(i)' = Expected(i) /\ Expected(1)' = Expected(1)
  BY FilePrimed
<1>. QED
  BY <1>1 DEF Following

(* The token that starts at i is returned, and the next one starts after   *)
(* its end.                                                                *)
LEMMA Returned ==
  ASSUME TypeOK, NEW i \in 1 .. Len(file_), tokens \o Expected(i) = Expected(1),
         file_[i] \notin Space,
         NEW j \in Ends(file_, i), \A k \in Ends(file_, i) : j <= k,
         NEW kind, NEW text, TokenAt(file_, i, j) = [kind |-> kind, text |-> text],
         Return(kind, text), kind # "kEOF" \/ at < Len(file_), at' = j, file_' = file_
  PROVE  Following'
<1>1. PICK tok : tok = [kind |-> kind, text |-> text]
  OBVIOUS
<1>2. j \in i .. Len(file_) /\ i \in Nat /\ Len(file_) \in Nat
  BY FileTyped, EndsBounded
<1>3. tok \in TokenType
  BY <1>1, <1>2, FileTyped, TokenTyped
<1>4. PICK rest \in Seq(TokenType) : rest = Expected(j + 1)
  <2>1. PICK m \in 1 .. Len(file_) + 1 : m = j + 1
    BY <1>2
  <2>2. From(file_)[m] \in Verdict
    BY FileTyped, FromTyped
  <2>. QED
    BY <2>1, <2>2 DEF Expected, Verdict
<1>5. Expected(i) = <<tok>> \o rest
  BY <1>1, <1>4, FileTyped, NextExpected
<1>6. tokens' = tokens \o <<tok>>
  <2>1. tokens' = Append(tokens, tok)
    BY <1>1 DEF Return
  <2>. QED
    BY <2>1, <1>3, FileTyped
<1>7. tokens' \o rest = Expected(1)
  <2>1. <<tok>> \in Seq(TokenType)
    BY <1>3
  <2>2. (tokens \o <<tok>>) \o rest = tokens \o (<<tok>> \o rest)
    BY <2>1, FileTyped, ConcatAssociative
  <2>. QED
    BY <1>5, <1>6, <2>2
<1>8. pc' = "Real" /\ ~dbl'
  BY <1>2 DEF Return
<1>9. OpenAt(j + 1)'
  BY <1>8 DEF OpenAt
<1>10. PICK m \in 1 .. Len(file_) + 1 : m = j + 1
  BY <1>2
<1>11. OpenAt(m)' /\ Expected(m)' = rest /\ Expected(1)' = Expected(1)
  BY <1>4, <1>9, <1>10, FilePrimed
<1>. QED
  BY <1>7, <1>8, <1>10, <1>11 DEF Following

LEMMA OneCharacter ==
  ASSUME NEW t \in Seq(Char), NEW i \in 1 .. Len(t)
  PROVE  SubSeq(t, i, i) = <<t[i]>>
<1>1. PICK c : c = t[i]
  OBVIOUS
<1>2. SubSeq(t, i, i - 1) = <<>>
  BY LenProperties, SubSeqEmpty
<1>3. i \in i .. Len(t)
  BY LenProperties
<1>4. SubSeq(t, i, i) = <<>> \o <<c>>
  BY <1>1, <1>2, <1>3, SubSeqRecursiveSecond
<1>5. <<c>> \in Seq({c})
  OBVIOUS
<1>. QED
  BY <1>1, <1>4, <1>5, ConcatEmptySeq

(* Where the token ends, by its first character. *)
LEMMA EofCase ==
  ASSUME NEW t \in Seq(Char), NEW i \in 1 .. Len(t), t[i] = Eof
  PROVE  Ends(t, i) = {i} /\ TokenAt(t, i, i) = [kind |-> "kEOF", text |-> <<>>]
<1>1. t[i] # Quote /\ t[i] \notin Digit /\ KindsSpelled(t[i]) = {}
  BY OthersApart, SymbolsApart DEF KindsSpelled
<1>2. Ends(t, i) = {i}
  BY <1>1 DEF Ends
<1>3. TokenAt(t, i, i) = [kind |-> "kEOF", text |-> <<>>]
  BY <1>1 DEF TokenAt, EofToken
<1>. QED
  BY <1>2, <1>3

LEMMA SymbolCase ==
  ASSUME NEW t \in Seq(Char), NEW i \in 1 .. Len(t),
         NEW k \in DOMAIN SymbolText, SymbolText[k] = t[i]
  PROVE  Ends(t, i) = {i} /\ TokenAt(t, i, i) = [kind |-> k, text |-> <<t[i]>>]
<1>1. PICK c : c = t[i]
  OBVIOUS
<1>2. KindsSpelled(c) = {k}
  BY <1>1, SymbolsApart DEF KindsSpelled
<1>3. (CHOOSE l \in KindsSpelled(c) : TRUE) = k
  BY <1>2
<1>4. SubSeq(t, i, i) = <<c>>
  BY <1>1, OneCharacter
<1>5. /\ t[i] # Quote /\ t[i] \notin Digit /\ t[i] # Eof
      /\ KindsSpelled(t[i]) # {} /\ (CHOOSE l \in KindsSpelled(t[i]) : TRUE) = k
  BY <1>1, <1>2, <1>3, SymbolsApart
<1>6. Ends(t, i) = {i}
  BY <1>5 DEF Ends
<1>7. TokenAt(t, i, i) = [kind |-> k, text |-> <<c>>]
  BY <1>4, <1>5 DEF TokenAt
<1>. QED
  BY <1>1, <1>6, <1>7

LEMMA StringCase ==
  ASSUME NEW t \in Seq(Char), NEW i \in 1 .. Len(t), t[i] = Quote, NEW j
  PROVE  /\ Ends(t, i) = StringEnds(t, i)
         /\ TokenAt(t, i, j) = [kind |-> "kLIT_STRING", text |-> SubSeq(t, i + 1, j - 1)]
<1>1. KindsSpelled(t[i]) = {} /\ t[i] = Quote /\ t[i] \notin Digit
  BY SymbolsApart, OthersApart DEF KindsSpelled
<1>2. Ends(t, i) = StringEnds(t, i)
  BY <1>1 DEF Ends
<1>3. TokenAt(t, i, j) = [kind |-> "kLIT_STRING", text |-> SubSeq(t, i + 1, j - 1)]
  BY <1>1 DEF TokenAt
<1>. QED
  BY <1>2, <1>3

LEMMA NumberCase ==
  ASSUME NEW t \in Seq(Char), NEW i \in 1 .. Len(t), t[i] \in Digit, NEW j
  PROVE  /\ Ends(t, i) = { k \in NumberEnds(t, i) : k + 1 \notin NumberEnds(t, i) }
         /\ TokenAt(t, i, j) = [kind |-> "kLIT_NUMBER", text |-> SubSeq(t, i, j)]
<1>1. KindsSpelled(t[i]) = {} /\ t[i] # Quote
  BY SymbolsApart, OthersApart DEF KindsSpelled
<1>2. Ends(t, i) = { k \in NumberEnds(t, i) : k + 1 \notin NumberEnds(t, i) }
  BY <1>1 DEF Ends
<1>3. TokenAt(t, i, j) = [kind |-> "kLIT_NUMBER", text |-> SubSeq(t, i, j)]
  BY <1>1 DEF TokenAt
<1>. QED
  BY <1>2, <1>3

LEMMA WordCase ==
  ASSUME NEW t \in Seq(Char), NEW i \in 1 .. Len(t), KindsSpelled(t[i]) = {},
         t[i] \notin Digit \cup {Eof, Quote}, NEW j
  PROVE  /\ Ends(t, i) = KeywordEnds(t, i) \cup WordEnds(t, i)
         /\ TokenAt(t, i, j) =
              [kind |-> IF j \in KeywordEnds(t, i) THEN GetKeyword(SubSeq(t, i, j))
                        ELSE "kIDENTIFIER", text |-> SubSeq(t, i, j)]
BY DEF Ends, TokenAt

LEMMA SkipSpaceFollows == TypeOK /\ Following /\ SkipSpace => Following'
<1>. SUFFICES ASSUME TypeOK, Following, SkipSpace PROVE Following'
  OBVIOUS
<1>1. pc = "Real" /\ pc' = pc /\ dbl' = dbl /\ tokens' = tokens /\ file_' = file_
      /\ Peek \in Space /\ Read
  BY DEF SkipSpace
<1>2. PICK i \in 1 .. Len(file_) + 1 : OpenAt(i) /\ tokens \o Expected(i) = Expected(1)
  BY <1>1 DEF Following
<1>3. i = at + 1 /\ ~dbl
  BY <1>1, <1>2 DEF OpenAt
<1>4. at < Len(file_) /\ Peek = file_[i] /\ file_[i] \in Space /\ file_[i] # Eof
  BY <1>1, <1>3, FileTyped, OthersApart
<1>5. PICK m \in 1 .. Len(file_) + 1 : m = i + 1 /\ at' = i
  BY <1>1, <1>3, <1>4, FileTyped DEF Read
<1>6. Expected(i) = Expected(m)
  <2>1. ~(i > Len(file_))
    BY <1>3, <1>4, FileTyped
  <2>2. From(file_)[i] = From(file_)[m]
    <3>1. PICK f : f = From(file_)
      OBVIOUS
    <3>2. f[i] = RefersTo(f, file_, i)
      BY <3>1, FileTyped, FromUnfold
    <3>3. i \in Nat /\ i <= Len(file_) /\ file_[i] \in Space
      BY <1>4, <2>1, FileTyped
    <3>4. f[i] = f[i + 1]
      <4>1. file_ \in Seq(Char)
        BY FileTyped
      <4>2. i <= Len(file_) /\ file_[i] \in Space => RefersTo(f, file_, i) = f[i + 1]
        BY <3>3, <4>1, RefersCases
      <4>. QED
        BY <3>2, <3>3, <4>2
    <3>. QED
      BY <1>5, <3>1, <3>4
  <2>. QED
    BY <2>2 DEF Expected
<1>7. OpenAt(m)'
  BY <1>1, <1>3, <1>5 DEF OpenAt
<1>. QED
  BY <1>1, <1>2, <1>6, <1>7, GoesOn

LEMMA EndOfFileFollows == TypeOK /\ Following /\ EndOfFile => Following'
<1>. SUFFICES ASSUME TypeOK, Following, EndOfFile PROVE Following'
  OBVIOUS
<1>1. pc = "Real" /\ Peek = Eof /\ Return("kEOF", <<>>) /\ file_' = file_
  BY DEF EndOfFile
<1>2. PICK i \in 1 .. Len(file_) + 1 : OpenAt(i) /\ tokens \o Expected(i) = Expected(1)
  BY <1>1 DEF Following
<1>3. i = at + 1
  BY <1>1, <1>2 DEF OpenAt
<1>4. CASE at < Len(file_)
  <2>1. i \in 1 .. Len(file_) /\ at' = i /\ file_[i] = Eof
    BY <1>1, <1>3, <1>4, FileTyped DEF EndOfFile, Read
  <2>2. Ends(file_, i) = {i} /\ TokenAt(file_, i, i) = [kind |-> "kEOF", text |-> <<>>]
    BY <2>1, FileTyped, EofCase
  <2>3. i \in Ends(file_, i) /\ \A l \in Ends(file_, i) : i <= l
    BY <2>2, FileTyped
  <2>4. file_[i] \notin Space
    BY <2>1, OthersApart
  <2>. QED
    BY <1>1, <1>2, <1>4, <2>1, <2>2, <2>3, <2>4, Returned
<1>5. CASE ~(at < Len(file_))
  <2>1. i > Len(file_) /\ at = Len(file_)
    BY <1>3, <1>5, FileTyped
  <2>2. Expected(i) = <<EofToken>>
    <3>1. PICK f : f = From(file_)
      OBVIOUS
    <3>2. f[i] = RefersTo(f, file_, i)
      BY <3>1, FileTyped, FromUnfold
    <3>3. f[i] = [tokens |-> <<EofToken>>, ends |-> TRUE]
      <4>1. file_ \in Seq(Char) /\ i \in Nat
        BY FileTyped
      <4>2. i > Len(file_) => RefersTo(f, file_, i) = [tokens |-> <<EofToken>>, ends |-> TRUE]
        BY <4>1, RefersCases
      <4>. QED
        BY <2>1, <3>2, <4>2
    <3>. QED
      BY <3>1, <3>3 DEF Expected
  <2>3. tokens' = tokens \o <<EofToken>> /\ pc' = "Done"
    <3>1. tokens' = Append(tokens, EofToken) /\ pc' = "Done"
      BY <1>1, <2>1 DEF Return, EofToken
    <3>. QED
      BY <3>1, FileTyped
  <2>4. Expected(1)' = Expected(1)
    BY <1>1, FilePrimed
  <2>. QED
    BY <1>2, <2>2, <2>3, <2>4 DEF Following
<1>. QED
  BY <1>4, <1>5

LEMMA SymbolTokenFollows == TypeOK /\ Following /\ SymbolToken => Following'
<1>. SUFFICES ASSUME TypeOK, Following, SymbolToken PROVE Following'
  OBVIOUS
<1>1. pc = "Real" /\ Read /\ file_' = file_
  BY DEF SymbolToken
<1>2. PICK k \in DOMAIN SymbolText : SymbolText[k] = Peek /\ Return(k, <<Peek>>)
  BY DEF SymbolToken
<1>3. PICK i \in 1 .. Len(file_) + 1 : OpenAt(i) /\ tokens \o Expected(i) = Expected(1)
  BY <1>1 DEF Following
<1>4. i = at + 1
  BY <1>1, <1>3 DEF OpenAt
<1>5. /\ at < Len(file_) /\ Peek = file_[i] /\ file_[i] \notin Space \cup {Eof}
      /\ SymbolText[k] = file_[i] /\ k # "kEOF"
  BY <1>2, <1>4, FileTyped, SymbolsApart DEF SymbolText
<1>6. i \in 1 .. Len(file_) /\ at' = i
  BY <1>1, <1>4, <1>5, FileTyped DEF Read
<1>7. Ends(file_, i) = {i} /\ TokenAt(file_, i, i) = [kind |-> k, text |-> <<Peek>>]
  BY <1>2, <1>5, <1>6, FileTyped, SymbolCase
<1>8. i \in Ends(file_, i) /\ \A l \in Ends(file_, i) : i <= l
  BY <1>7, FileTyped
<1>. QED
  BY <1>1, <1>2, <1>3, <1>5, <1>6, <1>7, <1>8, Returned

LEMMA BeginStringFollows == TypeOK /\ Following /\ BeginString => Following'
<1>. SUFFICES ASSUME TypeOK, Following, BeginString PROVE Following'
  OBVIOUS
<1>1. /\ pc = "Real" /\ pc' = "String" /\ stream' = <<>> /\ Read /\ tokens' = tokens
      /\ file_' = file_ /\ Peek = Quote
  BY DEF BeginString, Enter
<1>2. PICK i \in 1 .. Len(file_) + 1 : OpenAt(i) /\ tokens \o Expected(i) = Expected(1)
  BY <1>1 DEF Following
<1>3. i = at + 1
  BY <1>1, <1>2 DEF OpenAt
<1>4. at < Len(file_) /\ file_[i] = Quote /\ at' = i
  BY <1>1, <1>3, FileTyped, OthersApart DEF Read
<1>5. SubSeq(file_, i + 1, i) = <<>>
  BY <1>3, FileTyped, SubSeqEmpty
<1>6. OpenAt(i)'
  BY <1>1, <1>3, <1>4, <1>5, FileTyped DEF OpenAt
<1>. QED
  BY <1>1, <1>2, <1>6, GoesOn

LEMMA StringCharFollows == TypeOK /\ Following /\ StringChar => Following'
<1>. SUFFICES ASSUME TypeOK, Following, StringChar PROVE Following'
  OBVIOUS
<1>1. /\ pc = "String" /\ pc' = pc /\ Collect(Peek) /\ tokens' = tokens
      /\ file_' = file_ /\ Peek # Quote
  BY DEF StringChar
<1>2. PICK i \in 1 .. Len(file_) + 1 : OpenAt(i) /\ tokens \o Expected(i) = Expected(1)
  BY <1>1 DEF Following
<1>3. /\ i \in 1 .. at /\ file_[i] = Quote /\ stream = SubSeq(file_, i + 1, at)
      /\ \A j \in i + 1 .. at : file_[j] # Quote
  BY <1>1, <1>2 DEF OpenAt
<1>4. CASE at < Len(file_)
  <2>1. /\ at' = at + 1 /\ stream' = Append(stream, Peek) /\ Peek = file_[at + 1]
    BY <1>1, <1>4, FileTyped DEF Collect, Read
  <2>2. Append(SubSeq(file_, i + 1, at), file_[at + 1]) = SubSeq(file_, i + 1, at + 1)
    <3>0. i \in 1 .. at /\ at \in Nat /\ Len(file_) \in Nat
      BY <1>3, FileTyped
    <3>1. PICK l \in 1 .. Len(file_), m \in 1 .. Len(file_) : l = i + 1 /\ m = at + 1 /\ m - 1 = at
      BY <1>4, <3>0
    <3>2. m \in l .. Len(file_)
      BY <1>3, <3>1, FileTyped
    <3>3. Append(SubSeq(file_, l, m - 1), file_[m]) = SubSeq(file_, l, m)
      BY <3>2, FileTyped, SubSeqGrows
    <3>. QED
      BY <3>1, <3>3
  <2>3. \A j \in i + 1 .. at + 1 : file_[j] # Quote
    BY <1>1, <1>3, <2>1, FileTyped
  <2>4. i \in 1 .. at + 1
    BY <1>3, FileTyped
  <2>5. OpenAt(i)'
    BY <1>1, <1>3, <2>1, <2>2, <2>3, <2>4 DEF OpenAt
  <2>. QED
    BY <1>1, <1>2, <2>5, GoesOn
<1>5. CASE ~(at < Len(file_))
  <2>1. at' = at /\ stream' = stream
    BY <1>1, <1>5 DEF Collect, Read
  <2>2. OpenAt(i)'
    BY <1>1, <1>3, <2>1 DEF OpenAt
  <2>. QED
    BY <1>1, <1>2, <2>2, GoesOn
<1>. QED
  BY <1>4, <1>5

LEMMA EndStringFollows == TypeOK /\ Following /\ EndString => Following'
<1>. SUFFICES ASSUME TypeOK, Following, EndString PROVE Following'
  OBVIOUS
<1>1. /\ pc = "String" /\ Read /\ Return("kLIT_STRING", stream)
      /\ file_' = file_ /\ Peek = Quote
  BY DEF EndString
<1>2. PICK i \in 1 .. Len(file_) + 1 : OpenAt(i) /\ tokens \o Expected(i) = Expected(1)
  BY <1>1 DEF Following
<1>3. /\ i \in 1 .. at /\ file_[i] = Quote /\ stream = SubSeq(file_, i + 1, at)
      /\ \A j \in i + 1 .. at : file_[j] # Quote
  BY <1>1, <1>2 DEF OpenAt
<1>4. at < Len(file_) /\ file_[at + 1] = Quote /\ at' = at + 1
  BY <1>1, FileTyped, OthersApart DEF Read
<1>5. PICK j \in 1 .. Len(file_) : j = at + 1 /\ j - 1 = at
  BY <1>4, FileTyped
<1>6. i \in 1 .. Len(file_)
  BY <1>3, FileTyped
<1>7. /\ Ends(file_, i) = StringEnds(file_, i)
      /\ TokenAt(file_, i, j) = [kind |-> "kLIT_STRING", text |-> stream]
  <2>1. /\ Ends(file_, i) = StringEnds(file_, i)
        /\ TokenAt(file_, i, j) = [kind |-> "kLIT_STRING", text |-> SubSeq(file_, i + 1, j - 1)]
    BY <1>3, <1>6, FileTyped, StringCase
  <2>. QED
    BY <1>3, <1>5, <2>1
<1>8. j \in Ends(file_, i) /\ \A k \in Ends(file_, i) : j <= k
  BY <1>3, <1>4, <1>5, <1>6, <1>7, FileTyped DEF StringEnds
<1>9. file_[i] \notin Space \cup {Eof}
  BY <1>3, OthersApart
<1>. QED
  BY <1>1, <1>2, <1>4, <1>5, <1>6, <1>7, <1>8, <1>9, Returned

LEMMA BeginNumberFollows == TypeOK /\ Following /\ BeginNumber => Following'
<1>. SUFFICES ASSUME TypeOK, Following, BeginNumber PROVE Following'
  OBVIOUS
<1>1. /\ pc = "Real" /\ pc' = "Number" /\ stream' = <<Peek>> /\ Read /\ tokens' = tokens
      /\ file_' = file_ /\ dbl' = dbl /\ Peek \in Digit
  BY DEF BeginNumber, Enter
<1>2. PICK i \in 1 .. Len(file_) + 1 : OpenAt(i) /\ tokens \o Expected(i) = Expected(1)
  BY <1>1 DEF Following
<1>3. i = at + 1 /\ ~dbl
  BY <1>1, <1>2 DEF OpenAt
<1>4. at < Len(file_) /\ Peek = file_[i] /\ file_[i] \in Digit /\ file_[i] # Point /\ at' = i
      /\ i \in 1 .. Len(file_)
  BY <1>1, <1>2, <1>3, FileTyped, OthersApart DEF Read
<1>5. SubSeq(file_, i, i) = <<file_[i]>>
  BY <1>4, FileTyped, OneCharacter
<1>6. i \in NumberEnds(file_, i) /\ ~\E j \in i .. i : file_[j] = Point
  BY <1>4, FileTyped DEF NumberEnds
<1>7. i \in 1 .. i
  BY <1>4
<1>8. OpenAt(i)'
  BY <1>1, <1>3, <1>4, <1>5, <1>6, <1>7 DEF OpenAt, NumberEnds
<1>. QED
  BY <1>1, <1>2, <1>8, GoesOn

LEMMA NumberCharFollows == TypeOK /\ Following /\ NumberChar => Following'
<1>. SUFFICES ASSUME TypeOK, Following, NumberChar PROVE Following'
  OBVIOUS
<1>1. /\ pc = "Number" /\ pc' = pc /\ InNumber(Peek) /\ Collect(Peek) /\ tokens' = tokens
      /\ file_' = file_ /\ dbl' = (dbl \/ Peek = Point)
  BY DEF NumberChar
<1>2. PICK i \in 1 .. Len(file_) + 1 : OpenAt(i) /\ tokens \o Expected(i) = Expected(1)
  BY <1>1 DEF Following
<1>3. /\ i \in 1 .. at /\ file_[i] \in Digit /\ stream = SubSeq(file_, i, at)
      /\ at \in NumberEnds(file_, i) /\ (dbl <=> \E j \in i .. at : file_[j] = Point)
  BY <1>1, <1>2 DEF OpenAt
<1>4. Peek \in Digit \cup {Point} /\ Peek # Eof /\ (Peek = Point => ~dbl)
  BY <1>1, OthersApart DEF InNumber
<1>5. PICK j \in 1 .. Len(file_) : j = at + 1 /\ j - 1 = at /\ Peek = file_[j] /\ at < Len(file_)
  BY <1>4, FileTyped
<1>6. at' = j /\ stream' = Append(stream, file_[j])
  BY <1>1, <1>5 DEF Collect, Read
<1>7. i \in 1 .. j /\ i \in 1 .. Len(file_) /\ j \in i .. Len(file_)
  BY <1>3, <1>5, FileTyped
<1>8. stream' = SubSeq(file_, i, j)
  BY <1>3, <1>5, <1>6, <1>7, FileTyped, SubSeqGrows
<1>9. \A k \in i .. j : k = j \/ k \in i .. at
  BY <1>5, FileTyped
<1>10. j \in NumberEnds(file_, i)
  <2>1. /\ \A k \in i .. at : file_[k] \in Digit \cup {Point}
        /\ \A k, l \in i .. at : file_[k] = Point /\ file_[l] = Point => k = l
    BY <1>3 DEF NumberEnds
  <2>2. \A k \in i .. j : file_[k] \in Digit \cup {Point}
    BY <1>4, <1>5, <1>9, <2>1
  <2>3. \A k, l \in i .. j : file_[k] = Point /\ file_[l] = Point => k = l
    BY <1>3, <1>4, <1>5, <1>9, <2>1
  <2>. QED
    BY <1>7, <2>2, <2>3 DEF NumberEnds
<1>11. dbl' <=> \E k \in i .. j : file_[k] = Point
  <2>1. \A k \in i .. at : k \in i .. j
    BY <1>5, FileTyped
  <2>2. CASE Peek = Point
    <3>1. dbl'
      BY <1>1, <2>2, Zenon
    <3>2. j \in i .. j /\ file_[j] = Point
      BY <1>5, <1>7, <2>2
    <3>. QED
      BY <3>1, <3>2, Zenon
  <2>3. CASE Peek # Point
    <3>1. dbl' <=> dbl
      BY <1>1, <2>3
    <3>2. (\E k \in i .. j : file_[k] = Point) <=> \E k \in i .. at : file_[k] = Point
      BY <1>5, <1>9, <2>1, <2>3
    <3>. QED
      BY <1>3, <3>1, <3>2, Zenon
  <2>. QED
    BY <2>2, <2>3
<1>12. OpenAt(i)'
  BY <1>1, <1>3, <1>6, <1>7, <1>8, <1>10, <1>11 DEF OpenAt, NumberEnds
<1>. QED
  BY <1>1, <1>2, <1>12, GoesOn

LEMMA EndNumberFollows == TypeOK /\ Following /\ EndNumber => Following'
<1>. SUFFICES ASSUME TypeOK, Following, EndNumber PROVE Following'
  OBVIOUS
<1>1. /\ pc = "Number" /\ ~InNumber(Peek) /\ Return("kLIT_NUMBER", stream)
      /\ file_' = file_ /\ at' = at
  BY DEF EndNumber
<1>2. PICK i \in 1 .. Len(file_) + 1 : OpenAt(i) /\ tokens \o Expected(i) = Expected(1)
  BY <1>1 DEF Following
<1>3. /\ i \in 1 .. at /\ file_[i] \in Digit /\ stream = SubSeq(file_, i, at)
      /\ at \in NumberEnds(file_, i) /\ (dbl <=> \E j \in i .. at : file_[j] = Point)
  BY <1>1, <1>2 DEF OpenAt
<1>4. i \in 1 .. Len(file_) /\ at \in i .. Len(file_)
  BY <1>3, FileTyped
<1>5. /\ Ends(file_, i) = { k \in NumberEnds(file_, i) : k + 1 \notin NumberEnds(file_, i) }
      /\ TokenAt(file_, i, at) = [kind |-> "kLIT_NUMBER", text |-> stream]
  BY <1>3, <1>4, FileTyped, NumberCase
<1>6. at + 1 \notin NumberEnds(file_, i)
  <2>. SUFFICES ASSUME at + 1 \in NumberEnds(file_, i) PROVE FALSE
    OBVIOUS
  <2>1. PICK j \in i .. Len(file_) : /\ j = at + 1
                                     /\ \A k \in i .. j : file_[k] \in Digit \cup {Point}
                                     /\ \A k, l \in i .. j : file_[k] = Point /\ file_[l] = Point => k = l
    BY DEF NumberEnds
  <2>2. at < Len(file_) /\ Peek = file_[j] /\ j \in i .. j
    BY <1>4, <2>1, FileTyped
  <2>3. file_[j] = Point /\ dbl
    BY <1>1, <2>1, <2>2 DEF InNumber
  <2>4. PICK k \in i .. at : file_[k] = Point
    BY <1>3, <2>3
  <2>5. k \in i .. j /\ k # j
    BY <1>4, <2>1, FileTyped
  <2>. QED
    BY <2>1, <2>2, <2>3, <2>4, <2>5
<1>7. ASSUME NEW k \in Ends(file_, i) PROVE at <= k
  <2>1. k \in NumberEnds(file_, i) /\ k + 1 \notin NumberEnds(file_, i) /\ k \in i .. Len(file_)
    BY <1>5, <1>7 DEF NumberEnds
  <2>2. CASE k < at
    <3>1. k + 1 \in i .. Len(file_) /\ \A l \in i .. k + 1 : l \in i .. at
      BY <1>4, <2>1, <2>2, FileTyped
    <3>2. k + 1 \in NumberEnds(file_, i)
      BY <1>3, <3>1 DEF NumberEnds
    <3>. QED
      BY <2>1, <3>2
  <2>. QED
    BY <2>1, <2>2, FileTyped
<1>8. at \in Ends(file_, i)
  BY <1>3, <1>5, <1>6
<1>9. file_[i] \notin Space \cup {Eof}
  BY <1>3, OthersApart
<1>. QED
  BY <1>1, <1>2, <1>4, <1>5, <1>7, <1>8, <1>9, Returned

LEMMA BeginWordFollows == TypeOK /\ Following /\ BeginWord => Following'
<1>. SUFFICES ASSUME TypeOK, Following, BeginWord PROVE Following'
  OBVIOUS
<1>1. /\ pc = "Real" /\ pc' = "Word" /\ stream' = <<Peek>> /\ Read /\ tokens' = tokens
      /\ file_' = file_ /\ Peek \notin Space \cup Digit \cup {Eof, Quote}
      /\ \A k \in DOMAIN SymbolText : SymbolText[k] # Peek
  BY DEF BeginWord, Enter
<1>2. PICK i \in 1 .. Len(file_) + 1 : OpenAt(i) /\ tokens \o Expected(i) = Expected(1)
  BY <1>1 DEF Following
<1>3. i = at + 1
  BY <1>1, <1>2 DEF OpenAt
<1>4. at < Len(file_) /\ Peek = file_[i] /\ at' = i /\ i \in 1 .. Len(file_)
  BY <1>1, <1>2, <1>3, FileTyped DEF Read
<1>5. SubSeq(file_, i, i) = <<file_[i]>>
  BY <1>4, FileTyped, OneCharacter
<1>6. /\ KindsSpelled(file_[i]) = {}
      /\ \A j \in i .. i : j \notin KeywordEnds(file_, i)
      /\ i \in 1 .. i /\ i .. i - 1 = {}
  BY <1>1, <1>4, FileTyped DEF KindsSpelled, KeywordEnds
<1>7. OpenAt(i)'
  BY <1>1, <1>4, <1>5, <1>6 DEF OpenAt, KeywordEnds, WordEnds, KindsSpelled
<1>. QED
  BY <1>1, <1>2, <1>7, GoesOn

LEMMA WordCharFollows == TypeOK /\ Following /\ WordChar => Following'
<1>. SUFFICES ASSUME TypeOK, Following, WordChar PROVE Following'
  OBVIOUS
<1>1. PICK word : /\ word = Append(stream, Peek)
                  /\ IF IsKeyword(word)
                     THEN Read /\ Return(GetKeyword(word), word)
                     ELSE Collect(Peek) /\ UNCHANGED <<pc, dbl, tokens>>
  BY DEF WordChar
<1>2. pc = "Word" /\ InWord(Peek) /\ file_' = file_
  BY DEF WordChar
<1>3. PICK i \in 1 .. Len(file_) + 1 : OpenAt(i) /\ tokens \o Expected(i) = Expected(1)
  BY <1>2 DEF Following
<1>4. /\ i \in 1 .. at /\ KindsSpelled(file_[i]) = {}
      /\ file_[i] \notin Space \cup Digit \cup {Eof, Quote}
      /\ stream = SubSeq(file_, i, at)
      /\ \A j \in i .. at : j \notin KeywordEnds(file_, i)
      /\ \A j \in i .. at - 1 : j \notin WordEnds(file_, i)
  BY <1>2, <1>3 DEF OpenAt
<1>5. CASE ~(at < Len(file_))
  <2>1. Peek = Eof /\ stream \in Seq(Char) /\ Peek \in Char
    BY <1>5, FileTyped, CharAssumption DEF Peek
  <2>2. ~IsKeyword(word)
    <3>. SUFFICES ASSUME NEW k \in DOMAIN KeywordText, KeywordText[k] = word PROVE FALSE
      BY DEF IsKeyword
    <3>1. /\ Len(word) = Len(stream) + 1 /\ word[Len(word)] = Eof /\ Len(stream) \in Nat
      BY <1>1, <2>1, AppendProperties, LenProperties
    <3>2. Len(word) \in 1 .. Len(KeywordText[k])
      BY <3>1
    <3>. QED
      BY <3>1, <3>2, NoKeywordHasEof
  <2>3. pc' = pc /\ tokens' = tokens /\ stream' = stream /\ at' = at
    BY <1>1, <1>5, <2>2 DEF Collect, Read
  <2>4. OpenAt(i)'
    BY <1>2, <1>4, <2>3 DEF OpenAt, KeywordEnds, WordEnds, KindsSpelled
  <2>. QED
    BY <1>2, <1>3, <2>3, <2>4, GoesOn
<1>6. CASE at < Len(file_)
  <2>1. PICK j \in 1 .. Len(file_) : j = at + 1 /\ j - 1 = at /\ Peek = file_[j]
    BY <1>6, FileTyped
  <2>2. i \in 1 .. Len(file_) /\ j \in i .. Len(file_) /\ i \in 1 .. j /\ i < j
    BY <1>4, <2>1, FileTyped
  <2>3. word = SubSeq(file_, i, j)
    BY <1>1, <1>4, <2>1, <2>2, FileTyped, SubSeqGrows
  <2>4. j \in KeywordEnds(file_, i) <=> IsKeyword(word)
    <3>1. j \in i + 1 .. Len(file_)
      BY <2>2, FileTyped
    <3>. QED
      BY <2>3, <3>1 DEF KeywordEnds, IsKeyword
  <2>5. \A k \in i .. j : k = j \/ k \in i .. at
    BY <2>1, FileTyped
  <2>6. \A k \in i .. j - 1 : k \notin WordEnds(file_, i)
    <3>1. at \notin WordEnds(file_, i)
      BY <1>2, <2>1 DEF WordEnds, InWord
    <3>2. \A k \in i .. j - 1 : k = at \/ k \in i .. at - 1
      BY <2>1, FileTyped
    <3>. QED
      BY <1>4, <3>1, <3>2
  <2>7. CASE ~IsKeyword(word)
    <3>1. pc' = pc /\ tokens' = tokens /\ stream' = word /\ at' = j
      BY <1>1, <1>6, <2>1, <2>7 DEF Collect, Read
    <3>2. \A k \in i .. j : k \notin KeywordEnds(file_, i)
      BY <1>4, <2>4, <2>5, <2>7
    <3>3. OpenAt(i)'
      BY <1>2, <1>4, <2>2, <2>3, <2>6, <3>1, <3>2 DEF OpenAt, KeywordEnds, WordEnds, KindsSpelled
    <3>. QED
      BY <1>2, <1>3, <3>1, <3>3, GoesOn
  <2>8. CASE IsKeyword(word)
    <3>1. at' = j /\ Return(GetKeyword(word), word)
      BY <1>1, <1>6, <2>1, <2>8 DEF Read
    <3>2. /\ Ends(file_, i) = KeywordEnds(file_, i) \cup WordEnds(file_, i)
          /\ TokenAt(file_, i, j) =
               [kind |-> IF j \in KeywordEnds(file_, i) THEN GetKeyword(SubSeq(file_, i, j))
                         ELSE "kIDENTIFIER", text |-> SubSeq(file_, i, j)]
      BY <1>4, <2>2, FileTyped, WordCase
    <3>3. j \in KeywordEnds(file_, i) /\ j \in Ends(file_, i)
      BY <2>4, <2>8, <3>2
    <3>4. TokenAt(file_, i, j) = [kind |-> GetKeyword(word), text |-> word]
      BY <2>3, <3>2, <3>3
    <3>5. ASSUME NEW k \in Ends(file_, i) PROVE j <= k
      <4>1. k \in i .. Len(file_)
        BY <2>2, FileTyped, EndsBounded
      <4>2. CASE k < j
        <5>1. k \in i .. at /\ k \in i .. j - 1
          BY <2>1, <4>1, <4>2, FileTyped
        <5>. QED
          BY <1>4, <2>6, <3>2, <3>5, <5>1
      <4>. QED
        BY <2>1, <4>1, <4>2, FileTyped
    <3>6. GetKeyword(word) # "kEOF"
      <4>1. GetKeyword(word) \in DOMAIN KeywordText
        BY <2>8 DEF IsKeyword, GetKeyword
      <4>. QED
        BY <4>1 DEF KeywordText
    <3>. QED
      BY <1>2, <1>3, <1>4, <2>2, <3>1, <3>3, <3>4, <3>5, <3>6, Returned
  <2>. QED
    BY <2>7, <2>8
<1>. QED
  BY <1>5, <1>6

LEMMA EndWordFollows == TypeOK /\ Following /\ EndWord => Following'
<1>. SUFFICES ASSUME TypeOK, Following, EndWord PROVE Following'
  OBVIOUS
<1>1. /\ pc = "Word" /\ ~InWord(Peek) /\ Return("kIDENTIFIER", stream)
      /\ file_' = file_ /\ at' = at
  BY DEF EndWord
<1>2. PICK i \in 1 .. Len(file_) + 1 : OpenAt(i) /\ tokens \o Expected(i) = Expected(1)
  BY <1>1 DEF Following
<1>3. /\ i \in 1 .. at /\ KindsSpelled(file_[i]) = {}
      /\ file_[i] \notin Space \cup Digit \cup {Eof, Quote}
      /\ stream = SubSeq(file_, i, at)
      /\ \A j \in i .. at : j \notin KeywordEnds(file_, i)
      /\ \A j \in i .. at - 1 : j \notin WordEnds(file_, i)
  BY <1>1, <1>2 DEF OpenAt
<1>4. Peek \in Space \/ IsSymbol(Peek)
  BY <1>1 DEF InWord
<1>5. at < Len(file_) /\ Peek = file_[at + 1]
  BY <1>4, FileTyped, OthersApart
<1>6. i \in 1 .. Len(file_) /\ at \in i .. Len(file_) - 1 /\ at \in i .. Len(file_)
      /\ at \in i .. at
  BY <1>3, <1>5, FileTyped
<1>7. at \in WordEnds(file_, i) /\ at \notin KeywordEnds(file_, i)
  BY <1>3, <1>4, <1>5, <1>6 DEF WordEnds
<1>8. /\ Ends(file_, i) = KeywordEnds(file_, i) \cup WordEnds(file_, i)
      /\ TokenAt(file_, i, at) =
           [kind |-> IF at \in KeywordEnds(file_, i) THEN GetKeyword(SubSeq(file_, i, at))
                     ELSE "kIDENTIFIER", text |-> SubSeq(file_, i, at)]
  BY <1>3, <1>6, FileTyped, WordCase
<1>9. at \in Ends(file_, i)
      /\ TokenAt(file_, i, at) = [kind |-> "kIDENTIFIER", text |-> stream]
  BY <1>3, <1>7, <1>8
<1>10. ASSUME NEW k \in Ends(file_, i) PROVE at <= k
  <2>1. k \in i .. Len(file_)
    BY <1>6, FileTyped, EndsBounded
  <2>2. CASE k < at
    <3>1. k \in i .. at /\ k \in i .. at - 1
      BY <2>1, <2>2, FileTyped
    <3>. QED
      BY <1>3, <1>8, <1>10, <3>1
  <2>. QED
    BY <2>1, <2>2, FileTyped
<1>. QED
  BY <1>1, <1>2, <1>3, <1>6, <1>9, <1>10, Returned

LEMMA FollowingKept == TypeOK /\ Following /\ [Next]_vars => Following'
<1>. SUFFICES ASSUME TypeOK, Following, [Next]_vars PROVE Following'
  OBVIOUS
<1>1. CASE UNCHANGED vars
  <2>1. /\ file_' = file_ /\ at' = at /\ pc' = pc /\ stream' = stream /\ dbl' = dbl
        /\ tokens' = tokens
    BY <1>1 DEF vars
  <2>2. CASE pc = "Done"
    <3>1. Expected(1)' = Expected(1)
      BY <2>1, FilePrimed
    <3>. QED
      BY <2>1, <2>2, <3>1 DEF Following
  <2>3. CASE pc # "Done"
    <3>1. PICK i \in 1 .. Len(file_) + 1 : OpenAt(i) /\ tokens \o Expected(i) = Expected(1)
      BY <2>3 DEF Following
    <3>2. OpenAt(i)'
      BY <2>1, <3>1 DEF OpenAt, KeywordEnds, WordEnds, NumberEnds, KindsSpelled
    <3>. QED
      BY <2>1, <2>3, <3>1, <3>2, GoesOn
  <2>. QED
    BY <2>2, <2>3
<1>. QED
  BY <1>1, SkipSpaceFollows, EndOfFileFollows, SymbolTokenFollows, BeginStringFollows,
     StringCharFollows, EndStringFollows, BeginNumberFollows, NumberCharFollows,
     EndNumberFollows, BeginWordFollows, WordCharFollows, EndWordFollows DEF Next, Terminated

(* The tokens returned are always the first ones of the reference, and all *)
(* of them once the lexer is done: where one loop of NextToken hands over  *)
(* to the next, no character is lost or read twice, whatever the files     *)
(* hold.                                                                   *)
THEOREM ReferenceIsFollowed == Spec => []TokensFollowReference
<1>1. Init => Following
  <2>. SUFFICES ASSUME Init PROVE Following
    OBVIOUS
  <2>1. TypeOK /\ pc = "Real" /\ at = 0 /\ tokens = <<>> /\ ~dbl
    BY InitInv DEF Inv, Init
  <2>2. 1 \in 1 .. Len(file_) + 1 /\ OpenAt(1)
    BY <2>1, FileTyped DEF OpenAt
  <2>3. PICK expected \in Seq(TokenType) : expected = Expected(1)
    BY <2>1, <2>2, FileTyped, FromTyped DEF Expected, Verdict
  <2>4. tokens \o expected = expected
    BY <2>1, ConcatEmptySeq
  <2>. QED
    BY <2>1, <2>2, <2>3, <2>4 DEF Following
<1>2. Inv => TypeOK
  BY DEF Inv
<1>. QED
  BY <1>1, <1>2, InvHolds, FollowingKept, FollowingSuffices, PTL DEF Spec
=============================================================================
