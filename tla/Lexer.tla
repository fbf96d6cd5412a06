-------------------------------- MODULE Lexer --------------------------------
(***************************************************************************)
(* Parser::NextToken of Sources/parser.cc over the characters of a file,   *)
(* called again and again until the file has ended.  A byte 0xFF where a   *)
(* token would begin gives a kEOF too, behind which the parser may read on *)
(* (after a dangling `private', parser.cc:535).  A step reads one          *)
(* character, or looks at one and leaves it.  Two loops never end once the *)
(* file has: what they go on appending to their stream is left out, so     *)
(* that they show as steps that change nothing.                            *)
(***************************************************************************)
EXTENDS Tokens, Naturals, Sequences

CONSTANTS
  Char,    \* the characters there are
  Files    \* the contents that a file may have

Space == {" ", "\n"}
Digit == {"0", "1", "2", "3", "4", "5", "6", "7", "8", "9"}
Quote == "\""
Point == "."

(* (char) EOF: what Next yields at the end of the file, and what it makes  *)
(* of the byte 0xFF.                                                       *)
Eof == "EOF"

ASSUME CharAssumption ==
  /\ Eof \in Char
  /\ \A k \in DOMAIN KeywordText : KeywordText[k] \in Seq(Char)
  /\ Files \subseteq Seq(Char)

(* Mutant: the colon is forgotten. *)
IsSymbolButColon(c) ==
  c \in {"(", ")", "[", "]", "{", "}", "=", ";", ",", ".", "/", "+", "*", "-", "_",
         "?", "<", ">"}

IsSymbol(c) ==
  c \in {"(", ")", "[", "]", "{", "}", "=", ":", ";", ",", ".", "/", "+", "*", "-", "_",
         "?", "<", ">"}

(* Mutant: only the keywords that open a definition. *)
IsDefinitionKeyword(txt) ==
  \E k \in {"kENUM", "kCLASS", "kOBJECT", "kPROTO"} : KeywordText[k] = txt

IsKeyword(txt) == \E k \in DOMAIN KeywordText : KeywordText[k] = txt

(* Mutant: `var' has no entry in the table. *)
GetKeywordOrNone(txt) ==
  IF txt = KeywordText["kVAR"] THEN "none"
  ELSE CHOOSE k \in DOMAIN KeywordText : KeywordText[k] = txt

GetKeyword(txt) == CHOOSE k \in DOMAIN KeywordText : KeywordText[k] = txt

VARIABLES
  file_,    \* the characters of the file
  at,       \* how many of them have been read
  pc,       \* "Real", inside "String", "Number" or "Word", or "Done"
  stream,   \* the text of the token so far
  dbl,      \* the number has had its point
  tokens    \* the tokens returned

vars == <<file_, at, pc, stream, dbl, tokens>>

Init ==
  /\ file_ \in Files
  /\ at = 0
  /\ pc = "Real"
  /\ stream = <<>>
  /\ dbl = FALSE
  /\ tokens = <<>>

-----------------------------------------------------------------------------
(* Next and Peek see the same character; Next moves on. *)
Peek == IF at < Len(file_) THEN file_[at + 1] ELSE Eof
Read == at' = IF at < Len(file_) THEN at + 1 ELSE at

(* Mutant: a point may follow a point. *)
InNumberAnyPoint(c) == c \in Digit \cup {Point}

InNumber(c) == c \in Digit \/ (c = Point /\ ~dbl)
InWord(c) == c \notin Space /\ ~IsSymbol(c)

Return(kind, text) ==
  /\ tokens' = Append(tokens, [kind |-> kind, text |-> text])
  /\ pc' = IF kind = "kEOF" /\ at = Len(file_) THEN "Done" ELSE "Real"
  /\ stream' = <<>>
  /\ dbl' = FALSE

(* A character that the stream takes, unless it is only the end of file.   *)
Collect(c) ==
  /\ stream' = IF at < Len(file_) THEN Append(stream, c) ELSE stream
  /\ Read

(* NextReal *)
SkipSpace ==
  /\ pc = "Real"
  /\ Peek \in Space
  /\ Read
  /\ UNCHANGED <<file_, pc, stream, dbl, tokens>>

EndOfFile ==
  /\ pc = "Real"
  /\ Peek = Eof
  /\ Read
  /\ Return("kEOF", <<>>)
  /\ UNCHANGED file_

SymbolToken ==
  /\ pc = "Real"
  /\ Read
  /\ \E k \in DOMAIN SymbolText : SymbolText[k] = Peek /\ Return(k, <<Peek>>)
  /\ UNCHANGED file_

Enter(loop, text) ==
  /\ pc = "Real"
  /\ pc' = loop
  /\ stream' = text
  /\ Read
  /\ UNCHANGED <<file_, dbl, tokens>>

BeginString == Peek = Quote /\ Enter("String", <<>>)
BeginNumber == Peek \in Digit /\ Enter("Number", <<Peek>>)

(* Any other character starts a word, [ . _ ? < and > too, and is not      *)
(* compared with the keywords.                                             *)
BeginWord ==
  /\ Peek \notin Space \cup Digit \cup {Eof, Quote}
  /\ \A k \in DOMAIN SymbolText : SymbolText[k] # Peek
  /\ Enter("Word", <<Peek>>)

StringChar ==
  /\ pc = "String"
  /\ Peek # Quote
  /\ Collect(Peek)
  /\ UNCHANGED <<file_, pc, dbl, tokens>>

(* Mutant: the end of the file ends a string too. *)
EndStringAtEof ==
  /\ pc = "String"
  /\ Peek = Quote \/ at = Len(file_)
  /\ Read
  /\ Return("kLIT_STRING", stream)
  /\ UNCHANGED file_

EndString ==
  /\ pc = "String"
  /\ Peek = Quote
  /\ Read
  /\ Return("kLIT_STRING", stream)
  /\ UNCHANGED file_

NumberChar ==
  /\ pc = "Number"
  /\ InNumber(Peek)
  /\ Collect(Peek)
  /\ dbl' = (dbl \/ Peek = Point)
  /\ UNCHANGED <<file_, pc, tokens>>

EndNumber ==
  /\ pc = "Number"
  /\ ~InNumber(Peek)
  /\ Return("kLIT_NUMBER", stream)
  /\ UNCHANGED <<file_, at>>

(* A word ends with the character that makes it a keyword, whatever comes  *)
(* after it.                                                               *)
WordChar ==
  LET word == Append(stream, Peek)
  IN  /\ pc = "Word"
      /\ InWord(Peek)
      /\ IF IsKeyword(word)
         THEN Read /\ Return(GetKeyword(word), word)
         ELSE Collect(Peek) /\ UNCHANGED <<pc, dbl, tokens>>
      /\ UNCHANGED file_

EndWord ==
  /\ pc = "Word"
  /\ ~InWord(Peek)
  /\ Return("kIDENTIFIER", stream)
  /\ UNCHANGED <<file_, at>>

(* At the end of the file every further call would return kEOF again.      *)
Terminated == pc = "Done" /\ UNCHANGED vars

Next ==
  \/ SkipSpace \/ EndOfFile \/ SymbolToken
  \/ BeginString \/ StringChar \/ EndString
  \/ BeginNumber \/ NumberChar \/ EndNumber
  \/ BeginWord \/ WordChar \/ EndWord
  \/ Terminated

Spec == Init /\ [][Next]_vars
FairSpec == Spec /\ WF_vars(Next)
=============================================================================
