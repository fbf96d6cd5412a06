------------------------------- MODULE Tokens --------------------------------
(***************************************************************************)
(* TokenKind of Sources/token.h, less kIDENTIFIER and kEOF, and how the    *)
(* keywords and symbols are spelled.  A text is a sequence of characters,  *)
(* and a character is a string of length one.                              *)
(***************************************************************************)

(* A number is a kLIT_NUMBER, with or without a fraction. *)
Operators == {"kPLUS", "kMINUS", "kMULTIPLY", "kDIVIDE"}
Literals  == {"kLIT_STRING", "kLIT_NUMBER", "kTRUE", "kFALSE"}
Symbols   == {"kEQUALS", "kLBRACE", "kRBRACE", "kSEMICOLON", "kCOMMA", "kCOLON",
              "kLPAREN", "kRPAREN"}
Keywords  == {"kENUM", "kCLASS", "kPRIVATE", "kEXTENDS", "kNIL", "kVAR", "kFUNC",
              "kPROTO", "kOBJECT", "kRETURN"}
PlainKinds == Operators \cup Literals \cup Symbols \cup Keywords

SymbolText ==
  [kEQUALS |-> "=", kLBRACE |-> "{", kRBRACE |-> "}", kSEMICOLON |-> ";", kCOMMA |-> ",",
   kPLUS |-> "+", kMINUS |-> "-", kMULTIPLY |-> "*", kDIVIDE |-> "/", kCOLON |-> ":",
   kLPAREN |-> "(", kRPAREN |-> ")"]

(* FOR_EACH_TOKEN_KW.  GetKeyword also compares with the symbols and with  *)
(* <literal string>, which no word can become: its characters after the    *)
(* first are neither symbols nor spaces.                                   *)
KeywordText ==
  [kENUM    |-> <<"e","n","u","m">>,
   kCLASS   |-> <<"c","l","a","s","s">>,
   kPRIVATE |-> <<"p","r","i","v","a","t","e">>,
   kEXTENDS |-> <<"e","x","t","e","n","d","s">>,
   kNIL     |-> <<"n","i","l">>,
   kVAR     |-> <<"v","a","r">>,
   kFUNC    |-> <<"f","u","n","c">>,
   kPROTO   |-> <<"p","r","o","t","o">>,
   kOBJECT  |-> <<"o","b","j","e","c","t">>,
   kRETURN  |-> <<"r","e","t","u","r","n">>,
   kTRUE    |-> <<"t","r","u","e">>,
   kFALSE   |-> <<"f","a","l","s","e">>]
=============================================================================
