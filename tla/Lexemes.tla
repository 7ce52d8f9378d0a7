------------------------------ MODULE Lexemes -------------------------------
(***************************************************************************)
(* What the parser's bytes are.                                            *)
(*                                                                         *)
(* A byte is a lexeme.  Separators, digits and the terminators stand for   *)
(* themselves.  "ver" is the rest "TTP/1.v " of the version and "code" a   *)
(* whole status code: no callback can fall inside either.  The words the   *)
(* parser matches (header names, chunked, keep-alive, close, upgrade) are  *)
(* two lexemes each, their first letters and the remaining ones, so that a *)
(* buffer may still end inside a word; parser->index is then the half      *)
(* matched so far, which header_state says already.  "x" is any other      *)
(* token, "ctl" a byte that is neither token nor visible.                  *)
(***************************************************************************)
EXTENDS Naturals

Class == {"CR", "LF", "SP", "HT", ":", ",", ";", "ctl", "H", "ver", "code", "num",
          "content-", "length", "transfer-", "encoding", "connec", "tion",
          "up", "grade", "ch", "unked", "keep-", "alive", "cl", "ose", "x"}

Lexeme == [c : Class, v : Nat]

NoByte == [c |-> "none", v |-> 0]
Any    == [c |-> "x", v |-> 0]          \* a byte nothing looks at
Letters(c) == [c |-> c, v |-> 0]

IsLws(ch)  == ch.c \in {"SP", "HT"}
IsNum(ch)  == ch.c = "num" /\ ch.v < 10
IsHex(ch)  == ch.c = "num" /\ ch.v < 16 \* unhex[], the values 10..15 are letters
\* tokens[] of http_parser.c:189, strict: space and separators are not tokens
Token(ch)  == ch.c \notin {"none", "CR", "LF", "SP", "HT", ":", ",", ";", "ctl", "ver"}
\* IS_HEADER_CHAR: visible, CR, LF or tab
IsHeaderChar(ch) == ch.c # "ctl"

=============================================================================
