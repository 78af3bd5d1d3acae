-------------------------- MODULE TokenRefinement --------------------------
(***************************************************************************)
(* How the scanner implements TokenStream: pos is what the finished        *)
(* lexemes cover, and what is delivered are the tokens up to the first     *)
(* error that is reported.                                                 *)
(***************************************************************************)
EXTENDS Lexer, FiniteSetsExt

ErrorAt   == { i \in 1 .. Len(out) : out[i].type = "ERROR" }
Delivered == IF ErrorAt = {} THEN out ELSE SubSeq(out, 1, Min(ErrorAt) - 1)

Promise == INSTANCE TokenStream WITH
  pos <- covered, delivered <- Delivered, failed <- ErrorAt # {},
  Letters <- Alpha, Digits <- Digit, Blanks <- Blank

(* The scanner implements TokenStream: its tokens are the longest matches  *)
(* of the lexical rules, with their lines, until the first lexical error.  *)
TokensAreLongestMatches == Promise!TSSpec

(* A file that ends in an identifier of exactly the length limit.          *)
EndsAtLimit(s) ==
  /\ Len(s) >= MaxLexeme
  /\ s[Len(s) - MaxLexeme + 1] \in Alpha \cup {"_"}
  /\ \A i \in Len(s) - MaxLexeme + 1 .. Len(s) : s[i] \in Alpha \cup Digit \cup {"_"}
  /\ Len(s) > MaxLexeme => s[Len(s) - MaxLexeme] \notin Alpha \cup {"_"}
=============================================================================
