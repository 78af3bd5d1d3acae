---------------------------- MODULE TokenStream ----------------------------
(***************************************************************************)
(* What the lexer promises, with no buffers and no automaton: the source   *)
(* is cut from left to right into lexemes, each the longest prefix of the  *)
(* rest that one of the lexical rules of ERPLAG describes; blanks and      *)
(* comments are dropped, the others are delivered as tokens with the line  *)
(* they start on, and DOLLAR comes last.  After the first lexical error    *)
(* the tokens are not specified.                                           *)
(***************************************************************************)
EXTENDS Integers, Sequences, FiniteSetsExt

CONSTANTS
  Sources, Keywords,
  MaxLexeme,
  Letters, Digits, Blanks   \* the letters (with "e" for e and E), digits, blanks

VARIABLES
  src,
  pos,        \* how much of src has been cut
  delivered,  \* the tokens delivered
  failed      \* a lexical error was reported

tsVars == <<src, pos, delivered, failed>>

-----------------------------------------------------------------------------
(* The lexical rules, as predicates on a nonempty word.                    *)
AllIn(w, S)   == \A i \in DOMAIN w : w[i] \in S
Drop(w, n)    == SubSeq(w, n + 1, Len(w))
Take(w, n)    == SubSeq(w, 1, n)

IsIdentifier(w) == w[1] \in Letters \cup {"_"} /\ AllIn(w, Letters \cup Digits \cup {"_"})
IsNum(w)        == w # <<>> /\ AllIn(w, Digits)
IsFixed(w)      == \E k \in 2 .. Len(w) - 1 :
                      w[k] = "." /\ IsNum(Take(w, k - 1)) /\ IsNum(Drop(w, k))
IsExponent(w)   == /\ w # <<>> /\ w[1] = "e"
                   /\ \/ IsNum(Drop(w, 1))
                      \/ Len(w) > 1 /\ w[2] \in {"+", "-"} /\ IsNum(Drop(w, 2))
IsReal(w)       == IsFixed(w) \/ \E k \in 1 .. Len(w) - 1 : IsFixed(Take(w, k)) /\ IsExponent(Drop(w, k))

Symbols ==
  { <<<<"+">>, "PLUS">>, <<<<"-">>, "MINUS">>, <<<<"*">>, "MUL">>, <<<<"/">>, "DIV">>,
    <<<<"<">>, "LT">>, <<<<"<", "=">>, "LE">>, <<<<">">>, "GT">>, <<<<">", "=">>, "GE">>,
    <<<<"=", "=">>, "EQ">>, <<<<"!", "=">>, "NE">>,
    <<<<"<", "<">>, "DEF">>, <<<<">", ">">>, "ENDDEF">>,
    <<<<"<", "<", "<">>, "DRIVERDEF">>, <<<<">", ">", ">">>, "DRIVERENDDEF">>,
    <<<<":">>, "COLON">>, <<<<":", "=">>, "ASSIGN_OP">>, <<<<".", ".">>, "RANGEOP">>,
    <<<<";">>, "SEMICOLON">>, <<<<",">>, "COMMA">>, <<<<"[">>, "SQBO">>, <<<<"]">>, "SQBC">>,
    <<<<"(">>, "BO">>, <<<<")">>, "BC">> }

IsSymbol(w) == \E s \in Symbols : s[1] = w

(* A comment runs from ** to the next **.                                  *)
Stars(w, i)   == w[i] = "*" /\ w[i + 1] = "*"
IsComment(w)  == /\ Len(w) >= 4 /\ Stars(w, 1) /\ Stars(w, Len(w) - 1)
                 /\ \A i \in 3 .. Len(w) - 2 : ~Stars(w, i)

IsLexeme(w) == IsIdentifier(w) \/ IsNum(w) \/ IsReal(w) \/ IsSymbol(w)

TypeOf(w) ==
  IF w \in Keywords THEN "KEYWORD"
  ELSE IF IsIdentifier(w) THEN "ID"
  ELSE IF IsNum(w) THEN "NUM"
  ELSE IF IsReal(w) THEN "RNUM"
  ELSE (CHOOSE s \in Symbols : s[1] = w)[2]

-----------------------------------------------------------------------------
Rest        == Drop(src, pos)
InComment   == Len(Rest) >= 2 /\ Stars(Rest, 1)
Prefixes(P(_)) == { n \in 1 .. Len(Rest) : P(Take(Rest, n)) }
Line(p)     == 1 + Cardinality({ i \in 1 .. p : src[i] = "nl" })

(* The length of the next lexeme.                                          *)
Longest == Max(Prefixes(IsLexeme))
NextWord == Take(Rest, Longest)
After(n) == IF n < Len(Rest) THEN Rest[n + 1] ELSE "NUL"

(* A number that goes wrong: digits and a dot that is neither a fraction   *)
(* nor a range, or a fraction followed by e without an exponent.           *)
BadNumber == /\ Prefixes(IsLexeme) # {}
             /\ \/ /\ IsNum(NextWord) /\ After(Longest) = "."
                   /\ ~(Longest + 1 < Len(Rest) /\ Rest[Longest + 2] = ".")
                \/ IsFixed(NextWord) /\ After(Longest) = "e"

TooLong == Prefixes(IsLexeme) # {} /\ IsIdentifier(NextWord) /\ Longest > MaxLexeme

(* A comment that the file ends in, at a star.                             *)
HalfClosed == /\ InComment /\ Prefixes(IsComment) = {}
              /\ Len(Rest) >= 3 /\ Rest[Len(Rest)] = "*"

TSInit == src \in Sources /\ pos = 0 /\ delivered = <<>> /\ failed = FALSE

Deliver ==
  /\ ~failed /\ ~InComment /\ Prefixes(IsLexeme) # {} /\ ~BadNumber /\ ~TooLong
  /\ pos' = pos + Longest
  /\ delivered' = Append(delivered, [type |-> TypeOf(NextWord), lexeme |-> NextWord,
                                     line |-> Line(pos)])
  /\ UNCHANGED <<src, failed>>

DropBlank ==
  /\ ~failed /\ Rest # <<>> /\ Rest[1] \in Blanks
  /\ pos' = pos + 1
  /\ UNCHANGED <<src, delivered, failed>>

DropComment ==
  /\ ~failed /\ Prefixes(IsComment) # {}
  /\ pos' = pos + Max(Prefixes(IsComment))
  /\ UNCHANGED <<src, delivered, failed>>

(* The file ends, possibly inside a comment: DOLLAR, once.                 *)
End ==
  /\ ~failed
  /\ \/ Rest = <<>> /\ (delivered = <<>> \/ delivered[Len(delivered)].type # "DOLLAR")
     \/ InComment /\ Prefixes(IsComment) = {} /\ ~HalfClosed
  /\ pos' = Len(src)
  /\ delivered' = Append(delivered, [type |-> "DOLLAR", lexeme |-> <<"$">>,
                                     line |-> Line(Len(src))])
  /\ UNCHANGED <<src, failed>>

Fail ==
  /\ ~failed /\ Rest # <<>>
  /\ \/ BadNumber \/ TooLong \/ HalfClosed
     \/ ~InComment /\ Rest[1] \notin Blanks /\ Prefixes(IsLexeme) = {}
  /\ failed' = TRUE
  /\ pos' \in pos .. Len(src)
  /\ UNCHANGED <<src, delivered>>

(* After an error the tokens that follow are not specified.                *)
Recover == failed /\ pos' \in pos .. Len(src) /\ UNCHANGED <<src, delivered, failed>>

TSNext == Deliver \/ DropBlank \/ DropComment \/ End \/ Fail \/ Recover

TSSpec == TSInit /\ [][TSNext]_tsVars
=============================================================================
