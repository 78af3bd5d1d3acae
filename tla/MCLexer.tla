------------------------------ MODULE MCLexer ------------------------------
(***************************************************************************)
(* Instances of Lexer for TLC: the source files are all the sequences of a *)
(* bounded length over a small alphabet.                                   *)
(***************************************************************************)
EXTENDS TokenRefinement, SequencesExt

(* Numbers, ranges and exponents; words, comments, newlines and errors;    *)
(* operators; and every pair of characters.  None has the sentinel.        *)
NumberChars   == Digit \cup EE \cup {".", "+", " "}
WordChars     == {"a", "7", "*", "nl", "#"}
OperatorChars == {"<", ">", "=", ":", "!", "*", "a"}

CleanSources ==
  BoundedSeq(NumberChars, 5) \cup BoundedSeq(WordChars, 5)
    \cup BoundedSeq(OperatorChars, 4) \cup BoundedSeq(Chars \ {Sentinel}, 2)

(* Any file at all, with sentinels in it.                                  *)
AnySources == BoundedSeq({"7", ".", "$", "=", "a"}, 5)

(* The sources for which the lexer keeps the promises of TokenStream; the  *)
(* others are what the violation runs are about.                           *)
PlainSources == { s \in CleanSources : ~Straddles(s) /\ ~EndsAtLimit(s) }

MCKeywords == {<<"a">>, <<"e">>}

-----------------------------------------------------------------------------
(* What the repository says of the lexer and the code does not do.         *)

(* A number, a range operator and a number are NUM, RANGEOP, NUM.          *)
RangeIsOneToken ==
  Finished /\ src = <<"7", ".", ".", "7">> =>
    [i \in 1 .. Len(out) |-> out[i].type] = <<"NUM", "RANGEOP", "NUM", "DOLLAR">>

(* Only identifiers with more than the limit's characters are reported.    *)
OnlyOverlongIsReported ==
  \A i \in 1 .. Len(out) :
    out[i].type = "ERROR" /\ out[i].lexeme # <<>> /\ out[i].lexeme[1] \in Alpha
      => Len(out[i].lexeme) > MaxLexeme
=============================================================================
