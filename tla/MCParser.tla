------------------------------ MODULE MCParser ------------------------------
(***************************************************************************)
(* The parser on sources that share a beginning and an end and differ in a *)
(* stretch of a few tokens: one such context for each part of the grammar. *)
(* First, Follow and Table are those of LL1, which the run first_follow    *)
(* shows the code to compute.                                              *)
(***************************************************************************)
EXTENDS Parser, LL1

Image1(rel) == [X \in NonTerminals |-> Image(rel, {X})]
CellsOf(predict) == { <<Productions[p[1]].lhs, p[2]>> : p \in predict }

\* @@ makes TLC write a function out, and the second name keeps its value.
FirstOnce  == << >> @@ Image1(FirstSets(Productions))
FollowOnce == << >> @@ Image1(FollowSets(Productions))
TableOnce  == << >> @@ LET predict == PredictSets(Productions)
                       IN  [c \in CellsOf(predict) |->
                             CHOOSE k \in DOMAIN Productions :
                               Productions[k].lhs = c[1] /\ <<k, c[2]>> \in predict]
ExactFirst  == FirstOnce
ExactFollow == FollowOnce
ExactTable  == TableOnce

Context(lead, free, alphabet, tail) ==
  [lead |-> lead, free |-> free, alphabet |-> alphabet, lines |-> 1, tail |-> tail]
OnLines(n, context) == [context EXCEPT !.lines = n]
Header == <<"DRIVERDEF", "DRIVER", "PROGRAM", "DRIVERENDDEF", "START">>
InDriver(lead, free, alphabet, tail) ==
  Context(Header \o lead, free, alphabet, tail \o <<"END">>)
InModule(lead, free, alphabet, tail) ==
  Context(<<"DEF", "MODULE", "ID", "ENDDEF", "TAKES", "INPUT", "SQBO">> \o lead, free, alphabet,
          tail \o <<"START", "END">> \o Header \o <<"END">>)

Programs == {
  Context(<< >>, 5, {"DECLARE", "MODULE", "ID", "SEMICOLON"}, Header \o <<"END">>),
  OnLines(2, Context(Header, 4, {"END", "DEF", "SEMICOLON"}, <<"END">>)),
  InModule(<< >>, 6, {"ID", "COLON", "REAL", "COMMA"},
           <<"SQBC", "SEMICOLON", "RETURNS", "SQBO", "ID", "COLON", "REAL", "SQBC", "SEMICOLON">>),
  InModule(<<"ID", "COLON", "ARRAY", "SQBO">>, 5, {"MINUS", "NUM", "ID", "RANGEOP"},
           <<"SQBC", "OF", "REAL", "SQBC", "SEMICOLON">>) }

Statements == {
  OnLines(3, InDriver(<< >>, 5, {"ID", "ASSIGN_OP", "NUM", "SEMICOLON"}, << >>)),
  OnLines(2, InDriver(<<"ID", "ASSIGN_OP", "NUM">>, 4, {"ID", "PRINT", "BC", "SEMICOLON"}, <<"SEMICOLON">>)),
  InDriver(<<"PRINT", "BO">>, 6, {"ID", "SQBO", "MINUS", "NUM", "SQBC", "RNUM", "TRUE"},
           <<"BC", "SEMICOLON">>),
  InDriver(<<"SWITCH", "BO", "ID", "BC", "START">>, 5, {"CASE", "NUM", "TRUE", "COLON", "BREAK", "SEMICOLON"},
           <<"DEFAULT", "COLON", "BREAK", "SEMICOLON", "END">>),
  InDriver(<<"FOR", "BO", "ID", "IN">>, 5, {"MINUS", "NUM", "RANGEOP"},
           <<"BC", "START", "ID", "ASSIGN_OP", "ID", "SEMICOLON", "END">>),
  InDriver(<<"WHILE", "BO">>, 5, {"ID", "LT", "AND", "NUM"},
           <<"BC", "START", "GET_VALUE", "BO", "ID", "BC", "SEMICOLON", "END">>),
  InDriver(<<"DECLARE", "ID">>, 4, {"ID", "COMMA", "COLON", "REAL"}, <<"SEMICOLON">>),
  InDriver(<<"DECLARE", "ID", "COMMA", "ID", "COLON", "ARRAY", "SQBO">>, 5,
           {"MINUS", "NUM", "ID", "RANGEOP"}, <<"SQBC", "OF", "REAL", "SEMICOLON">>),
  InDriver(<<"USE", "MODULE", "ID", "WITH", "PARAMETERS">>, 5, {"MINUS", "NUM", "ID", "RNUM", "COMMA"},
           <<"SEMICOLON">>),
  InDriver(<<"SQBO", "ID", "COMMA", "ID", "SQBC", "ASSIGN_OP", "USE", "MODULE", "ID", "WITH",
             "PARAMETERS">>, 6, {"ID", "SQBO", "NUM", "SQBC", "COMMA"}, <<"SEMICOLON">>) }

Expressions == {
  InDriver(<<"ID", "ASSIGN_OP">>, 6, {"ID", "MINUS", "MUL", "LT", "AND", "BO", "BC", "SQBO", "SQBC"},
           <<"SEMICOLON">>),
  InDriver(<<"ID", "ASSIGN_OP", "ID", "MUL">>, 4, {"ID", "PLUS", "MUL", "LT", "AND"}, <<"SEMICOLON">>),
  InDriver(<<"ID", "ASSIGN_OP">>, 4, {"RNUM", "TRUE", "MINUS", "EQ", "OR"}, <<"SEMICOLON">>),
  InDriver(<<"ID", "SQBO">>, 6, {"MINUS", "NUM", "ID", "BO", "BC", "MUL"},
           <<"SQBC", "ASSIGN_OP", "NUM", "SEMICOLON">>) }

(* An assignment without its operator in the driver, and a second driver   *)
(* behind it.                                                              *)
TwoDrivers == { Context(Header \o <<"ID">>, 1, {"NUM"}, <<"SEMICOLON", "END">> \o Header \o <<"END">>) }
(* A parameter with a sign and an index, and a statement that may be an    *)
(* expression after a comma or :=.                                         *)
Misfits == { InDriver(<<"USE", "MODULE", "ID", "WITH", "PARAMETERS", "MINUS", "ID", "SQBO", "ID", "SQBC",
                        "SEMICOLON">>, 3, {"COMMA", "ASSIGN_OP", "ID", "SEMICOLON"}, << >>) }

MCSources == Programs \cup Statements \cup Expressions

-----------------------------------------------------------------------------
(* The grouping of an expression by precedence, from its tokens: AND and   *)
(* OR bind least, then the relations, then + and -, then * and /; all      *)
(* group from the left.  A sign before a parenthesis has the rest of the   *)
(* expression for its operand, any other sign the factor after it.         *)
Levels == << {"AND", "OR"}, {"LT", "LE", "GT", "GE", "EQ", "NE"}, Signs, {"MUL", "DIV"} >>

Depth(e, k) ==
  Cardinality({ j \in 1 .. k : e[j] \in {"BO", "SQBO"} })
    - Cardinality({ j \in 1 .. k : e[j] \in {"BC", "SQBC"} })

RECURSIVE Group(_)
Group(e) ==
  LET n == Len(e)
      at(level) == { k \in 2 .. n - 1 : e[k] \in level /\ Depth(e, k) = 0 }
      levels == { l \in DOMAIN Levels : at(Levels[l]) # {} }
      split  == LET l == CHOOSE l \in levels : \A m \in levels : l <= m
                IN  CHOOSE k \in at(Levels[l]) : \A j \in at(Levels[l]) : j <= k
  IN  IF e[1] \in Signs /\ e[2] = "BO" THEN <<"(", e[1]>> \o Group(Tail(e)) \o <<")">>
      ELSE IF levels # {}
      THEN <<"(">> \o Group(SubSeq(e, 1, split - 1)) \o <<e[split]>>
             \o Group(SubSeq(e, split + 1, n)) \o <<")">>
      ELSE IF e[1] \in Signs THEN <<"(", e[1], e[2], ")">>
      ELSE IF e[1] = "BO" THEN Group(SubSeq(e, 2, n - 1))
      ELSE IF n > 1 /\ e[2] = "SQBO" THEN <<e[1], "[">> \o Group(SubSeq(e, 3, n - 1)) \o <<"]">>
      ELSE e

(* The expression that ends here: what follows the last := or, of a        *)
(* while, the BO after the last WHILE.                                     *)
After(mark, skip) ==
  LET k == SelectLastInSeq(seen, LAMBDA t : t = mark)
  IN  SubSeq(seen, k + skip, Len(seen))

(* The tree of every expression is grouped the way the precedences have it *)
(* (the grammar drops left recursion; actions 552 to 554 and 558 to 560    *)
(* make up for it).                                                        *)
ExpressionsGroup ==
  /\ Sound /\ pc = "parse" /\ Goal = "569" => Top(values).text = Group(After("ASSIGN_OP", 1))
  /\ Sound /\ pc = "parse" /\ Goal = "573" => Top(values).text = Group(After("WHILE", 2))
  /\ Sound /\ pc = "parse" /\ Goal = "568" /\ Top(values).tag = "ARRAY" =>
       Top(values).text = Group(SubSeq(seen, SelectInSeq(seen, LAMBDA t : t = "ID"), Len(seen)))
=============================================================================
