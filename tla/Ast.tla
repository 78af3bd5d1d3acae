-------------------------------- MODULE Ast --------------------------------
(***************************************************************************)
(* The semantic actions of the grammar, execute_action_on_semantic_stack() *)
(* of ast.c, as operators on the semantic stack.                           *)
(*                                                                         *)
(* The stack is a sequence, its top last.  Of a node the model keeps the   *)
(* tag, which says what the code takes it for, and the tokens it and its   *)
(* children hold, in the order in which they are reached, with marks for   *)
(* the grouping: "(" and ")" around an operator and its operands, "[" and  *)
(* "]" around an index.  A binary operator is an OPERATOR when it is made, *)
(* HALF when it has its left operand and BINARY when it has both.          *)
(***************************************************************************)
EXTENDS Integers, Sequences, FiniteSets, TLC

Node(tag, text) == [tag |-> tag, text |-> text]
Signs == {"PLUS", "MINUS"}
Marks == {"(", ")", "[", "]"}

Top(v)    == v[Len(v)]
Below(v)  == SubSeq(v, 1, Len(v) - 1)
Push(v, node)     == Append(v, node)
Replace(v, node)  == Push(Below(v), node)
Extend(v, tokens) == Replace(v, [Top(v) EXCEPT !.text = @ \o tokens])

(* The top node becomes a child of the one below it.                       *)
Attach(v) == Extend(Below(v), Top(v).text)

-----------------------------------------------------------------------------
(* The actions that do nothing but store the current token in the top      *)
(* node, then make the top node a child of the one below so many times,    *)
(* then push new nodes.                                                    *)
StoreToken == {"503", "507", "508", "509", "511", "514", "515", "521", "523", "526", "529",
               "531", "537", "542", "545", "547", "562", "563", "565", "577"}
StoreSign  == {"528", "530", "544", "546"}

(* Mutant: nodes are attached once only.                                   *)
AttachedOnce ==
  [a \in {"503", "505", "507", "508", "509", "512", "532", "533", "538", "539", "563", "569",
          "570", "573", "582", "583", "517", "519", "541", "548", "566", "575", "585"} |-> 1]

Attached ==
  [a \in {"503", "505", "507", "508", "509", "512", "532", "533", "538", "539", "563", "569",
          "570", "573", "582", "583"} |-> 1]
  @@ [a \in {"517", "519", "541", "548", "566", "575", "585"} |-> 2]

Pushed ==
  [a \in {"501", "516", "540", "547", "574"} |-> <<"STATEMENTS">>]
  @@ [a \in {"524", "534"} |-> <<"VARIABLE_LIST">>]
  @@ "502" :> <<"GET_VALUE">> @@ "504" :> <<"PROGRAM">>    @@ "506" :> <<"PRINT">>
  @@ "510" :> <<"SWITCH">>    @@ "513" :> <<"CASE">>       @@ "518" :> <<"CASE", "STATEMENTS">>
  @@ "522" :> <<"MODULE">>    @@ "561" :> <<"DECLARE">>    @@ "564" :> <<"ARRAY_VARIABLE">>
  @@ "572" :> <<"WHILE">>     @@ "576" :> <<"MODULE_USE">>

(* Nodes that stand for a word of the source start with it.                *)
Heading(a, tag) ==
  IF a = "518" /\ tag = "CASE" THEN <<"DEFAULT">>
  ELSE IF tag \in {"GET_VALUE", "PRINT", "SWITCH", "CASE", "WHILE"} THEN <<tag>> ELSE << >>

(* The actions that push a node with the current token.                    *)
PushedWithToken == "525" :> "VARIABLE" @@ "536" :> "VARIABLE" @@ "552" :> "OPERATOR" @@ "567" :> "ID"

StoreAttachPush(a, v, t) ==
  LET stored == IF a \in StoreToken \/ (a \in StoreSign /\ t \in Signs) THEN Extend(v, <<t>>) ELSE v
      joined == IF a \notin DOMAIN Attached THEN stored
                ELSE IF Attached[a] = 1 THEN Attach(stored) ELSE Attach(Attach(stored))
  IN  IF a \notin DOMAIN Pushed THEN joined
      ELSE joined \o [i \in DOMAIN Pushed[a] |-> Node(Pushed[a][i], Heading(a, Pushed[a][i]))]

-----------------------------------------------------------------------------
(* Expressions.                                                            *)
(* A unary operator gets its operand; one it has already is overwritten.   *)
SignOf(node) == IF Len(node.text) = 1 THEN node.text[1] ELSE node.text[2]
Fill(node, operand) == [node EXCEPT !.text = <<"(", SignOf(node)>> \o operand \o <<")">>]

(* Mutant: a unary factor on the top is left without its operand.          *)
OperandOnTop(v, tag, t) == Push(v, Node(tag, <<t>>))

(* 549, 550, 551, 555, 579, 580, 581, 584: an operand goes into a unary    *)
(* factor on the top of the stack, or onto the stack.                      *)
Operand(v, tag, t) ==
  IF Top(v).tag = "UNARY_FACTOR" THEN Replace(v, Fill(Top(v), <<t>>))
  ELSE Push(v, Node(tag, <<t>>))

(* Mutant: the right operand becomes the left one.                         *)
TakeRightFirst(v) ==
  Push(Below(Below(v)), Node("BINARY", Top(v).text \o Top(Below(v)).text \o <<")">>))

(* 553 and 554: an operator takes the operand below it, then the one above.*)
TakeLeft(v) ==
  LET left == Top(Below(v))
  IN  Push(Below(Below(v)), Node("HALF", <<"(">> \o left.text \o Top(v).text))
TakeRight(v) ==
  Push(Below(Below(v)), Node("BINARY", Top(Below(v)).text \o Top(v).text \o <<")">>))

(* 556 and 571: the node on the top names an array; 557: its index.        *)
NameArray(v)  == Replace(v, Node("ARRAY", Top(v).text \o <<"[">>))
TakeIndex(v)  == Extend(Attach(v), <<"]">>)

(* 558 and 578: a sign, if there is one, starts a unary operator.          *)
Sign(v, tag, t) == IF t \in Signs THEN Push(v, Node(tag, <<t>>)) ELSE v

(* 559: what has been read goes into the unary expression below it.        *)
EndUnary(v) ==
  IF Len(v) > 1 /\ Top(Below(v)).tag = "UNARY_EXPRESSION"
  THEN Replace(Below(v), Fill(Top(Below(v)), Top(v).text))
  ELSE v

(* Mutant: the sign of an index always belongs to the first factor.        *)
SignOfAnyFactor(v, t) ==
  IF Top(v).tag = "UNARY_EXPRESSION" THEN Replace(v, [Top(v) EXCEPT !.tag = "UNARY_FACTOR"]) ELSE v

(* 560: the sign of an index belongs to its first factor, unless that is   *)
(* in parentheses.  (Without a sign the top is an array node, in which the *)
(* code writes to a field that is set again before it is read.)            *)
SignOfFactor(v, t) ==
  IF t # "BO" /\ Top(v).tag = "UNARY_EXPRESSION"
  THEN Replace(v, [Top(v) EXCEPT !.tag = "UNARY_FACTOR"]) ELSE v

(* One action, the current token being t.                                  *)
Apply(a, v, t) ==
  CASE a \in DOMAIN PushedWithToken -> Push(v, Node(PushedWithToken[a], <<t>>))
    [] a = "543" -> Push(v, Node("FOR", <<"FOR", t>>))
    [] a = "527" -> Replace(v, [Top(v) EXCEPT !.tag = "ARRAY_VARIABLE"])
    [] a = "568" -> Replace(v, [Top(v) EXCEPT !.tag = "ASSIGNMENT"])
    [] a \in {"549", "550", "551"} -> Operand(v, "LITERAL", t)
    [] a \in {"555", "581"} -> Operand(v, "ID", t)
    [] a = "584" -> Operand(v, IF t = "NUM" THEN "LITERAL" ELSE "ID", t)
    [] a \in {"579", "580"} -> Attach(Operand(v, "LITERAL", t))
    [] a = "553" -> TakeLeft(v)
    [] a = "554" -> TakeRight(v)
    [] a \in {"556", "571"} -> NameArray(v)
    [] a = "557" -> TakeIndex(v)
    [] a = "558" -> Sign(v, "UNARY_EXPRESSION", t)
    [] a = "578" -> Sign(v, "UNARY_FACTOR", t)
    [] a = "559" -> EndUnary(v)
    [] a = "560" -> SignOfFactor(v, t)
    [] OTHER -> StoreAttachPush(a, v, t)

-----------------------------------------------------------------------------
(* The nodes each action takes the top of the stack for, from the top      *)
(* down: what the code casts them to.                                      *)
Expression == {"ID", "ARRAY", "LITERAL", "BINARY", "UNARY_FACTOR", "UNARY_EXPRESSION"}
Variable   == {"VARIABLE", "ARRAY_VARIABLE"}

Expected ==
  [a \in {"501", "520", "521"} |-> <<{"PROGRAM"}>>]
  @@ "503" :> <<{"GET_VALUE"}, {"STATEMENTS"}>>
  @@ "505" :> <<{"STATEMENTS"}, {"PROGRAM"}>>
  @@ [a \in {"507", "508", "509"} |-> <<{"PRINT"}, {"STATEMENTS"}>>]
  @@ "511" :> <<{"SWITCH"}>> @@ "512" :> <<{"SWITCH"}, {"STATEMENTS"}>>
  @@ [a \in {"514", "515"} |-> <<{"CASE"}>>]
  @@ [a \in {"517", "519"} |-> <<{"STATEMENTS"}, {"CASE"}, {"SWITCH"}>>]
  @@ [a \in {"523", "535", "540"} |-> <<{"MODULE"}>>]
  @@ [a \in {"526", "527", "537"} |-> <<{"VARIABLE"}>>]
  @@ [a \in {"528", "529", "530", "531", "542", "565"} |-> <<{"ARRAY_VARIABLE"}>>]
  @@ "532" :> <<Variable, {"VARIABLE_LIST"}>> @@ "538" :> <<{"VARIABLE"}, {"VARIABLE_LIST"}>>
  @@ [a \in {"533", "539"} |-> <<{"VARIABLE_LIST"}, {"MODULE"}>>]
  @@ "541" :> <<{"STATEMENTS"}, {"MODULE"}, {"PROGRAM"}>>
  @@ [a \in {"544", "545", "546", "547"} |-> <<{"FOR"}>>]
  @@ "548" :> <<{"STATEMENTS"}, {"FOR"}, {"STATEMENTS"}>>
  @@ "575" :> <<{"STATEMENTS"}, {"WHILE"}, {"STATEMENTS"}>>
  @@ "553" :> <<{"OPERATOR"}, Expression>> @@ "554" :> <<Expression, {"HALF"}>>
  @@ [a \in {"556", "571"} |-> <<{"ID"}>>] @@ "557" :> <<Expression, {"ARRAY"}>>
  @@ "559" :> <<Expression>> @@ "562" :> <<{"DECLARE", "MODULE_USE"}>>
  @@ "563" :> <<{"DECLARE"}, {"STATEMENTS"}>>
  @@ "566" :> <<{"ARRAY_VARIABLE"}, {"DECLARE"}, {"STATEMENTS"}>>
  @@ "568" :> <<{"ID", "ARRAY"}>> @@ "569" :> <<Expression, {"ASSIGNMENT"}>>
  @@ "570" :> <<{"ASSIGNMENT"}, {"STATEMENTS"}>> @@ "573" :> <<Expression, {"WHILE"}>>
  @@ "577" :> <<{"MODULE_USE"}>> @@ "582" :> <<{"MODULE_USE"}, {"STATEMENTS"}>>
  @@ [a \in {"579", "580"} |-> <<{"MODULE_USE", "UNARY_FACTOR"}>>]
  @@ "583" :> <<Expression, {"MODULE_USE"}>> @@ "585" :> <<Expression, {"PRINT"}, {"STATEMENTS"}>>

Needed(a) == IF a \in DOMAIN Expected THEN Len(Expected[a]) ELSE 0

(* An operand is complete: a unary operator in it has its own operand.     *)
Complete(node) == node.tag \in {"UNARY_FACTOR", "UNARY_EXPRESSION"} => Len(node.text) > 1

Fits(a, v) ==
  /\ Len(v) >= Needed(a)
  /\ \A k \in 1 .. Needed(a) :
       LET node == v[Len(v) + 1 - k]
       IN  node.tag \in Expected[a][k] /\ (Expected[a][k] = Expression => Complete(node))

(* The tokens of a stack of nodes, bottom first, without the marks.        *)
Flatten(v) ==
  LET upto[k \in 0 .. Len(v)] == IF k = 0 THEN << >> ELSE upto[k - 1] \o v[k].text
  IN  SelectSeq(upto[Len(v)], LAMBDA t : t \notin Marks)
=============================================================================
