------------------------------- MODULE Parser -------------------------------
(***************************************************************************)
(* The table-driven parser, construct_parse_tree() of parse_tree.c, with   *)
(* the semantic actions of Ast and the lexer that hands it one token at a  *)
(* time.  The source is read token by token and decided on as it is read:  *)
(* some tokens that are fixed, up to `free' tokens of an alphabet, then    *)
(* more fixed ones.  A token is its type and its line.                     *)
(***************************************************************************)
EXTENDS Ast, Prediction, SequencesExt

CONSTANTS
  Sources             \* records [lead, free, alphabet, lines, tail]; the free
                      \* tokens are on lines 1 .. lines

Symbols == Terminals \cup NonTerminals \cup Actions

(* The symbols that are only ever expected inside of a statement.          *)
WithinStatement == {"statement", "simpleStatement", "assignmentStatement", "whichAssignment"}

ASSUME SourcesAssumption ==
  Sources \subseteq [lead : Seq(Tokens), free : Nat, alphabet : SUBSET Tokens, lines : Nat \ {0},
                     tail : Seq(Tokens)]

(* The table is for this grammar, and complete.                            *)
ASSUME TableAssumption   == TableFits(Productions)
ASSUME PredictAssumption == Predictive(ProductionSet)

(* What the proofs use of the grammar: the symbols of its right-hand       *)
(* sides, none of them the end of the source, and that a statement is      *)
(* expected only with a list of statements after it.                       *)
ASSUME GrammarAssumption ==
  /\ \A p \in ProductionSet :
       /\ p.rhs \in Seq(Symbols \ {"DOLLAR"}) /\ p.rhs # << >>
       /\ \A k \in DOMAIN p.rhs : p.rhs[k] \in WithinStatement =>
            p.lhs \in WithinStatement \/ \E j \in k + 1 .. Len(p.rhs) : p.rhs[j] = "statements"
  /\ NonTerminals \cap (Terminals \cup Actions) = {}
  /\ Actions \cap Terminals = {}
  /\ {StartSymbol, "statements"} \cup WithinStatement \subseteq NonTerminals
  /\ StartSymbol \notin WithinStatement

VARIABLES
  input,              \* what the lexer has not delivered, and the line it is on
  token,              \* the token looked at
  stack,              \* the grammar symbols expected, the top first
  values,             \* the semantic stack
  lastErrorLine,      \* last_syntax_error_line
  reports,            \* the lines errors were reported on
  culprit,            \* to_report_in_error
  pc,                 \* "parse", "skip" or "scan" while recovering, "done",
                      \* "exited" or "crashed"
  seen,               \* history: the tokens matched
  skipped             \* history: a statement was dropped

vars == <<input, token, stack, values, lastErrorLine, reports, culprit, pc, seen, skipped>>

NoToken == [type |-> "NULL", line |-> 0]
Tok(type, line) == [type |-> type, line |-> line]

(* get_next_token(): what it may return, and what is left then.  DOLLAR    *)
(* comes once at the end, then NULL.                                       *)
ReadFree(in, t, l) == [token |-> Tok(t, l), left |-> [in EXCEPT !.free = @ - 1, !.line = l]]

ReadTail(in) ==
  IF in.tail # << >>
  THEN [token |-> Tok(Head(in.tail), in.line),
        left  |-> [in EXCEPT !.free = 0, !.tail = Tail(@)]]
  ELSE IF ~in.ended
  THEN [token |-> Tok("DOLLAR", in.line), left |-> [in EXCEPT !.free = 0, !.ended = TRUE]]
  ELSE [token |-> NoToken, left |-> in]

Reads(in) ==
  IF in.lead # << >>
  THEN { [token |-> Tok(Head(in.lead), in.line), left |-> [in EXCEPT !.lead = Tail(@)]] }
  ELSE {ReadTail(in)} \cup
       { ReadFree(in, t, l) : t \in IF in.free > 0 THEN in.alphabet ELSE {},
                              l \in in.line .. in.lines }

(* A source of which nothing has been read.                                *)
Opened(s) == [lead |-> s.lead, free |-> s.free, alphabet |-> s.alphabet, lines |-> s.lines,
              tail |-> s.tail, line |-> 1, ended |-> FALSE]

NextToken == \E r \in Reads(input) : token' = r.token /\ input' = r.left

Init ==
  \E s \in Sources :
    \E r \in Reads(Opened(s)) :
      /\ token = r.token /\ input = r.left
      /\ stack = <<StartSymbol, "DOLLAR">>
      /\ values = << >>
      /\ lastErrorLine = 0 /\ reports = << >> /\ culprit = NoToken
      /\ pc = "parse"
      /\ seen = << >> /\ skipped = FALSE

(* Mutant: the cells that follow from FOLLOW sets are not filled.          *)
HasCellOfFirst ==
  <<Head(stack), token.type>> \in DOMAIN Table /\ token.type \in First[Head(stack)]

-----------------------------------------------------------------------------
Goal     == Head(stack)
Parsing  == pc = "parse" /\ stack # << >> /\ Goal # "DOLLAR" /\ token # NoToken
Cell     == <<Goal, token.type>>
HasCell  == Cell \in DOMAIN Table
GotError == lastErrorLine # 0      \* got_syntax_error, when the loop ends

(* Mutant: the line after the error is the one that is remembered.         *)
ReportNextLine(t, l) ==
  /\ reports' = IF lastErrorLine = t.line THEN reports ELSE Append(reports, l)
  /\ lastErrorLine' = t.line + 1

(* An error on token t, reported at line l unless t's line had one last.   *)
Report(t, l) ==
  /\ reports' = IF lastErrorLine = t.line THEN reports ELSE Append(reports, l)
  /\ lastErrorLine' = t.line

(* handle_terminal_on_top()                                                *)
Match ==
  /\ Parsing /\ Goal \in Terminals /\ Goal = token.type
  /\ stack' = Tail(stack)
  /\ seen' = Append(seen, token.type)
  /\ NextToken
  /\ UNCHANGED <<values, lastErrorLine, reports, culprit, pc, skipped>>

(* Mutant: the terminal stays on the stack.                                *)
MismatchKeeps ==
  /\ Parsing /\ Goal \in Terminals /\ Goal # token.type
  /\ Report(token, token.line)
  /\ UNCHANGED <<input, token, stack, values, culprit, pc, seen, skipped>>

Mismatch ==
  /\ Parsing /\ Goal \in Terminals /\ Goal # token.type
  /\ stack' = Tail(stack)
  /\ Report(token, token.line)
  /\ UNCHANGED <<input, token, values, culprit, pc, seen, skipped>>

(* handle_non_terminal_on_top(), with a production in the cell.            *)
Expand ==
  /\ Parsing /\ Goal \in NonTerminals /\ HasCell
  /\ stack' = Expansion(Productions[Table[Cell]]) \o Tail(stack)
  /\ UNCHANGED <<input, token, values, lastErrorLine, reports, culprit, pc, seen, skipped>>

(* Mutant: the statements are popped as well.                              *)
AbandonStatements ==
  /\ Parsing /\ Goal = "whichAssignment" /\ ~HasCell
  /\ LET from == SelectInSeq(stack, LAMBDA s : s = "statements")
     IN  stack' = IF from = 0 THEN << >> ELSE SubSeq(stack, from + 1, Len(stack))
  /\ pc' = "skip"
  /\ skipped' = TRUE
  /\ UNCHANGED <<input, token, values, lastErrorLine, reports, culprit, seen>>

(* Nothing to expand after the ID of an assignment: the stack is popped    *)
(* down to the statements, or to nothing if it has none, and tokens are    *)
(* skipped up to the next semicolon, with no report.                       *)
AbandonStatement ==
  /\ Parsing /\ Goal = "whichAssignment" /\ ~HasCell
  /\ LET from == SelectInSeq(stack, LAMBDA s : s = "statements")
     IN  stack' = IF from = 0 THEN << >> ELSE SubSeq(stack, from, Len(stack))
  /\ pc' = "skip"
  /\ skipped' = TRUE
  /\ UNCHANGED <<input, token, values, lastErrorLine, reports, culprit, seen>>

Skip ==
  /\ pc = "skip" /\ token # NoToken
  /\ pc' = IF token.type = "SEMICOLON" THEN "parse" ELSE "skip"
  /\ NextToken
  /\ UNCHANGED <<stack, values, lastErrorLine, reports, culprit, seen, skipped>>

(* The type of the token is read before it is tested for NULL.             *)
SkipPastEnd ==
  /\ pc = "skip" /\ token = NoToken
  /\ pc' = "crashed"
  /\ UNCHANGED <<input, token, stack, values, lastErrorLine, reports, culprit, seen, skipped>>

(* Nothing to expand for another nonterminal: the tokens after the one in  *)
(* the way are scanned for one of the synchronization set.                 *)
Sync(X) == First[X] \cup Follow[X] \cup KeywordTokens \cup {"SEMICOLON"}

(* Mutant: the first token in the way of all is the one reported.          *)
ResyncStale ==
  /\ Parsing /\ Goal \in NonTerminals \ {"whichAssignment"} /\ ~HasCell
  /\ culprit' = IF culprit = NoToken THEN token ELSE culprit
  /\ pc' = "scan"
  /\ NextToken
  /\ UNCHANGED <<stack, values, lastErrorLine, reports, seen, skipped>>

Resync ==
  /\ Parsing /\ Goal \in NonTerminals \ {"whichAssignment"} /\ ~HasCell
  /\ culprit' = token
  /\ pc' = "scan"
  /\ NextToken
  /\ UNCHANGED <<stack, values, lastErrorLine, reports, seen, skipped>>

ScanOn ==
  /\ pc = "scan" /\ token # NoToken /\ token.type \notin Sync(Goal)
  /\ NextToken
  /\ UNCHANGED <<stack, values, lastErrorLine, reports, culprit, pc, seen, skipped>>

ScanToFirst ==
  /\ pc = "scan" /\ token.type \in First[Goal]
  /\ Report(token, token.line)
  /\ pc' = "parse"
  /\ UNCHANGED <<input, token, stack, values, culprit, seen, skipped>>

ScanToFollow ==
  /\ pc = "scan" /\ token.type \in Sync(Goal) \ First[Goal]
  /\ Report(token, culprit.line)
  /\ stack' = Tail(stack)
  /\ pc' = "parse"
  /\ UNCHANGED <<input, token, values, culprit, seen, skipped>>

(* The tokens run out: an error is reported and not recorded.              *)
ScanToEnd ==
  /\ pc = "scan" /\ token = NoToken
  /\ reports' = Append(reports, culprit.line)
  /\ pc' = "parse"
  /\ UNCHANGED <<input, token, stack, values, lastErrorLine, culprit, seen, skipped>>

(* execute_action_on_semantic_stack(), while no error has been met.  With  *)
(* other nodes on the stack than the action takes them for the program     *)
(* reads one structure as another: it may go on or crash.                  *)
RunAction ==
  /\ Parsing /\ Goal \in Actions /\ ~GotError
  /\ Len(values) >= Needed(Goal)
  /\ values' = Apply(Goal, values, token.type)
  /\ stack' = Tail(stack)
  /\ UNCHANGED <<input, token, lastErrorLine, reports, culprit, pc, seen, skipped>>

CrashInAction ==
  /\ Parsing /\ Goal \in Actions /\ ~GotError
  /\ ~Fits(Goal, values)
  /\ pc' = "crashed"
  /\ UNCHANGED <<input, token, stack, values, lastErrorLine, reports, culprit, seen, skipped>>

(* After an error the first action on the stack ends the program.          *)
Exit ==
  /\ Parsing /\ Goal \in Actions /\ GotError
  /\ pc' = "exited"
  /\ UNCHANGED <<input, token, stack, values, lastErrorLine, reports, culprit, seen, skipped>>

(* The loop ends.  What is left of the source is read and thrown away.     *)
Finish ==
  /\ pc = "parse" /\ (stack = << >> \/ Goal = "DOLLAR" \/ token = NoToken)
  /\ pc' = "done"
  /\ UNCHANGED <<input, token, stack, values, lastErrorLine, reports, culprit, seen, skipped>>

Recover == AbandonStatement \/ Skip \/ SkipPastEnd \/ Resync \/ ScanOn \/ ScanToFirst
             \/ ScanToFollow \/ ScanToEnd
Next == Match \/ Mismatch \/ Expand \/ Recover \/ RunAction \/ CrashInAction \/ Exit \/ Finish
Spec == Init /\ [][Next]_vars /\ WF_vars(Next)

-----------------------------------------------------------------------------
TypeOK ==
  /\ token = NoToken \/ (token.type \in Tokens /\ token.line \in 1 .. input.lines)
  /\ stack \in Seq(Symbols)
  /\ lastErrorLine \in 0 .. input.lines
  /\ pc \in {"parse", "skip", "scan", "done", "exited", "crashed"}
  /\ skipped \in BOOLEAN

Sound == ~GotError /\ ~skipped /\ pc \in {"parse", "done"}

(* The first error is a real one: the parser finds no production, or       *)
(* another terminal, only for a token that no program has at that place    *)
(* after the tokens matched so far (parse_tree.c, the tests that come      *)
(* before a report).                                                       *)
FirstErrorIsReal ==
  LET stuck == IF Goal \in Terminals THEN Goal # token.type ELSE Goal \in NonTerminals /\ ~HasCell
  IN  Parsing /\ Sound /\ stuck => token.type \notin ContinuesFrom(stack, 1)

(* When a statement is abandoned there is a list of statements to go on    *)
(* with: the loop that pops looks for one, and on a stack without would    *)
(* throw away all that is still expected, DOLLAR too, and the parser would *)
(* stop in the middle of the source with no error.                         *)
RecoveryFindsStatement ==
  stack # << >> /\ (pc = "skip" => Goal = "statements")

(* Errors are reported from the top of the source down.                    *)
ReportsInOrder == \A k \in 1 .. Len(reports) - 1 : reports[k] <= reports[k + 1]

(* Every semantic action finds on the semantic stack the nodes that it     *)
(* casts them to, and operands that are complete: 85 actions spread over   *)
(* 138 productions agree on what they leave for each other.  Two forms the *)
(* grammar accepts break it, a parameter with a sign and an index and a    *)
(* statement that starts with a comma or :=, and have a run of their own;  *)
(* it holds of the sources without them.                                   *)
FitsAt(a) == Parsing /\ Sound /\ Goal = a => Fits(a, values)
NodesFit  == Parsing /\ Goal \in Actions => FitsAt(Goal)

(* Whatever the source, the name of an array is an ID for ACTION56, or     *)
(* what ends as a switch is one for ACTION12.  A source refutes this only  *)
(* if both find a node of another kind.                                    *)
NameOrSwitchFits == []FitsAt("556") \/ []FitsAt("512")

(* The tokens the syntax tree keeps: names, literals, types, signs and     *)
(* operators, and the words that make a node of their own.                 *)
Kept == {"ID", "NUM", "RNUM", "TRUE", "FALSE", "INTEGER", "REAL", "BOOLEAN", "PLUS", "MINUS",
         "MUL", "DIV", "LT", "LE", "GT", "GE", "EQ", "NE", "AND", "OR", "GET_VALUE", "PRINT",
         "SWITCH", "CASE", "DEFAULT", "FOR", "WHILE"}
KeptOf(s) == SelectSeq(s, LAMBDA t : t \in Kept)

(* The syntax tree holds the source: between statements the nodes have the *)
(* kept tokens that were matched, each once and in their order, and inside *)
(* one they have a beginning of them, the token looked at at their end     *)
(* (actions store it before it is matched).  An operand that is            *)
(* overwritten, attached twice or in the wrong place would show.           *)
AstHoldsSource ==
  Sound /\ pc = "parse" =>
    /\ IsPrefix(Flatten(values), Append(KeptOf(seen), token.type))
    /\ Goal \in {"statements", "otherModules", "driverModule", "DOLLAR"} =>
         Flatten(values) = KeptOf(seen)

(* When the loop ends with no error and the whole source read, the         *)
(* semantic stack holds the program and nothing else: the node that is     *)
(* popped for it is one.                                                   *)
ProgramAtEnd ==
  Sound /\ pc = "done" /\ Goal = "DOLLAR" => Len(values) = 1 /\ Top(values).tag = "PROGRAM"

(* No error, no doubt: the parser finds a source correct only if it has    *)
(* dropped no statement and matched everything.                            *)
AcceptsWholeSource ==
  pc = "done" /\ ~GotError => ~skipped /\ token.type = "DOLLAR" /\ Goal = "DOLLAR"

(* The parser comes to an end on every source: it never goes round an      *)
(* error without popping a symbol or reading a token.                      *)
ParserStops == <>(pc \in {"done", "exited", "crashed"})
=============================================================================
