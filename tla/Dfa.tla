-------------------------------- MODULE Dfa --------------------------------
(***************************************************************************)
(* The deterministic automaton of the lexer.  The compiler builds it at    *)
(* start-up from the tables in files/lexer_files (edges, accepting states, *)
(* retraction, "other" transitions, token of each state); this module is   *)
(* those tables, and Invoke is invoke() of dfa.c.                          *)
(*                                                                         *)
(* A character is a string.  One letter stands for its class: "a" is any   *)
(* letter other than e and E, "e" is e or E, "7" is any digit.  "nl" is    *)
(* the newline, "NUL" the zero byte and "#" any other character that no    *)
(* edge of the start state accepts.                                        *)
(***************************************************************************)
EXTENDS Naturals

(* checkers.c: the character classes the edges are labelled with.          *)
EE     == {"e"}
Alpha  == {"a"} \cup EE
Digit  == {"7"}
Blank  == {"nl", " ", "tab"}
Single == {"+", "-", "/", ";", ",", "[", "]", "(", ")"}
Sentinel == "$"

Chars == Alpha \cup Digit \cup Blank \cup Single
           \cup {"_", "<", ">", "*", ":", "=", "!", ".", "$", "#", "NUL"}

States           == 0 .. 48
Start            == 0
IdentifierState  == 2
ErrorState       == 48

(* edges.txt: the labelled edges, as <<from, characters, to>>.             *)
Edges ==
  { <<0, Alpha \cup {"_"}, 1>>, <<0, Digit, 3>>, <<0, {"<"}, 12>>, <<0, {">"}, 18>>,
    <<0, {"*"}, 24>>, <<0, {":"}, 29>>, <<0, {"="}, 32>>, <<0, {"!"}, 34>>,
    <<0, {"."}, 36>>, <<0, {"+"}, 38>>, <<0, {"-"}, 39>>, <<0, {"/"}, 40>>,
    <<0, {";"}, 41>>, <<0, {","}, 42>>, <<0, {"["}, 43>>, <<0, {"]"}, 44>>,
    <<0, {"("}, 45>>, <<0, {")"}, 46>>, <<0, Blank, 47>>,
    <<1, Alpha \cup Digit \cup {"_"}, 1>>,
    <<3, Digit, 3>>, <<3, {"."}, 5>>, <<5, Digit, 6>>, <<5, {"."}, 8>>,
    <<6, Digit, 6>>, <<6, EE, 9>>, <<9, {"+", "-"}, 10>>, <<9, Digit, 11>>,
    <<10, Digit, 11>>, <<11, Digit, 11>>,
    <<12, {"<"}, 13>>, <<12, {"="}, 16>>, <<13, {"<"}, 14>>,
    <<18, {">"}, 19>>, <<18, {"="}, 22>>, <<19, {">"}, 21>>,
    <<24, {"*"}, 25>>, <<25, {"*"}, 26>>, <<26, {"*"}, 27>>, <<26, {"$"}, 48>>,
    <<29, {"="}, 30>>, <<32, {"="}, 33>>, <<34, {"="}, 35>>, <<36, {"."}, 37>> }

(* accept_retract_other.txt, last column: where a state goes on a character *)
(* that none of its edges accepts.  The states not listed have no "other"   *)
(* state, which dfa.c treats as a transition to the error state.            *)
Others == { <<1, 2>>, <<3, 4>>, <<6, 7>>, <<11, 7>>, <<12, 17>>, <<13, 15>>,
            <<18, 23>>, <<19, 20>>, <<24, 28>>, <<25, 25>>, <<26, 25>>, <<29, 31>> }

(* invoke(): the first edge that accepts the character, else "other", else *)
(* the error state.                                                        *)
Matching(q, c) == { e \in Edges : e[1] = q /\ c \in e[2] }
OtherOf(q)     == { o \in Others : o[1] = q }

Invoke == [q \in States |-> [c \in Chars |->
  IF Matching(q, c) # {} THEN (CHOOSE e \in Matching(q, c) : TRUE)[3]
  ELSE IF OtherOf(q) # {} THEN (CHOOSE o \in OtherOf(q) : TRUE)[2]
  ELSE ErrorState]]

(* accept_retract_other.txt: accepting states and how far each retracts.   *)
RetractOne == {2, 4, 7, 15, 17, 20, 23, 28, 31}
RetractTwo == {8}
Accepting  == RetractOne \cup RetractTwo \cup
                {14, 16, 21, 22, 27, 30, 33, 35} \cup (37 .. 47)

(* Mutant of RetractBy: the range after a number is given back in part.    *)
RetractByOne(q) == IF q \in RetractOne \cup RetractTwo THEN 1 ELSE 0

(* Mutant of RetractBy: one character too many is given back.              *)
RetractByThree(q) == IF q \in RetractTwo THEN 3 ELSE IF q \in RetractOne THEN 1 ELSE 0

RetractBy(q) == IF q \in RetractTwo THEN 2 ELSE IF q \in RetractOne THEN 1 ELSE 0

(* id_to_token_type.txt: the token of each accepting state; INVALID marks  *)
(* the states whose lexeme is dropped.                                     *)
TokenTable ==
  { <<2, "ID">>, <<4, "NUM">>, <<7, "RNUM">>, <<8, "NUM">>, <<14, "DRIVERDEF">>,
    <<15, "DEF">>, <<16, "LE">>, <<17, "LT">>, <<20, "ENDDEF">>, <<21, "DRIVERENDDEF">>,
    <<22, "GE">>, <<23, "GT">>, <<28, "MUL">>, <<30, "ASSIGN_OP">>, <<31, "COLON">>,
    <<33, "EQ">>, <<35, "NE">>, <<37, "RANGEOP">>, <<38, "PLUS">>, <<39, "MINUS">>,
    <<40, "DIV">>, <<41, "SEMICOLON">>, <<42, "COMMA">>, <<43, "SQBO">>, <<44, "SQBC">>,
    <<45, "BO">>, <<46, "BC">> }

TokenOf == [q \in States |->
  IF \E r \in TokenTable : r[1] = q
  THEN (CHOOSE r \in TokenTable : r[1] = q)[2] ELSE "INVALID"]

(* The alphabet handle_error_state() recognises: the labels of the start   *)
(* state's edges.                                                          *)
InAlphabet(c) == Matching(Start, c) # {}
=============================================================================
