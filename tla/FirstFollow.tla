---------------------------- MODULE FirstFollow ----------------------------
(***************************************************************************)
(* How the parse table is made from the productions: the passes of         *)
(* set_first_sets_for() (first.c) and set_follow_sets_for() (follow.c)     *)
(* over the productions until no set grows, then one pass of               *)
(* get_parse_table_for() (parse_table.c).  A step handles one production   *)
(* or ends a pass.                                                         *)
(***************************************************************************)
EXTENDS LL1, TLC

CONSTANTS
  Grammars,    \* the grammars the productions file may hold
  Leftovers    \* what may be in memory that is read before it is written

VARIABLES
  grammar,
  phase,     \* "first", "follow", "table", "done", "conflict" or "crashed"
  i,         \* the next production of the pass
  sizes,     \* the size of each set when the last pass ended
  first,     \* first_sets_map, the nonterminals
  follow,    \* follow_sets_map
  table      \* the production in each filled cell of the parse table

(* The productions have symbols of the grammar only, and an empty          *)
(* right-hand side has EPSILON and no other symbol, but for actions.       *)
ASSUME GrammarsAssumption ==
  \A g \in Grammars :
    /\ DOMAIN g = 1 .. Len(g) /\ Len(g) \in Nat
    /\ StartSymbol \in Heads(g) /\ Heads(g) \cap Terminals = {}
    /\ \A k \in DOMAIN g :
         /\ Body(g[k]) \in Seq(Terminals \cup Heads(g)) /\ Body(g[k]) # << >>
         /\ Body(g[k]) = <<"EPSILON">> \/ \A j \in DOMAIN Body(g[k]) : Body(g[k])[j] # "EPSILON"

vars == <<grammar, phase, i, sizes, first, follow, table>>

Cells == Heads(grammar) \X Terminals

Init ==
  /\ grammar \in Grammars
  /\ phase = "first" /\ i = 1
  /\ sizes  = [X \in Heads(grammar) |-> 0]
  /\ first  = [X \in Heads(grammar) |-> {}]
  /\ follow = [X \in Heads(grammar) |-> IF X = StartSymbol THEN {"DOLLAR"} ELSE {}]
  /\ table  = << >>

(* What symbol s can begin with, by the sets so far, and which symbols of  *)
(* a right-hand side b can come first: those with none but nullable ones   *)
(* before them.                                                            *)
FirstOf(sets, s) == IF s \in Terminals THEN {s} ELSE sets[s]
Reached(sets, b) == { k \in DOMAIN b : \A j \in 1 .. k - 1 : "EPSILON" \in FirstOf(sets, b[j]) }
Starts(sets, b)   == (UNION { FirstOf(sets, b[k]) : k \in Reached(sets, b) }) \ {"EPSILON"}
Vanishes(sets, b) == Len(b) \in Reached(sets, b) /\ "EPSILON" \in FirstOf(sets, b[Len(b)])

(* Mutant: only the symbol after the first is looked at.                   *)
FirstTempOnce(sets, p) ==
  LET b == Body(p)
      next == IF Len(b) > 1 /\ "EPSILON" \in FirstOf(sets, b[1]) THEN FirstOf(sets, b[2]) ELSE {}
  IN  IF b = <<"EPSILON">> THEN {"EPSILON"} ELSE (FirstOf(sets, b[1]) \cup next) \ {"EPSILON"}

(* What production p adds to the FIRST set of its left-hand side.          *)
FirstTemp(sets, p) ==
  Starts(sets, Body(p)) \cup IF Vanishes(sets, Body(p)) THEN {"EPSILON"} ELSE {}

FirstStep ==
  /\ phase = "first" /\ i <= Len(grammar)
  /\ first' = [first EXCEPT ![grammar[i].lhs] = @ \cup FirstTemp(first, grammar[i])]
  /\ i' = i + 1
  /\ UNCHANGED <<grammar, phase, sizes, follow, table>>

Sizes(sets) == [X \in Heads(grammar) |-> Cardinality(sets[X])]

(* Mutant: the sizes are not remembered.                                   *)
EndPassForgets(now, sets, next, before) ==
  /\ phase = now /\ i > Len(grammar)
  /\ i' = 1
  /\ phase' = IF sizes # Sizes(sets) THEN phase ELSE next
  /\ UNCHANGED <<grammar, sizes, first, follow, table>>

(* The end of a pass: another one, unless no size has changed.  The next   *)
(* phase starts from the sizes `before'.                                   *)
EndPass(now, sets, next, before) ==
  /\ phase = now /\ i > Len(grammar)
  /\ i' = 1
  /\ IF sizes # Sizes(sets)
       THEN sizes' = Sizes(sets) /\ phase' = phase
       ELSE sizes' \in before /\ phase' = next
  /\ UNCHANGED <<grammar, first, follow, table>>

(* Mutant: a nullable nonterminal hides what comes after it.               *)
TrailerHides(sets, p, k) ==
  LET b == Body(p) IN IF k < Len(b) THEN FirstOf(first, b[k + 1]) \ {"EPSILON"} ELSE sets[p.lhs]

(* What the trailer holds when the k-th symbol of production p is met,     *)
(* from the right: the terminals that can come after it, and if all the    *)
(* symbols after it are nullable what can come after the left-hand side.   *)
Clear(b, k, j) == \A m \in k + 1 .. j - 1 : "EPSILON" \in FirstOf(first, b[m])
After(b, k)    == UNION { FirstOf(first, b[j]) : j \in { j \in k + 1 .. Len(b) : Clear(b, k, j) } }

Trailer(sets, p, k) ==
  (After(Body(p), k) \ {"EPSILON"})
    \cup IF Clear(Body(p), k, Len(Body(p)) + 1) THEN sets[p.lhs] ELSE {}

(* What production p adds to the FOLLOW set of X.                          *)
FollowTemp(sets, p, X) ==
  UNION { Trailer(sets, p, k) : k \in { k \in DOMAIN Body(p) : Body(p)[k] = X } }

FollowStep ==
  /\ phase = "follow" /\ i <= Len(grammar)
  /\ follow' = [X \in Heads(grammar) |-> follow[X] \cup FollowTemp(follow, grammar[i], X)]
  /\ i' = i + 1
  /\ UNCHANGED <<grammar, phase, sizes, first, table>>

(* The sizes that follow.c starts from: its memset() clears those of the   *)
(* first fourteen nonterminals only.                                       *)
Cleared == {"Pro", "moduleDeclarations", "otherModules", "driverModule", "moduleDeclaration",
            "module", "moduleDef", "driverModuleDef", "inputParameterList",
            "ZInputParameterList", "returnList", "outputParameterList",
            "ZOutputParameterList", "dataType"}
Uncleared == { [X \in Heads(grammar) |-> IF X \in Cleared THEN 0 ELSE n] : n \in Leftovers }

EndFirst  == EndPass("first", first, "follow", Uncleared)
EndFollow == EndPass("follow", follow, "table", {sizes})

(* first_set_helper(), without EPSILON, which the table does not take.     *)
FirstOfRhs(p) == Starts(first, Body(p))

(* Mutant: an empty right-hand side is expanded on its own FIRST set.      *)
ColumnsOfFirst(p) == FirstOfRhs(p)
IsNull(p)  == Body(p) = <<"EPSILON">>
Columns(p) == IF IsNull(p) THEN follow[p.lhs] ELSE FirstOfRhs(p)
CellsOf(p) == { <<p.lhs, t>> : t \in Columns(p) }

Fill ==
  /\ phase = "table" /\ i <= Len(grammar)
  /\ CellsOf(grammar[i]) \cap DOMAIN table = {}
  /\ table' = [c \in CellsOf(grammar[i]) \cup DOMAIN table |->
                IF c \in DOMAIN table THEN table[c] ELSE i]
  /\ i' = i + 1
  /\ UNCHANGED <<grammar, phase, sizes, first, follow>>

(* Two productions for one cell: NULL is returned for the table, if the    *)
(* program survives destroy_parse_table(), which starts on rows that no    *)
(* memory was allocated for.                                               *)
Conflict ==
  /\ phase = "table" /\ i <= Len(grammar)
  /\ CellsOf(grammar[i]) \cap DOMAIN table # {}
  /\ phase' \in {"conflict", "crashed"}
  /\ table' = << >>
  /\ UNCHANGED <<grammar, i, sizes, first, follow>>

Filled ==
  /\ phase = "table" /\ i > Len(grammar)
  /\ phase' = "done"
  /\ UNCHANGED <<grammar, i, sizes, first, follow, table>>

Next == FirstStep \/ EndFirst \/ FollowStep \/ EndFollow \/ Fill \/ Conflict \/ Filled
Spec == Init /\ [][Next]_vars /\ WF_vars(Next)

-----------------------------------------------------------------------------
NoTable == phase \in {"conflict", "crashed"}
Ended   == phase = "done" \/ NoTable

(* When the passes of first.c stop, each FIRST set holds exactly the       *)
(* terminals that the strings derived from its nonterminal begin with:     *)
(* the stop test, which compares sizes only, does not end them early, and  *)
(* the order of the productions in the file does not matter.               *)
FirstIsExact ==
  Ended => LET exact == FirstSets(grammar)
           IN  \A X \in Heads(grammar) : first[X] = Image(exact, {X})

(* The same of follow.c: the terminals that come after the nonterminal in  *)
(* a derivation from Pro, DOLLAR at the end.                               *)
FollowIsExact ==
  Ended => LET exact == FollowSets(grammar)
           IN  \A X \in Heads(grammar) : follow[X] = Image(exact, {X})

(* Expanding by the table is the only choice there is: a cell has the one  *)
(* production that can be expanded there, and no table is made when two    *)
(* could be.  (A production that derives the empty string through its      *)
(* nonterminals gets no cells for that; ERPLAG has none.)                  *)
TablePredicts ==
  Ended /\ HiddenEmpty(grammar) = {} =>
    LET predict == PredictSets(grammar)
        fits(c) == { k \in DOMAIN grammar : grammar[k].lhs = c[1] /\ <<k, c[2]>> \in predict }
    IN  IF NoTable THEN \E c \in Cells : Cardinality(fits(c)) > 1
        ELSE \A c \in Cells : fits(c) = IF c \in DOMAIN table THEN {table[c]} ELSE {}

(* The passes come to an end, whatever the productions: the loops of       *)
(* first.c and follow.c stop, and the table or the conflict is found.      *)
TableIsMade == <>Ended
=============================================================================
