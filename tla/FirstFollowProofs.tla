------------------------- MODULE FirstFollowProofs -------------------------
(***************************************************************************)
(* The passes of first.c and follow.c, for every grammar: when they stop,  *)
(* each family of sets is the least one that the productions allow, though *)
(* the test that stops them compares sizes only and, in follow.c, starts   *)
(* from memory that was partly never written.  The table then holds every  *)
(* production in its cells, or is refused because two claim one cell.      *)
(***************************************************************************)
EXTENDS FirstFollow, LL1Proofs

(* The families of sets over the nonterminals of a grammar.                *)
Families(g) == [Heads(g) -> SUBSET Terminals]
Within(g, F, G) == \A X \in Heads(g) : F[X] \subseteq G[X]

-----------------------------------------------------------------------------
LEMMA TerminalsFinite == IsFiniteSet(Terminals)
<1> DEFINE names == << "PLUS", "MINUS", "MUL", "DIV", "LT", "GT", "COLON", "RANGEOP",
      "SEMICOLON", "COMMA", "SQBO", "SQBC", "BO", "BC", "LE", "GE", "EQ", "NE", "DEF", "ENDDEF",
      "ASSIGN_OP", "COMMENTMARK", "DRIVERDEF", "DRIVERENDDEF", "ID", "NUM", "RNUM", "INTEGER",
      "REAL", "BOOLEAN", "OF", "ARRAY", "START", "END", "DECLARE", "MODULE", "DRIVER", "PROGRAM",
      "GET_VALUE", "PRINT", "USE", "WITH", "PARAMETERS", "TAKES", "INPUT", "RETURNS", "FOR", "IN",
      "SWITCH", "CASE", "BREAK", "DEFAULT", "WHILE", "AND", "OR", "TRUE", "FALSE", "INVALID",
      "DOLLAR", "EPSILON" >>
<1>1. names \in [1 .. 60 -> Terminals]
  BY DEF Terminals
<1>2. \A t \in Terminals : \E k \in 1 .. 60 : names[k] = t
  BY DEF Terminals
<1> HIDE DEF names
<1>3. names \in Surjection(1 .. 60, Terminals)
  BY <1>1, <1>2, Fun_IsSurj
<1>4. 1 \in Int /\ 60 \in Int
  OBVIOUS
<1>5. IsFiniteSet(1 .. 60)
  BY <1>4, FS_Interval
<1> QED BY <1>3, <1>5, FS_Surjection

LEMMA SetsFinite ==
  ASSUME NEW S \in SUBSET Terminals
  PROVE  IsFiniteSet(S) /\ Cardinality(S) \in Nat
BY TerminalsFinite, FS_Subset, FS_CardinalityType

(* The stop test: a family that has grown and not changed its sizes since  *)
(* has not grown.                                                          *)
LEMMA SameSizesSameSets ==
  ASSUME NEW g, NEW F \in Families(g), NEW G \in Families(g), Within(g, F, G),
         NEW n, \A X \in Heads(g) : n[X] \in Nat /\ n[X] <= Cardinality(F[X])
  PROVE  /\ \A X \in Heads(g) : n[X] <= Cardinality(G[X])
         /\ n = [X \in Heads(g) |-> Cardinality(G[X])] => F = G
<1>1. ASSUME NEW X \in Heads(g)
      PROVE  /\ n[X] <= Cardinality(G[X])
             /\ n[X] = Cardinality(G[X]) => F[X] = G[X]
  <2>1. F[X] \in SUBSET Terminals /\ G[X] \in SUBSET Terminals /\ F[X] \in SUBSET G[X]
    BY DEF Families, Within
  <2>2. IsFiniteSet(G[X]) /\ Cardinality(G[X]) \in Nat /\ Cardinality(F[X]) \in Nat
    BY <2>1, SetsFinite
  <2>3. Cardinality(F[X]) <= Cardinality(G[X])
        /\ (Cardinality(G[X]) = Cardinality(F[X]) => G[X] = F[X])
    BY <2>1, <2>2, FS_Subset
  <2>4. n[X] \in Nat /\ n[X] <= Cardinality(F[X])
    OBVIOUS
  <2> QED BY <2>2, <2>3, <2>4
<1>2. ASSUME n = [X \in Heads(g) |-> Cardinality(G[X])] PROVE F = G
  <2>1. \A X \in Heads(g) : F[X] = G[X]
    BY <1>1, <1>2
  <2> QED BY <2>1 DEF Families
<1> QED BY <1>1, <1>2

LEMMA EpsilonIsTerminal == "EPSILON" \in Terminals
BY DEF Terminals

-----------------------------------------------------------------------------
(* What a production adds grows with the sets it is computed from.         *)
LEMMA GrammarsWellFormed ==
  ASSUME NEW g \in Grammars
  PROVE  WellFormed(g) /\ DOMAIN g = 1 .. Len(g) /\ Len(g) \in Nat /\ IsFiniteSet(DOMAIN g)
<1>1. DOMAIN g = 1 .. Len(g) /\ Len(g) \in Nat /\ Heads(g) \cap Terminals = {}
  BY GrammarsAssumption
<1>2. \A k \in DOMAIN g : Body(g[k]) \in Seq(Terminals \cup Heads(g)) /\ Body(g[k]) # << >>
  BY GrammarsAssumption
<1>3. 1 \in Int /\ Len(g) \in Int
  BY <1>1
<1>4. IsFiniteSet(DOMAIN g)
  BY <1>1, <1>3, FS_Interval
<1> DEFINE lhs == [k \in DOMAIN g |-> g[k].lhs]
<1>5. lhs \in [DOMAIN g -> Heads(g)] /\ \A X \in Heads(g) : \E k \in DOMAIN g : lhs[k] = X
  BY DEF Heads
<1> HIDE DEF lhs
<1>6. lhs \in Surjection(DOMAIN g, Heads(g))
  BY <1>5, Fun_IsSurj
<1>7. IsFiniteSet(Heads(g))
  BY <1>4, <1>6, FS_Surjection
<1> QED BY <1>1, <1>2, <1>4, <1>7 DEF WellFormed

LEMMA BodyFacts ==
  ASSUME NEW g \in Grammars, NEW k \in DOMAIN g
  PROVE  /\ g[k].lhs \in Heads(g)
         /\ Body(g[k]) # << >> /\ Len(Body(g[k])) \in Nat
         /\ DOMAIN Body(g[k]) = 1 .. Len(Body(g[k]))
         /\ \A j \in 1 .. Len(Body(g[k])) : Body(g[k])[j] \in Terminals \cup Heads(g)
         /\ Len(Body(g[k])) \in 1 .. Len(Body(g[k]))
BY GrammarsWellFormed, WellFormedBody

LEMMA FirstOfGrows ==
  ASSUME NEW g \in Grammars, NEW F \in Families(g), NEW G \in Families(g), Within(g, F, G),
         NEW s \in Terminals \cup Heads(g)
  PROVE  FirstOf(F, s) \subseteq FirstOf(G, s) /\ FirstOf(F, s) \subseteq Terminals
BY DEF FirstOf, Families, Within

LEMMA FirstTempGrows ==
  ASSUME NEW g \in Grammars, NEW k \in DOMAIN g,
         NEW F \in Families(g), NEW G \in Families(g), Within(g, F, G)
  PROVE  /\ FirstTemp(F, g[k]) \subseteq FirstTemp(G, g[k])
         /\ FirstTemp(F, g[k]) \subseteq Terminals
<1> DEFINE b == Body(g[k])
<1>1. /\ DOMAIN b = 1 .. Len(b) /\ Len(b) \in Nat /\ Len(b) \in 1 .. Len(b)
      /\ \A j \in 1 .. Len(b) : b[j] \in Terminals \cup Heads(g)
  BY BodyFacts
<1> HIDE DEF b
<1>2. \A j \in 1 .. Len(b) : /\ FirstOf(F, b[j]) \subseteq FirstOf(G, b[j])
                             /\ FirstOf(F, b[j]) \subseteq Terminals
  BY <1>1, FirstOfGrows
<1>3. Reached(F, b) \subseteq Reached(G, b) /\ Reached(F, b) \subseteq 1 .. Len(b)
  BY <1>1, <1>2 DEF Reached
<1>4. Starts(F, b) \subseteq Starts(G, b) /\ Starts(F, b) \subseteq Terminals
  <2>1. ASSUME NEW t \in Starts(F, b) PROVE t \in Starts(G, b) /\ t \in Terminals
    <3>1. PICK j \in Reached(F, b) : t \in FirstOf(F, b[j]) /\ t # "EPSILON"
      BY <2>1 DEF Starts
    <3>2. j \in Reached(G, b) /\ t \in FirstOf(G, b[j]) /\ t \in Terminals
      BY <1>2, <1>3, <3>1
    <3> QED BY <3>1, <3>2 DEF Starts
  <2> QED BY <2>1
<1>5. Vanishes(F, b) => Vanishes(G, b)
  BY <1>1, <1>2, <1>3 DEF Vanishes
<1> QED BY <1>4, <1>5, EpsilonIsTerminal DEF FirstTemp, b

LEMMA TrailerGrows ==
  ASSUME NEW g \in Grammars, NEW k \in DOMAIN g, first \in Families(g),
         NEW F \in Families(g), NEW G \in Families(g), Within(g, F, G),
         NEW j \in DOMAIN Body(g[k])
  PROVE  /\ Trailer(F, g[k], j) \subseteq Trailer(G, g[k], j)
         /\ Trailer(F, g[k], j) \subseteq Terminals
         /\ "EPSILON" \notin F[g[k].lhs] => "EPSILON" \notin Trailer(F, g[k], j)
<1> DEFINE b == Body(g[k])
<1>1. /\ Len(b) \in Nat /\ j \in 1 .. Len(b) /\ g[k].lhs \in Heads(g)
      /\ \A l \in 1 .. Len(b) : b[l] \in Terminals \cup Heads(g)
  BY BodyFacts
<1> HIDE DEF b
<1>2. \A l \in 1 .. Len(b) : FirstOf(first, b[l]) \subseteq Terminals
  BY <1>1 DEF FirstOf, Families
<1>3. After(b, j) \subseteq Terminals
  BY <1>1, <1>2 DEF After
<1>4. F[g[k].lhs] \subseteq G[g[k].lhs] /\ F[g[k].lhs] \subseteq Terminals
  BY <1>1 DEF Within, Families
<1> QED BY <1>3, <1>4 DEF Trailer, b

LEMMA FollowTempGrows ==
  ASSUME NEW g \in Grammars, NEW k \in DOMAIN g, first \in Families(g), NEW X,
         NEW F \in Families(g), NEW G \in Families(g), Within(g, F, G)
  PROVE  /\ FollowTemp(F, g[k], X) \subseteq FollowTemp(G, g[k], X)
         /\ FollowTemp(F, g[k], X) \subseteq Terminals
         /\ "EPSILON" \notin F[g[k].lhs] => "EPSILON" \notin FollowTemp(F, g[k], X)
BY TrailerGrows DEF FollowTemp

-----------------------------------------------------------------------------
(* The inductive invariant: the shape of the state; then, of each of the   *)
(* two loops, what the pass under way has achieved if no size has changed, *)
(* and what holds when the loop is over; then the table.                   *)
Before(n, sets) == \A X \in Heads(grammar) : n[X] \in Nat /\ n[X] <= Cardinality(sets[X])

ShapeInv ==
  /\ grammar \in Grammars
  /\ phase \in {"first", "follow", "table", "done", "conflict", "crashed"}
  /\ i \in 1 .. Len(grammar) + 1
  /\ first \in Families(grammar)
  /\ follow \in Families(grammar)
  /\ "DOLLAR" \in follow[StartSymbol]
  /\ \A X \in Heads(grammar) : "EPSILON" \notin follow[X]

FirstHolds(k)  == FirstTemp(first, grammar[k]) \subseteq first[grammar[k].lhs]
FollowHolds(k) == \A X \in Heads(grammar) : FollowTemp(follow, grammar[k], X) \subseteq follow[X]

FirstInv ==
  /\ phase = "first" => /\ Before(sizes, first)
                        /\ sizes = Sizes(first) => \A k \in 1 .. i - 1 : FirstHolds(k)
  /\ phase # "first" => \A k \in DOMAIN grammar : FirstHolds(k)

FollowInv ==
  /\ phase = "first" => follow = [X \in Heads(grammar) |-> IF X = StartSymbol THEN {"DOLLAR"} ELSE {}]
  /\ phase = "follow" => /\ sizes[StartSymbol] = 0 \/ Before(sizes, follow)
                         /\ sizes = Sizes(follow) => \A k \in 1 .. i - 1 : FollowHolds(k)
  /\ phase \notin {"first", "follow"} => \A k \in DOMAIN grammar : FollowHolds(k)

LEMMA StartSymbolHead ==
  ASSUME NEW g \in Grammars
  PROVE  StartSymbol \in Heads(g) /\ DOMAIN g = 1 .. Len(g) /\ Len(g) \in Nat
BY GrammarsAssumption

LEMMA InvInit == Init => ShapeInv /\ FirstInv /\ FollowInv
<1> SUFFICES ASSUME Init PROVE ShapeInv /\ FirstInv /\ FollowInv
  OBVIOUS
<1>1. /\ grammar \in Grammars /\ StartSymbol \in Heads(grammar) /\ Len(grammar) \in Nat
      /\ i = 1 /\ phase = "first"
  BY StartSymbolHead DEF Init
<1>2. "DOLLAR" \in Terminals /\ "DOLLAR" # "EPSILON"
  BY DEF Terminals
<1>3. ShapeInv
  BY <1>1, <1>2 DEF Init, ShapeInv, Families
<1>4. Before(sizes, first)
  BY FS_EmptySet DEF Init, Before
<1>5. FirstInv
  BY <1>1, <1>4 DEF FirstInv
<1>6. FollowInv
  BY <1>1 DEF Init, FollowInv
<1> QED BY <1>3, <1>5, <1>6

(* A step over one production in the loop of first.c.                      *)
LEMMA InvFirstStep == ShapeInv /\ FirstInv /\ FollowInv /\ FirstStep => (ShapeInv /\ FirstInv /\ FollowInv)'
<1> SUFFICES ASSUME ShapeInv, FirstInv, FollowInv, FirstStep PROVE (ShapeInv /\ FirstInv /\ FollowInv)'
  OBVIOUS
<1> DEFINE p == grammar[i]
           G == [first EXCEPT ![p.lhs] = @ \cup FirstTemp(first, p)]
<1>1. /\ phase = "first" /\ first' = G /\ i' = i + 1 /\ i \in 1 .. Len(grammar)
      /\ UNCHANGED <<grammar, phase, sizes, follow, table>>
      /\ grammar \in Grammars /\ first \in Families(grammar)
      /\ Len(grammar) \in Nat /\ DOMAIN grammar = 1 .. Len(grammar)
  BY StartSymbolHead DEF FirstStep, ShapeInv
<1>2. /\ p.lhs \in Heads(grammar) /\ FirstTemp(first, p) \subseteq Terminals
  BY <1>1, BodyFacts, FirstTempGrows DEF Within
<1>3. /\ G \in Families(grammar) /\ Within(grammar, first, G)
      /\ FirstTemp(first, p) \subseteq G[p.lhs]
  BY <1>1, <1>2 DEF Families, Within
<1> HIDE DEF G, p
<1>4. /\ \A X \in Heads(grammar) : sizes[X] <= Cardinality(G[X])
      /\ sizes = [X \in Heads(grammar) |-> Cardinality(G[X])] => first = G
  BY <1>1, <1>3, SameSizesSameSets DEF FirstInv, Before
<1>5. Before(sizes, first)'
  BY <1>1, <1>4 DEF FirstInv, Before
<1>6. ASSUME (sizes = Sizes(first))', NEW k \in 1 .. i PROVE FirstHolds(k)'
  <2>1. first = G /\ first' = first
    BY <1>1, <1>4, <1>6 DEF Sizes
  <2>2. sizes = Sizes(first)
    BY <1>1, <1>6, <2>1 DEF Sizes
  <2>3. FirstHolds(k)
    <3>1. CASE k = i
      BY <1>3, <2>1, <3>1 DEF FirstHolds, p
    <3>2. CASE k \in 1 .. i - 1
      BY <1>1, <2>2, <3>2 DEF FirstInv
    <3> QED BY <1>1, <3>1, <3>2
  <2> QED BY <1>1, <2>1, <2>3 DEF FirstHolds
<1>7. i' \in 1 .. Len(grammar) + 1 /\ i' - 1 = i
  BY <1>1
<1>8. ShapeInv'
  BY <1>1, <1>3, <1>7 DEF ShapeInv
<1>9. FirstInv'
  BY <1>1, <1>5, <1>6, <1>7 DEF FirstInv
<1>10. FollowInv'
  BY <1>1 DEF FollowInv
<1> QED BY <1>8, <1>9, <1>10

(* A step over one production in the loop of follow.c.                     *)
LEMMA InvFollowStep == ShapeInv /\ FirstInv /\ FollowInv /\ FollowStep => (ShapeInv /\ FirstInv /\ FollowInv)'
<1> SUFFICES ASSUME ShapeInv, FirstInv, FollowInv, FollowStep PROVE (ShapeInv /\ FirstInv /\ FollowInv)'
  OBVIOUS
<1> DEFINE p == grammar[i]
           G == [X \in Heads(grammar) |-> follow[X] \cup FollowTemp(follow, p, X)]
<1>1. /\ phase = "follow" /\ follow' = G /\ i' = i + 1 /\ i \in 1 .. Len(grammar)
      /\ UNCHANGED <<grammar, phase, sizes, first, table>>
      /\ grammar \in Grammars /\ first \in Families(grammar) /\ follow \in Families(grammar)
      /\ Len(grammar) \in Nat /\ DOMAIN grammar = 1 .. Len(grammar)
      /\ StartSymbol \in Heads(grammar)
  BY StartSymbolHead DEF FollowStep, ShapeInv
<1>2. p.lhs \in Heads(grammar)
  BY <1>1, BodyFacts
<1>3. \A X : /\ FollowTemp(follow, p, X) \subseteq Terminals
             /\ "EPSILON" \notin FollowTemp(follow, p, X)
  BY <1>1, <1>2, FollowTempGrows DEF Within, ShapeInv
<1>4. /\ G \in Families(grammar) /\ Within(grammar, follow, G)
      /\ \A X \in Heads(grammar) : /\ "EPSILON" \notin G[X]
                                   /\ FollowTemp(follow, p, X) \subseteq G[X]
      /\ "DOLLAR" \in G[StartSymbol]
  BY <1>1, <1>3 DEF Families, Within, ShapeInv
<1> HIDE DEF G, p
<1>5. Cardinality(G[StartSymbol]) # 0
  <2>1. G[StartSymbol] \in SUBSET Terminals /\ G[StartSymbol] # {}
    BY <1>1, <1>4 DEF Families
  <2> QED BY <2>1, SetsFinite, FS_EmptySet
<1>6. /\ Before(sizes, follow) => \A X \in Heads(grammar) : sizes[X] <= Cardinality(G[X])
      /\ sizes = [X \in Heads(grammar) |-> Cardinality(G[X])] => follow = G
  <2>1. CASE sizes[StartSymbol] = 0 /\ ~Before(sizes, follow)
    BY <1>1, <1>5, <2>1
  <2>2. CASE Before(sizes, follow)
    BY <1>1, <1>4, <2>2, SameSizesSameSets DEF Before
  <2> QED BY <1>1, <2>1, <2>2 DEF FollowInv
<1>7. (sizes[StartSymbol] = 0 \/ Before(sizes, follow))'
  BY <1>1, <1>6 DEF FollowInv, Before
<1>8. ASSUME (sizes = Sizes(follow))', NEW k \in 1 .. i PROVE FollowHolds(k)'
  <2>1. follow = G /\ follow' = follow
    BY <1>1, <1>6, <1>8 DEF Sizes
  <2>2. sizes = Sizes(follow)
    BY <1>1, <1>8, <2>1 DEF Sizes
  <2>3. FollowHolds(k)
    <3>1. CASE k = i
      BY <1>4, <2>1, <3>1 DEF FollowHolds, p
    <3>2. CASE k \in 1 .. i - 1
      BY <1>1, <2>2, <3>2 DEF FollowInv
    <3> QED BY <1>1, <3>1, <3>2
  <2> QED BY <1>1, <2>1, <2>3 DEF FollowHolds, FollowTemp, Trailer, Clear, After
<1>9. i' \in 1 .. Len(grammar) + 1 /\ i' - 1 = i
  BY <1>1
<1>10. ShapeInv'
  BY <1>1, <1>4, <1>9 DEF ShapeInv
<1>11. FirstInv'
  BY <1>1 DEF FirstInv, FirstHolds
<1>12. FollowInv'
  BY <1>1, <1>7, <1>8, <1>9 DEF FollowInv
<1> QED BY <1>10, <1>11, <1>12

(* The end of a pass: the sizes are those of the sets, or the loop is over *)
(* and every production has been gone through since the sets last grew.    *)
LEMMA SizesBefore ==
  ASSUME NEW F \in Families(grammar)
  PROVE  Before(Sizes(F), F)
<1>1. ASSUME NEW X \in Heads(grammar)
      PROVE  Sizes(F)[X] \in Nat /\ Sizes(F)[X] <= Cardinality(F[X])
  <2>1. F[X] \in SUBSET Terminals
    BY DEF Families
  <2>2. Sizes(F)[X] = Cardinality(F[X]) /\ Cardinality(F[X]) \in Nat
    BY <2>1, SetsFinite DEF Sizes
  <2> QED BY <2>2
<1> QED BY <1>1 DEF Before

LEMMA InvEndFirst == ShapeInv /\ FirstInv /\ FollowInv /\ EndFirst => (ShapeInv /\ FirstInv /\ FollowInv)'
<1> SUFFICES ASSUME ShapeInv, FirstInv, FollowInv, EndFirst PROVE (ShapeInv /\ FirstInv /\ FollowInv)'
  OBVIOUS
<1>1. /\ phase = "first" /\ i = Len(grammar) + 1 /\ i' = 1
      /\ UNCHANGED <<grammar, first, follow, table>>
      /\ grammar \in Grammars /\ first \in Families(grammar)
      /\ Len(grammar) \in Nat /\ DOMAIN grammar = 1 .. Len(grammar)
      /\ StartSymbol \in Heads(grammar)
  BY StartSymbolHead DEF EndFirst, EndPass, ShapeInv
<1>2. CASE sizes # Sizes(first) /\ sizes' = Sizes(first) /\ phase' = "first"
  <2>1. ShapeInv'
    BY <1>1, <1>2 DEF ShapeInv
  <2>2. Before(sizes, first)'
    BY <1>1, <1>2, SizesBefore DEF Before
  <2>3. 1 .. i' - 1 = {}
    BY <1>1
  <2>4. FirstInv'
    BY <1>2, <2>2, <2>3 DEF FirstInv
  <2>5. FollowInv'
    BY <1>1, <1>2 DEF FollowInv
  <2> QED BY <2>1, <2>4, <2>5
<1>3. CASE sizes = Sizes(first) /\ sizes' \in Uncleared /\ phase' = "follow"
  <2>1. ShapeInv'
    BY <1>1, <1>3 DEF ShapeInv
  <2>2. i - 1 = Len(grammar)
    BY <1>1
  <2>3. \A k \in DOMAIN grammar : FirstHolds(k)
    BY <1>1, <1>3, <2>2 DEF FirstInv
  <2>4. FirstInv'
    BY <1>1, <1>3, <2>3 DEF FirstInv, FirstHolds
  <2>5. sizes'[StartSymbol] = 0
    BY <1>1, <1>3 DEF Uncleared, Cleared, StartSymbol
  <2>6. 1 .. i' - 1 = {}
    BY <1>1
  <2>7. FollowInv'
    BY <1>3, <2>5, <2>6 DEF FollowInv
  <2> QED BY <2>1, <2>4, <2>7
<1>4. \/ sizes # Sizes(first) /\ sizes' = Sizes(first) /\ phase' = "first"
      \/ sizes = Sizes(first) /\ sizes' \in Uncleared /\ phase' = "follow"
  BY <1>1, Zenon DEF EndFirst, EndPass
<1> QED BY <1>2, <1>3, <1>4

LEMMA InvEndFollow == ShapeInv /\ FirstInv /\ FollowInv /\ EndFollow => (ShapeInv /\ FirstInv /\ FollowInv)'
<1> SUFFICES ASSUME ShapeInv, FirstInv, FollowInv, EndFollow PROVE (ShapeInv /\ FirstInv /\ FollowInv)'
  OBVIOUS
<1>1. /\ phase = "follow" /\ i = Len(grammar) + 1 /\ i' = 1
      /\ UNCHANGED <<grammar, first, follow, table>>
      /\ grammar \in Grammars /\ follow \in Families(grammar)
      /\ Len(grammar) \in Nat /\ DOMAIN grammar = 1 .. Len(grammar)
  BY StartSymbolHead DEF EndFollow, EndPass, ShapeInv
<1>2. phase' \in {"follow", "table"}
  BY <1>1 DEF EndFollow, EndPass
<1>3. ShapeInv' /\ FirstInv'
  BY <1>1, <1>2 DEF ShapeInv, FirstInv, FirstHolds
<1>4. CASE sizes # Sizes(follow) /\ sizes' = Sizes(follow) /\ phase' = "follow"
  <2>1. Before(sizes, follow)'
    BY <1>1, <1>4, SizesBefore DEF Before
  <2>2. 1 .. i' - 1 = {}
    BY <1>1
  <2>3. FollowInv'
    BY <1>4, <2>1, <2>2 DEF FollowInv
  <2> QED BY <1>3, <2>3
<1>5. CASE sizes = Sizes(follow) /\ phase' = "table"
  <2>1. i - 1 = Len(grammar)
    BY <1>1
  <2>2. \A k \in DOMAIN grammar : FollowHolds(k)
    BY <1>1, <1>5, <2>1 DEF FollowInv
  <2>3. FollowInv'
    BY <1>1, <1>5, <2>2 DEF FollowInv, FollowHolds, FollowTemp, Trailer, Clear, After
  <2> QED BY <1>3, <2>3
<1> QED BY <1>1, <1>4, <1>5 DEF EndFollow, EndPass

(* Filling the table leaves the sets as they are.                          *)
LEMMA InvTable ==
  ShapeInv /\ FirstInv /\ FollowInv /\ (Fill \/ Conflict \/ Filled \/ UNCHANGED vars)
    => (ShapeInv /\ FirstInv /\ FollowInv)'
<1> SUFFICES ASSUME ShapeInv, FirstInv, FollowInv, Fill \/ Conflict \/ Filled \/ UNCHANGED vars
             PROVE  (ShapeInv /\ FirstInv /\ FollowInv)'
  OBVIOUS
<1>0. Len(grammar) \in Nat /\ UNCHANGED <<grammar, sizes, first, follow>>
  BY StartSymbolHead DEF ShapeInv, Fill, Conflict, Filled, vars
<1>1. i' \in 1 .. Len(grammar) + 1
  BY <1>0 DEF ShapeInv, Fill, Conflict, Filled, vars
<1>2. CASE UNCHANGED vars
  <2>1. UNCHANGED <<grammar, phase, i, sizes, first, follow>>
    BY <1>2 DEF vars
  <2>2. ShapeInv' /\ FirstInv'
    BY <2>1 DEF ShapeInv, FirstInv, Before, Sizes, FirstHolds
  <2>3. \A k : FollowHolds(k)' <=> FollowHolds(k)
    BY <2>1 DEF FollowHolds, FollowTemp, Trailer, Clear, After
  <2>4. FollowInv'
    BY <2>1, <2>3 DEF FollowInv, Before, Sizes
  <2> QED BY <2>2, <2>4
<1>3. CASE Fill \/ Conflict \/ Filled
  <2>1. phase = "table" /\ phase' \in {"table", "conflict", "crashed", "done"}
    BY <1>3 DEF Fill, Conflict, Filled
  <2>2. ShapeInv' /\ FirstInv'
    BY <1>0, <1>1, <2>1 DEF ShapeInv, FirstInv, FirstHolds
  <2>3. FollowInv'
    BY <1>0, <2>1 DEF FollowInv, FollowHolds, FollowTemp, Trailer, Clear, After
  <2> QED BY <2>2, <2>3
<1> QED BY <1>2, <1>3

LEMMA InvNext == ShapeInv /\ FirstInv /\ FollowInv /\ [Next]_vars => (ShapeInv /\ FirstInv /\ FollowInv)'
BY InvFirstStep, InvFollowStep, InvEndFirst, InvEndFollow, InvTable DEF Next

(* On every grammar the passes keep to the inductive invariant.            *)
THEOREM PassesInvariant == Spec => [](ShapeInv /\ FirstInv /\ FollowInv)
<1>1. Init => ShapeInv /\ FirstInv /\ FollowInv
  BY InvInit
<1>2. (ShapeInv /\ FirstInv /\ FollowInv) /\ [Next]_vars => (ShapeInv /\ FirstInv /\ FollowInv)'
  BY InvNext
<1> QED BY <1>1, <1>2, PTL DEF Spec

-----------------------------------------------------------------------------
(* The families that the productions allow: nothing that a production adds *)
(* is missing.  The passes never add a terminal that one of them lacks.    *)
FirstClosed(F)  == \A k \in DOMAIN grammar : FirstTemp(F, grammar[k]) \subseteq F[grammar[k].lhs]
FollowClosed(F) ==
  /\ "DOLLAR" \in F[StartSymbol]
  /\ \A k \in DOMAIN grammar : \A X \in Heads(grammar) : FollowTemp(F, grammar[k], X) \subseteq F[X]

FirstLeast  == \A F \in Families(grammar) : FirstClosed(F) => Within(grammar, first, F)
FollowLeast == \A F \in Families(grammar) : FollowClosed(F) => Within(grammar, follow, F)

LEMMA LeastInit == Init => FirstLeast /\ FollowLeast
BY DEF Init, FirstLeast, FollowLeast, FollowClosed, Within

LEMMA LeastFirstStep ==
  ShapeInv /\ FollowInv /\ FirstLeast /\ FirstStep => (FirstLeast /\ FollowLeast)'
<1> SUFFICES ASSUME ShapeInv, FollowInv, FirstLeast, FirstStep PROVE (FirstLeast /\ FollowLeast)'
  OBVIOUS
<1>1. /\ i \in DOMAIN grammar /\ grammar \in Grammars /\ first \in Families(grammar)
      /\ first' = [first EXCEPT ![grammar[i].lhs] = @ \cup FirstTemp(first, grammar[i])]
      /\ UNCHANGED <<grammar, phase, follow>> /\ phase = "first"
  BY StartSymbolHead DEF FirstStep, ShapeInv
<1>2. ASSUME NEW F \in Families(grammar), FirstClosed(F), Within(grammar, first, F)
      PROVE  Within(grammar, first', F)
  <2>1. FirstTemp(first, grammar[i]) \subseteq F[grammar[i].lhs]
    BY <1>1, <1>2, FirstTempGrows DEF FirstClosed
  <2> QED BY <1>1, <1>2, <2>1 DEF Within, Families
<1>3. FirstLeast'
  BY <1>1, <1>2 DEF FirstLeast, FirstClosed
<1>4. FollowLeast'
  BY <1>1 DEF FollowInv, FollowLeast, FollowClosed, Within
<1> QED BY <1>3, <1>4

LEMMA LeastFollowStep ==
  ShapeInv /\ FirstLeast /\ FollowLeast /\ FollowStep => (FirstLeast /\ FollowLeast)'
<1> SUFFICES ASSUME ShapeInv, FirstLeast, FollowLeast, FollowStep PROVE (FirstLeast /\ FollowLeast)'
  OBVIOUS
<1>1. /\ i \in DOMAIN grammar /\ grammar \in Grammars
      /\ first \in Families(grammar) /\ follow \in Families(grammar)
      /\ follow' = [X \in Heads(grammar) |-> follow[X] \cup FollowTemp(follow, grammar[i], X)]
      /\ UNCHANGED <<grammar, first>>
  BY StartSymbolHead DEF FollowStep, ShapeInv
<1>2. FirstLeast'
  BY <1>1 DEF FirstLeast, FirstClosed
<1>3. ASSUME NEW F \in Families(grammar), FollowClosed(F), Within(grammar, follow, F)
      PROVE  Within(grammar, follow', F)
  <2>1. \A X \in Heads(grammar) : FollowTemp(follow, grammar[i], X) \subseteq F[X]
    BY <1>1, <1>3, FollowTempGrows DEF FollowClosed
  <2> QED BY <1>1, <1>3, <2>1 DEF Within
<1>4. \A F : FollowClosed(F)' <=> FollowClosed(F)
  BY <1>1 DEF FollowClosed, FollowTemp, Trailer, Clear, After
<1>5. FollowLeast'
  BY <1>1, <1>3, <1>4 DEF FollowLeast
<1> QED BY <1>2, <1>5

LEMMA LeastNext ==
  (ShapeInv /\ FollowInv) /\ (FirstLeast /\ FollowLeast) /\ [Next]_vars => (FirstLeast /\ FollowLeast)'
<1> SUFFICES ASSUME ShapeInv, FollowInv, FirstLeast, FollowLeast, [Next]_vars
             PROVE  (FirstLeast /\ FollowLeast)'
  OBVIOUS
<1>1. CASE FirstStep
  BY <1>1, LeastFirstStep
<1>2. CASE FollowStep
  BY <1>2, LeastFollowStep
<1>3. CASE EndFirst \/ EndFollow \/ Fill \/ Conflict \/ Filled \/ UNCHANGED vars
  <2>1. UNCHANGED <<grammar, first, follow>>
    BY <1>3 DEF EndFirst, EndFollow, EndPass, Fill, Conflict, Filled, vars
  <2>2. FirstLeast'
    BY <2>1 DEF FirstLeast, FirstClosed
  <2>3. \A F : FollowClosed(F)' <=> FollowClosed(F)
    BY <2>1 DEF FollowClosed, FollowTemp, Trailer, Clear, After
  <2>4. FollowLeast'
    BY <2>1, <2>3 DEF FollowLeast
  <2> QED BY <2>2, <2>4
<1> QED BY <1>1, <1>2, <1>3 DEF Next

LEMMA SetsLeast == Spec => [](ShapeInv /\ FirstInv /\ FollowInv /\ FirstLeast /\ FollowLeast)
<1>1. Init => FirstLeast /\ FollowLeast
  BY LeastInit
<1>2. (ShapeInv /\ FirstInv /\ FollowInv) /\ (FirstLeast /\ FollowLeast) /\ [Next]_vars
        => (FirstLeast /\ FollowLeast)'
  BY LeastNext
<1> QED BY <1>1, <1>2, PassesInvariant, PTL DEF Spec

(* Once follow.c runs, the FIRST sets are the least family closed under    *)
(* the productions: the loop of first.c, which stops when no set has       *)
(* changed its size, has neither stopped early nor added too much,         *)
(* whatever the order of the productions.                                  *)
FirstIsLeast == phase # "first" => FirstClosed(first) /\ FirstLeast

(* The loop of set_first_sets_for() computes that least family, on every   *)
(* grammar.                                                                *)
THEOREM FirstIsLeastFamily == Spec => []FirstIsLeast
<1>1. ShapeInv /\ FirstInv /\ FollowInv /\ FirstLeast /\ FollowLeast => FirstIsLeast
  BY DEF FirstIsLeast, FirstInv, FirstHolds, FirstClosed
<1> QED BY <1>1, SetsLeast, PTL

(* The same of the FOLLOW sets once the table is filled, although the      *)
(* sizes follow.c starts from are whatever memory held.                    *)
FollowIsLeast == phase \notin {"first", "follow"} => FollowClosed(follow) /\ FollowLeast

(* The loop of set_follow_sets_for() computes that least family, on every  *)
(* grammar.                                                                *)
THEOREM FollowIsLeastFamily == Spec => []FollowIsLeast
<1>1. ShapeInv /\ FirstInv /\ FollowInv /\ FirstLeast /\ FollowLeast => FollowIsLeast
  BY DEF FollowIsLeast, ShapeInv, FollowInv, FollowHolds, FollowClosed
<1> QED BY <1>1, SetsLeast, PTL

-----------------------------------------------------------------------------
(* The FIRST sets of LL1, as a family: closed under the productions, and   *)
(* within every family that is.                                            *)
ExactFirst(g) == [X \in Heads(g) |-> Image(FirstSets(g), {X})]

LEMMA ExactFirstOf ==
  ASSUME NEW g \in Grammars, NEW s \in Terminals \cup Heads(g)
  PROVE  /\ \A t : t \in FirstOf(ExactFirst(g), s) <=> <<s, t>> \in FirstSets(g)
         /\ "EPSILON" \in FirstOf(ExactFirst(g), s) <=> s \in Nullable(g)
<1>1. WellFormed(g) /\ Heads(g) \cap Terminals = {} /\ "EPSILON" \in Terminals
  BY GrammarsWellFormed, EpsilonIsTerminal DEF WellFormed
<1>2. "EPSILON" \in Nullable(g) /\ Nullable(g) \subseteq {"EPSILON"} \cup Heads(g)
  BY <1>1, NullableLeast DEF WellFormed
<1>3. ASSUME NEW t PROVE t \in FirstOf(ExactFirst(g), s) <=> <<s, t>> \in FirstSets(g)
  <2>1. CASE s \in Terminals
    BY <1>1, <1>2, <2>1, InFirst DEF FirstOf
  <2>2. CASE s \in Heads(g)
    <3>1. FirstOf(ExactFirst(g), s) = Image(FirstSets(g), {s})
      BY <1>1, <2>2 DEF FirstOf, ExactFirst
    <3>2. <<s, t>>[1] = s /\ <<s, t>>[2] = t
      OBVIOUS
    <3> QED BY <3>1, <3>2, InImage, FirstPairs
  <2> QED BY <2>1, <2>2
<1>4. <<s, "EPSILON">> \in FirstSets(g) <=> s \in Nullable(g)
  BY <1>1, <1>2, InFirst
<1> QED BY <1>3, <1>4

LEMMA ExactFirstFamily ==
  ASSUME NEW g \in Grammars
  PROVE  ExactFirst(g) \in Families(g)
<1>1. Heads(g) \cap Terminals = {} /\ "EPSILON" \in Terminals
  BY GrammarsWellFormed, EpsilonIsTerminal DEF WellFormed
<1>2. ASSUME NEW X \in Heads(g), NEW t \in ExactFirst(g)[X] PROVE t \in Terminals
  <2>1. <<X, t>> \in FirstSets(g)
    BY <1>1, <1>2, ExactFirstOf DEF FirstOf
  <2> QED BY <1>1, <2>1, InFirst
<1> QED BY <1>2 DEF Families, ExactFirst

LEMMA ExactFirstClosed ==
  ASSUME NEW g \in Grammars, NEW k \in DOMAIN g
  PROVE  FirstTemp(ExactFirst(g), g[k]) \subseteq ExactFirst(g)[g[k].lhs]
<1> DEFINE E == ExactFirst(g)
           b == Body(g[k])
           X == g[k].lhs
<1>1. WellFormed(g) /\ "EPSILON" \in Terminals /\ "EPSILON" \notin Heads(g) /\ IsFiniteSet(Heads(g))
  BY GrammarsWellFormed, EpsilonIsTerminal DEF WellFormed
<1>2. /\ X \in Heads(g) /\ Len(b) \in Nat /\ DOMAIN b = 1 .. Len(b) /\ Len(b) \in 1 .. Len(b)
      /\ \A j \in 1 .. Len(b) : b[j] \in Terminals \cup Heads(g)
  BY BodyFacts
<1>3. \A t : t \in E[X] <=> <<X, t>> \in FirstSets(g)
  BY <1>1, <1>2, ExactFirstOf, GrammarsWellFormed DEF FirstOf, WellFormed
<1> HIDE DEF E
<1>4. \A j \in 1 .. Len(b) : /\ \A t : t \in FirstOf(E, b[j]) <=> <<b[j], t>> \in FirstSets(g)
                             /\ "EPSILON" \in FirstOf(E, b[j]) <=> b[j] \in Nullable(g)
  BY <1>2, ExactFirstOf DEF E
<1>5. ASSUME NEW t \in Starts(E, b) PROVE t \in E[X]
  <2>1. PICK j \in Reached(E, b) : t \in FirstOf(E, b[j]) /\ t # "EPSILON"
    BY <1>5 DEF Starts
  <2>2. j \in 1 .. Len(b) /\ \A m \in 1 .. j - 1 : "EPSILON" \in FirstOf(E, b[m])
    BY <1>2 DEF Reached
  <2>3. Gap(Nullable(g), b, 0, j)
    <3>1. \A m \in 0 + 1 .. j - 1 : m \in 1 .. Len(b) /\ m \in 1 .. j - 1
      BY <1>2, <2>2
    <3> QED BY <1>4, <2>2, <3>1 DEF Gap
  <2>4. <<X, b[j]>> \in Begins(g, Nullable(g))
    BY <1>2, <2>2, <2>3, InBegins
  <2>5. b[j] \in FirstReach(g, X)
    <3>1. X \in FirstReach(g, X) /\ <<X, b[j]>>[1] = X /\ <<X, b[j]>>[2] = b[j]
      BY <1>1, <1>2, FirstReachLeast
    <3> QED BY <1>1, <1>2, <2>4, <3>1, FirstReachLeast
  <2>6. t \in FirstReach(g, X) /\ t \in Terminals
    <3>1. <<b[j], t>> \in FirstSets(g)
      BY <1>4, <2>1, <2>2
    <3>2. CASE b[j] \in Terminals /\ t = b[j]
      BY <2>5, <3>2
    <3>3. CASE b[j] \in Heads(g) /\ t \in FirstReach(g, b[j]) /\ t \in Terminals
      <4>1. FirstReach(g, b[j]) \subseteq FirstReach(g, X)
        BY <1>1, <1>2, <2>5, <3>3, FirstReachLeast
      <4> QED BY <3>3, <4>1
    <3> QED BY <2>1, <3>1, <3>2, <3>3, InFirst
  <2> QED BY <1>2, <1>3, <2>1, <2>6, InFirst
<1>6. Vanishes(E, b) => "EPSILON" \in E[X]
  <2>1. SUFFICES ASSUME Vanishes(E, b) PROVE "EPSILON" \in E[X]
    OBVIOUS
  <2>2. \A j \in 1 .. Len(b) : "EPSILON" \in FirstOf(E, b[j])
    <3>0. \A n \in Nat : \A j \in 1 .. n : j = n \/ j \in 1 .. n - 1
      OBVIOUS
    <3>1. \A j \in 1 .. Len(b) : j = Len(b) \/ j \in 1 .. Len(b) - 1
      BY <1>2, <3>0
    <3> QED BY <1>2, <2>1, <3>1 DEF Vanishes, Reached
  <2>3. EmptyIn(g, k, Nullable(g))
    BY <1>2, <1>4, <2>2 DEF EmptyIn
  <2>4. X \in Nullable(g)
    BY <1>1, <2>3, NullableLeast
  <2> QED BY <1>3, <2>4, InFirst
<1> QED BY <1>5, <1>6 DEF FirstTemp, E

LEMMA ExactFirstLeast ==
  ASSUME NEW g \in Grammars, NEW F \in Families(g),
         \A k \in DOMAIN g : FirstTemp(F, g[k]) \subseteq F[g[k].lhs]
  PROVE  Within(g, ExactFirst(g), F)
<1>1. /\ WellFormed(g) /\ "EPSILON" \in Terminals /\ "EPSILON" \notin Heads(g)
      /\ IsFiniteSet(Heads(g)) /\ Heads(g) \cap Terminals = {}
  BY GrammarsWellFormed, EpsilonIsTerminal DEF WellFormed
<1>2. \A k \in DOMAIN g :
        /\ g[k].lhs \in Heads(g) /\ Len(Body(g[k])) \in Nat
        /\ DOMAIN Body(g[k]) = 1 .. Len(Body(g[k])) /\ Len(Body(g[k])) \in 1 .. Len(Body(g[k]))
        /\ \A j \in 1 .. Len(Body(g[k])) : Body(g[k])[j] \in Terminals \cup Heads(g)
  BY BodyFacts
<1>3. \A X \in Heads(g) : FirstOf(F, X) = F[X]
  BY <1>1 DEF FirstOf
<1>4. \A s \in Nullable(g) : "EPSILON" \in FirstOf(F, s)
  <2> DEFINE T == { s \in {"EPSILON"} \cup Heads(g) : "EPSILON" \in FirstOf(F, s) }
  <2>1. "EPSILON" \in T
    BY <1>1 DEF FirstOf
  <2>2. ASSUME NEW k \in DOMAIN g, EmptyIn(g, k, T) PROVE g[k].lhs \in T
    <3>1. \A j \in 1 .. Len(Body(g[k])) : "EPSILON" \in FirstOf(F, Body(g[k])[j])
      BY <1>2, <2>2 DEF EmptyIn
    <3>2. \A m \in 1 .. Len(Body(g[k])) - 1 : m \in 1 .. Len(Body(g[k]))
      BY <1>2
    <3>3. Vanishes(F, Body(g[k]))
      BY <1>2, <3>1, <3>2 DEF Vanishes, Reached
    <3>4. "EPSILON" \in F[g[k].lhs]
      BY <3>3 DEF FirstTemp
    <3> QED BY <1>2, <1>3, <3>4
  <2> HIDE DEF T
  <2>3. Nullable(g) \subseteq T
    BY <1>1, <2>1, <2>2, NullableLeast
  <2> QED BY <2>3 DEF T
<1>5. ASSUME NEW X \in Heads(g) PROVE FirstReach(g, X) \cap Terminals \subseteq F[X] \cup {"EPSILON"}
  <2> DEFINE T == { s \in Terminals \cup Heads(g) : FirstOf(F, s) \subseteq F[X] \cup {"EPSILON"} }
  <2>1. X \in T
    BY <1>3
  <2>2. ASSUME NEW q \in Begins(g, Nullable(g)), q[1] \in T PROVE q[2] \in T
    <3>1. PICK k \in DOMAIN g : \E j \in DOMAIN Body(g[k]) :
            q = <<g[k].lhs, Body(g[k])[j]>> /\ Gap(Nullable(g), Body(g[k]), 0, j)
      BY InBegins
    <3>2. PICK j \in DOMAIN Body(g[k]) :
            q = <<g[k].lhs, Body(g[k])[j]>> /\ Gap(Nullable(g), Body(g[k]), 0, j)
      BY <3>1
    <3>3. q[1] = g[k].lhs /\ q[2] = Body(g[k])[j]
      BY <3>2
    <3>4. j \in Reached(F, Body(g[k]))
      <4>1. \A m \in 1 .. j - 1 : m \in 0 + 1 .. j - 1
        OBVIOUS
      <4> QED BY <1>4, <3>2, <4>1 DEF Reached, Gap
    <3>5. FirstOf(F, Body(g[k])[j]) \subseteq F[g[k].lhs] \cup {"EPSILON"}
      BY <3>4 DEF FirstTemp, Starts
    <3>6. F[g[k].lhs] \subseteq F[X] \cup {"EPSILON"}
      BY <1>2, <1>3, <2>2, <3>3
    <3> QED BY <1>2, <3>3, <3>5, <3>6
  <2> HIDE DEF T
  <2>3. FirstReach(g, X) \subseteq T
    BY <1>1, <2>1, <2>2, FirstReachLeast
  <2>4. \A t \in Terminals : FirstOf(F, t) = {t}
    BY DEF FirstOf
  <2> QED BY <2>3, <2>4 DEF T
<1>6. ASSUME NEW X \in Heads(g), NEW t \in ExactFirst(g)[X] PROVE t \in F[X]
  <2>1. <<X, t>> \in FirstSets(g)
    BY <1>1, <1>6, ExactFirstOf DEF FirstOf
  <2> QED BY <1>1, <1>3, <1>4, <1>5, <2>1, InFirst
<1> QED BY <1>6 DEF Within

LEMMA FirstExact == ShapeInv /\ FirstIsLeast /\ phase # "first" => first = ExactFirst(grammar)
<1> SUFFICES ASSUME ShapeInv, FirstIsLeast, phase # "first" PROVE first = ExactFirst(grammar)
  OBVIOUS
<1>1. grammar \in Grammars /\ first \in Families(grammar) /\ FirstClosed(first) /\ FirstLeast
  BY DEF ShapeInv, FirstIsLeast
<1>2. ExactFirst(grammar) \in Families(grammar) /\ FirstClosed(ExactFirst(grammar))
  BY <1>1, ExactFirstFamily, ExactFirstClosed DEF FirstClosed
<1>3. Within(grammar, first, ExactFirst(grammar))
  BY <1>1, <1>2 DEF FirstLeast
<1>4. Within(grammar, ExactFirst(grammar), first)
  BY <1>1, ExactFirstLeast DEF FirstClosed
<1> QED BY <1>1, <1>2, <1>3, <1>4 DEF Within, Families

(* When the passes of first.c stop, each FIRST set holds exactly the       *)
(* terminals that the strings derived from its nonterminal begin with, on  *)
(* every grammar and in every order of its productions.                    *)
THEOREM FirstPassesExact == Spec => []FirstIsExact
<1>1. ShapeInv /\ FirstIsLeast => FirstIsExact
  <2> SUFFICES ASSUME ShapeInv, FirstIsLeast, Ended
               PROVE  \A X \in Heads(grammar) : first[X] = Image(FirstSets(grammar), {X})
    BY DEF FirstIsExact
  <2>1. first = ExactFirst(grammar)
    BY FirstExact DEF Ended, NoTable
  <2> QED BY <2>1 DEF ExactFirst
<1> QED BY <1>1, FirstIsLeastFamily, PassesInvariant, PTL

-----------------------------------------------------------------------------
(* The same of FOLLOW, given exact FIRST sets.                             *)
ExactFollow(g) == [X \in Heads(g) |-> Image(FollowSets(g), {X})]

LEMMA ExactFollowOf ==
  ASSUME NEW g, NEW X \in Heads(g)
  PROVE  \A t : t \in ExactFollow(g)[X] <=> <<X, t>> \in FollowSets(g)
<1>1. \A t : <<X, t>>[1] = X /\ <<X, t>>[2] = t
  OBVIOUS
<1>2. ExactFollow(g)[X] = Image(FollowSets(g), {X})
  BY DEF ExactFollow
<1> QED BY <1>1, <1>2, InImage, FollowPairs

LEMMA ExactFollowFamily ==
  ASSUME NEW g \in Grammars
  PROVE  ExactFollow(g) \in Families(g)
<1>1. "DOLLAR" \in Terminals /\ "EPSILON" \in Terminals
  BY DEF Terminals
<1>2. ASSUME NEW X \in Heads(g), NEW t \in ExactFollow(g)[X] PROVE t \in Terminals
  <2>1. <<X, t>> \in FollowSets(g)
    BY <1>2, ExactFollowOf
  <2>2. CASE t = "DOLLAR"
    BY <1>1, <2>2
  <2>3. CASE \E s : <<s, t>> \in FirstSets(g)
    BY <1>1, <2>3, InFirst
  <2> QED BY <2>1, <2>2, <2>3, InFollow
<1> QED BY <1>2 DEF Families, ExactFollow

LEMMA FollowOfLater ==
  ASSUME NEW g, WellFormed(g), NEW X \in Heads(g), NEW Y \in Above(g, X)
  PROVE  ExactFollow(g)[Y] \subseteq ExactFollow(g)[X]
<1>1. Y \in Heads(g)
  BY AboveLeast
<1>2. Above(g, Y) \subseteq Above(g, X)
  BY <1>1, AboveLeast
<1>3. ASSUME NEW t, <<Y, t>> \in FollowSets(g) PROVE <<X, t>> \in FollowSets(g)
  BY <1>2, <1>3, InFollow
<1> QED BY <1>1, <1>3, ExactFollowOf

LEMMA ClearIsGap ==
  ASSUME NEW g \in Grammars, first = ExactFirst(g), NEW k \in DOMAIN g,
         NEW j \in 1 .. Len(Body(g[k])), NEW l \in 1 .. Len(Body(g[k])) + 1
  PROVE  Clear(Body(g[k]), j, l) <=> Gap(Nullable(g), Body(g[k]), j, l)
<1>1. \A m \in j + 1 .. l - 1 :
        m \in 1 .. Len(Body(g[k])) /\ Body(g[k])[m] \in Terminals \cup Heads(g)
  BY BodyFacts
<1>2. \A m \in j + 1 .. l - 1 :
        "EPSILON" \in FirstOf(first, Body(g[k])[m]) <=> Body(g[k])[m] \in Nullable(g)
  BY <1>1, ExactFirstOf
<1> QED BY <1>2 DEF Clear, Gap

LEMMA ExactFollowClosed ==
  ASSUME NEW g \in Grammars, first = ExactFirst(g)
  PROVE  /\ "DOLLAR" \in ExactFollow(g)[StartSymbol]
         /\ \A k \in DOMAIN g : \A X \in Heads(g) :
              FollowTemp(ExactFollow(g), g[k], X) \subseteq ExactFollow(g)[X]
<1> DEFINE E == ExactFollow(g)
<1>1. WellFormed(g) /\ StartSymbol \in Heads(g) /\ Heads(g) \cap Terminals = {}
  BY GrammarsWellFormed, StartSymbolHead DEF WellFormed
<1>2. "DOLLAR" \in E[StartSymbol]
  BY <1>1, AboveLeast, InFollow, ExactFollowOf
<1>3. ASSUME NEW k \in DOMAIN g, NEW X \in Heads(g), NEW t \in FollowTemp(E, g[k], X)
      PROVE  t \in E[X]
  <2> DEFINE b == Body(g[k])
  <2>1. /\ g[k].lhs \in Heads(g) /\ Len(b) \in Nat /\ DOMAIN b = 1 .. Len(b)
        /\ \A j \in 1 .. Len(b) : b[j] \in Terminals \cup Heads(g)
    BY BodyFacts
  <2>2. PICK j \in DOMAIN b : b[j] = X /\ t \in Trailer(E, g[k], j)
    BY <1>3 DEF FollowTemp
  <2>3. X \in Above(g, X) /\ b[j] \notin Terminals /\ j \in 1 .. Len(b)
    BY <1>1, <2>1, <2>2, AboveLeast
  <2>4. CASE t \in After(b, j) /\ t # "EPSILON"
    <3>1. PICK l \in j + 1 .. Len(b) : Clear(b, j, l) /\ t \in FirstOf(first, b[l])
      BY <2>4 DEF After
    <3>2. l \in 1 .. Len(b) /\ l \in 1 .. Len(b) + 1 /\ j < l
      BY <2>1, <2>3
    <3>3. Gap(Nullable(g), b, j, l)
      BY <2>3, <3>1, <3>2, ClearIsGap
    <3>4. <<X, b[l]>> \in Follows(g, Nullable(g))
      BY <2>1, <2>2, <2>3, <3>2, <3>3, InFollows
    <3>5. <<b[l], t>> \in FirstSets(g)
      BY <2>1, <3>1, <3>2, ExactFirstOf
    <3>6. <<X, b[l]>>[1] = X /\ <<X, b[l]>>[2] = b[l]
      OBVIOUS
    <3>7. <<X, t>> \in FollowSets(g)
      BY <2>3, <2>4, <3>4, <3>5, <3>6, InFollow
    <3> QED BY <3>7, ExactFollowOf
  <2>5. CASE Clear(b, j, Len(b) + 1) /\ t \in E[g[k].lhs]
    <3>1. Len(b) + 1 \in 1 .. Len(b) + 1
      BY <2>1
    <3>2. Gap(Nullable(g), b, j, Len(b) + 1)
      BY <2>3, <2>5, <3>1, ClearIsGap
    <3>3. <<X, g[k].lhs>> \in Ends(g, Nullable(g))
      BY <2>1, <2>2, <2>3, <3>2, InEnds
    <3>4. <<X, g[k].lhs>>[1] = X /\ <<X, g[k].lhs>>[2] = g[k].lhs
      OBVIOUS
    <3>5. g[k].lhs \in Above(g, X)
      BY <1>1, <2>3, <3>3, <3>4, AboveLeast
    <3> QED BY <1>1, <2>5, <3>5, FollowOfLater
  <2> QED BY <2>2, <2>4, <2>5 DEF Trailer
<1> QED BY <1>2, <1>3

LEMMA ExactFollowLeast ==
  ASSUME NEW g \in Grammars, first = ExactFirst(g), NEW F \in Families(g),
         "DOLLAR" \in F[StartSymbol],
         \A k \in DOMAIN g : \A X \in Heads(g) : FollowTemp(F, g[k], X) \subseteq F[X]
  PROVE  Within(g, ExactFollow(g), F)
<1>1. WellFormed(g) /\ Heads(g) \cap Terminals = {}
  BY GrammarsWellFormed DEF WellFormed
<1>2. \A k \in DOMAIN g :
        /\ g[k].lhs \in Heads(g) /\ Len(Body(g[k])) \in Nat
        /\ DOMAIN Body(g[k]) = 1 .. Len(Body(g[k]))
        /\ \A j \in 1 .. Len(Body(g[k])) : Body(g[k])[j] \in Terminals \cup Heads(g)
  BY BodyFacts
<1>3. ASSUME NEW k \in DOMAIN g, NEW j \in DOMAIN Body(g[k]), Body(g[k])[j] \notin Terminals
      PROVE  Trailer(F, g[k], j) \subseteq F[Body(g[k])[j]] /\ Body(g[k])[j] \in Heads(g)
  BY <1>2, <1>3 DEF FollowTemp
<1>4. ASSUME NEW X \in Heads(g), NEW Y \in Above(g, X) PROVE F[Y] \subseteq F[X]
  <2> DEFINE T == { Z \in Heads(g) : F[Z] \subseteq F[X] }
  <2>1. X \in T
    OBVIOUS
  <2>2. ASSUME NEW q \in Ends(g, Nullable(g)), q[1] \in T PROVE q[2] \in T
    <3>1. PICK k \in DOMAIN g : \E j \in DOMAIN Body(g[k]) :
            /\ q = <<Body(g[k])[j], g[k].lhs>> /\ Body(g[k])[j] \notin Terminals
            /\ Gap(Nullable(g), Body(g[k]), j, Len(Body(g[k])) + 1)
      BY InEnds
    <3>2. PICK j \in DOMAIN Body(g[k]) :
            /\ q = <<Body(g[k])[j], g[k].lhs>> /\ Body(g[k])[j] \notin Terminals
            /\ Gap(Nullable(g), Body(g[k]), j, Len(Body(g[k])) + 1)
      BY <3>1
    <3>3. q[1] = Body(g[k])[j] /\ q[2] = g[k].lhs
      BY <3>2
    <3>4. j \in 1 .. Len(Body(g[k])) /\ Len(Body(g[k])) + 1 \in 1 .. Len(Body(g[k])) + 1
      BY <1>2
    <3>5. Clear(Body(g[k]), j, Len(Body(g[k])) + 1)
      BY <3>2, <3>4, ClearIsGap
    <3>6. F[g[k].lhs] \subseteq F[Body(g[k])[j]]
      BY <1>3, <3>2, <3>5 DEF Trailer
    <3> QED BY <1>2, <2>2, <3>3, <3>6
  <2> HIDE DEF T
  <2>3. Above(g, X) \subseteq T
    BY <1>1, <2>1, <2>2, AboveLeast
  <2> QED BY <2>3 DEF T
<1>5. ASSUME NEW X \in Heads(g), NEW t \in ExactFollow(g)[X] PROVE t \in F[X]
  <2>1. <<X, t>> \in FollowSets(g)
    BY <1>5, ExactFollowOf
  <2>2. CASE t = "DOLLAR" /\ StartSymbol \in Above(g, X)
    BY <1>4, <2>2
  <2>3. CASE t # "EPSILON" /\ \E q \in Follows(g, Nullable(g)) :
               q[1] \in Above(g, X) /\ <<q[2], t>> \in FirstSets(g)
    <3>1. PICK q \in Follows(g, Nullable(g)) : q[1] \in Above(g, X) /\ <<q[2], t>> \in FirstSets(g)
      BY <2>3
    <3>2. PICK k \in DOMAIN g : \E a, j \in DOMAIN Body(g[k]) :
            /\ q = <<Body(g[k])[a], Body(g[k])[j]>>
            /\ a < j /\ Body(g[k])[a] \notin Terminals /\ Gap(Nullable(g), Body(g[k]), a, j)
      BY InFollows
    <3>3. PICK h \in DOMAIN Body(g[k]), j \in DOMAIN Body(g[k]) :
            /\ q = <<Body(g[k])[h], Body(g[k])[j]>>
            /\ h < j /\ Body(g[k])[h] \notin Terminals /\ Gap(Nullable(g), Body(g[k]), h, j)
      BY <3>2
    <3>4. q[1] = Body(g[k])[h] /\ q[2] = Body(g[k])[j]
      BY <3>3
    <3>5. /\ h \in 1 .. Len(Body(g[k])) /\ j \in 1 .. Len(Body(g[k])) + 1
          /\ j \in h + 1 .. Len(Body(g[k])) /\ j \in 1 .. Len(Body(g[k]))
      BY <1>2, <3>3
    <3>6. Clear(Body(g[k]), h, j)
      BY <3>3, <3>5, ClearIsGap
    <3>7. t \in FirstOf(first, Body(g[k])[j])
      BY <1>2, <3>1, <3>4, <3>5, ExactFirstOf
    <3>8. t \in After(Body(g[k]), h)
      BY <3>5, <3>6, <3>7 DEF After
    <3>9. t \in F[Body(g[k])[h]]
      BY <1>3, <2>3, <3>3, <3>8 DEF Trailer
    <3> QED BY <1>4, <3>1, <3>4, <3>9
  <2> QED BY <2>1, <2>2, <2>3, InFollow
<1> QED BY <1>5 DEF Within

LEMMA FollowExact ==
  ShapeInv /\ FirstIsLeast /\ FollowIsLeast /\ phase \notin {"first", "follow"}
    => follow = ExactFollow(grammar)
<1> SUFFICES ASSUME ShapeInv, FirstIsLeast, FollowIsLeast, phase \notin {"first", "follow"}
             PROVE  follow = ExactFollow(grammar)
  OBVIOUS
<1>1. /\ grammar \in Grammars /\ follow \in Families(grammar)
      /\ FollowClosed(follow) /\ FollowLeast /\ first = ExactFirst(grammar)
  BY FirstExact DEF ShapeInv, FollowIsLeast
<1>2. ExactFollow(grammar) \in Families(grammar) /\ FollowClosed(ExactFollow(grammar))
  BY <1>1, ExactFollowFamily, ExactFollowClosed DEF FollowClosed
<1>3. Within(grammar, follow, ExactFollow(grammar))
  BY <1>1, <1>2 DEF FollowLeast
<1>4. Within(grammar, ExactFollow(grammar), follow)
  BY <1>1, ExactFollowLeast DEF FollowClosed
<1> QED BY <1>1, <1>2, <1>3, <1>4 DEF Within, Families

(* The same of follow.c: each FOLLOW set holds exactly the terminals that  *)
(* come after its nonterminal in a derivation, whatever its sizes were     *)
(* before the first pass.                                                  *)
THEOREM FollowPassesExact == Spec => []FollowIsExact
<1>1. ShapeInv /\ FirstIsLeast /\ FollowIsLeast => FollowIsExact
  <2> SUFFICES ASSUME ShapeInv, FirstIsLeast, FollowIsLeast, Ended
               PROVE  \A X \in Heads(grammar) : follow[X] = Image(FollowSets(grammar), {X})
    BY DEF FollowIsExact
  <2>1. follow = ExactFollow(grammar)
    BY FollowExact DEF Ended, NoTable
  <2> QED BY <2>1 DEF ExactFollow
<1> QED BY <1>1, FirstIsLeastFamily, FollowIsLeastFamily, PassesInvariant, PTL

-----------------------------------------------------------------------------
(* The table: the cells of the productions gone through, each with its     *)
(* production, and no cell is claimed by two.                              *)
TableInv ==
  /\ phase \in {"first", "follow"} => table = << >>
  /\ phase \in {"table", "done"} =>
       /\ DOMAIN table = UNION { CellsOf(grammar[k]) : k \in 1 .. i - 1 }
       /\ \A k \in 1 .. i - 1 : \A c \in CellsOf(grammar[k]) : table[c] = k
  /\ phase = "done" => i = Len(grammar) + 1
  /\ NoTable =>
       \E j, k \in DOMAIN grammar : j < k /\ CellsOf(grammar[j]) \cap CellsOf(grammar[k]) # {}

LEMMA TableInit == Init => TableInv
BY DEF Init, TableInv, NoTable

LEMMA CellsStay ==
  ASSUME UNCHANGED <<grammar, first, follow>>
  PROVE  \A p : CellsOf(p)' = CellsOf(p)
BY DEF CellsOf, Columns, IsNull, FirstOfRhs

LEMMA TableFill == ShapeInv /\ TableInv /\ Fill => TableInv'
<1> SUFFICES ASSUME ShapeInv, TableInv, Fill PROVE TableInv'
  OBVIOUS
<1>1. /\ phase = "table" /\ phase' = "table" /\ i' = i + 1 /\ i \in 1 .. Len(grammar)
      /\ Len(grammar) \in Nat /\ UNCHANGED <<grammar, first, follow>>
      /\ CellsOf(grammar[i]) \cap DOMAIN table = {}
  BY StartSymbolHead DEF Fill, ShapeInv
<1>2. \A p : CellsOf(p)' = CellsOf(p)
  BY <1>1, CellsStay
<1>3. 1 .. i' - 1 = (1 .. i - 1) \cup {i}
  BY <1>1
<1>4. /\ DOMAIN table' = CellsOf(grammar[i]) \cup DOMAIN table
      /\ \A c \in DOMAIN table' : table'[c] = IF c \in DOMAIN table THEN table[c] ELSE i
  BY DEF Fill
<1>5. /\ DOMAIN table = UNION { CellsOf(grammar[k]) : k \in 1 .. i - 1 }
      /\ \A k \in 1 .. i - 1 : \A c \in CellsOf(grammar[k]) : table[c] = k
  BY <1>1 DEF TableInv, NoTable
<1>6. DOMAIN table' = UNION { CellsOf(grammar[k]) : k \in 1 .. i' - 1 }
  BY <1>3, <1>4, <1>5
<1>7. ASSUME NEW k \in 1 .. i' - 1, NEW c \in CellsOf(grammar[k]) PROVE table'[c] = k
  <2>1. CASE k = i
    BY <1>1, <1>4, <2>1
  <2>2. CASE k \in 1 .. i - 1
    BY <1>4, <1>5, <2>2
  <2> QED BY <1>3, <2>1, <2>2
<1> QED BY <1>1, <1>2, <1>6, <1>7 DEF TableInv, NoTable

LEMMA TableNext == ShapeInv /\ TableInv /\ [Next]_vars => TableInv'
<1> SUFFICES ASSUME ShapeInv, TableInv, [Next]_vars PROVE TableInv'
  OBVIOUS
<1>1. Len(grammar) \in Nat /\ DOMAIN grammar = 1 .. Len(grammar) /\ i \in 1 .. Len(grammar) + 1
  BY StartSymbolHead DEF ShapeInv
<1>2. CASE FirstStep \/ FollowStep \/ EndFirst
  <2>1. phase' \in {"first", "follow"} /\ table' = table /\ phase \in {"first", "follow"}
    BY <1>2 DEF FirstStep, FollowStep, EndFirst, EndPass
  <2> QED BY <2>1 DEF TableInv, NoTable
<1>3. CASE EndFollow
  <2>1. /\ phase' \in {"follow", "table"} /\ table' = table /\ phase = "follow"
        /\ i' = 1
    BY <1>3 DEF EndFollow, EndPass
  <2>2. 1 .. i' - 1 = {} /\ DOMAIN table' = {}
    BY <2>1 DEF TableInv, NoTable
  <2> QED BY <2>1, <2>2 DEF TableInv, NoTable
<1>4. CASE Fill
  BY <1>4, TableFill
<1>5. CASE Conflict
  <2>1. /\ phase = "table" /\ NoTable' /\ phase' \notin {"table", "done"} /\ i \in DOMAIN grammar
        /\ UNCHANGED <<grammar, first, follow>>
        /\ CellsOf(grammar[i]) \cap DOMAIN table # {}
    BY <1>1, <1>5 DEF Conflict, NoTable
  <2>2. PICK k \in 1 .. i - 1 : CellsOf(grammar[k]) \cap CellsOf(grammar[i]) # {}
    BY <2>1 DEF TableInv, NoTable
  <2>3. k \in DOMAIN grammar /\ k < i
    BY <1>1, <2>1
  <2>4. \A p : CellsOf(p)' = CellsOf(p)
    BY <2>1, CellsStay
  <2> QED BY <2>1, <2>2, <2>3, <2>4 DEF TableInv, NoTable
<1>6. CASE Filled
  <2>1. /\ phase = "table" /\ phase' = "done" /\ UNCHANGED <<grammar, i, first, follow, table>>
        /\ i = Len(grammar) + 1
    BY <1>1, <1>6 DEF Filled
  <2>2. \A p : CellsOf(p)' = CellsOf(p)
    BY <2>1, CellsStay
  <2> QED BY <2>1, <2>2 DEF TableInv, NoTable
<1>7. CASE UNCHANGED vars
  <2>1. UNCHANGED <<grammar, phase, i, first, follow, table>>
    BY <1>7 DEF vars
  <2>2. \A p : CellsOf(p)' = CellsOf(p)
    BY <2>1, CellsStay
  <2>3. CASE phase \in {"first", "follow"}
    BY <2>1, <2>3 DEF TableInv, NoTable
  <2>4. CASE phase \in {"table", "done"}
    <3>1. { CellsOf(grammar[k]) : k \in 1 .. i - 1 }' = { CellsOf(grammar[k]) : k \in 1 .. i - 1 }
      BY <2>1, <2>2
    <3> QED BY <2>1, <2>2, <2>4, <3>1 DEF TableInv, NoTable
  <2>5. CASE NoTable
    BY <2>1, <2>2, <2>5 DEF TableInv, NoTable
  <2> QED BY <2>3, <2>4, <2>5 DEF ShapeInv, NoTable
<1> QED BY <1>2, <1>3, <1>4, <1>5, <1>6, <1>7 DEF Next

(* The table made has each production in exactly its own cells, a row of   *)
(* a nonterminal and a column of a terminal other than EPSILON, and none   *)
(* is made just when two productions claim one cell.                       *)
TableIsMap ==
  /\ phase = "done" =>
       /\ \A j, k \in DOMAIN grammar :
            j # k => CellsOf(grammar[j]) \cap CellsOf(grammar[k]) = {}
       /\ DOMAIN table \subseteq Heads(grammar) \X (Terminals \ {"EPSILON"})
       /\ \A c \in DOMAIN table : table[c] \in DOMAIN grammar
       /\ \A X \in Heads(grammar), t \in Terminals, k \in DOMAIN grammar :
            (<<X, t>> \in DOMAIN table /\ table[<<X, t>>] = k)
              <=> (grammar[k].lhs = X /\ t \in Columns(grammar[k]))
  /\ NoTable =>
       \E j, k \in DOMAIN grammar : j # k /\ CellsOf(grammar[j]) \cap CellsOf(grammar[k]) # {}

LEMMA ColumnsAreTerminals ==
  ASSUME ShapeInv, NEW k \in DOMAIN grammar
  PROVE  grammar[k].lhs \in Heads(grammar) /\ Columns(grammar[k]) \subseteq Terminals \ {"EPSILON"}
<1>1. /\ grammar \in Grammars /\ first \in Families(grammar) /\ follow \in Families(grammar)
      /\ grammar[k].lhs \in Heads(grammar)
  BY BodyFacts DEF ShapeInv
<1>2. FirstTemp(first, grammar[k]) \subseteq Terminals
  BY <1>1, FirstTempGrows DEF Within
<1>3. FirstOfRhs(grammar[k]) \subseteq Terminals \ {"EPSILON"}
  BY <1>2 DEF FirstOfRhs, FirstTemp, Starts
<1>4. follow[grammar[k].lhs] \subseteq Terminals \ {"EPSILON"}
  BY <1>1 DEF ShapeInv, Families
<1> QED BY <1>1, <1>3, <1>4 DEF Columns

LEMMA TableInvMap == ShapeInv /\ TableInv => TableIsMap
<1> SUFFICES ASSUME ShapeInv, TableInv PROVE TableIsMap
  OBVIOUS
<1>1. CASE phase = "done"
  <2>1. DOMAIN grammar = 1 .. Len(grammar) /\ i - 1 = Len(grammar)
    BY <1>1, StartSymbolHead DEF ShapeInv, TableInv, NoTable
  <2>2. /\ DOMAIN table = UNION { CellsOf(grammar[k]) : k \in DOMAIN grammar }
        /\ \A k \in DOMAIN grammar : \A c \in CellsOf(grammar[k]) : table[c] = k
    BY <1>1, <2>1 DEF TableInv, NoTable
  <2>3. \A k \in DOMAIN grammar :
          grammar[k].lhs \in Heads(grammar) /\ Columns(grammar[k]) \subseteq Terminals \ {"EPSILON"}
    BY ColumnsAreTerminals
  <2>4. \A j, k \in DOMAIN grammar : j # k => CellsOf(grammar[j]) \cap CellsOf(grammar[k]) = {}
    BY <2>2
  <2>5. DOMAIN table \subseteq Heads(grammar) \X (Terminals \ {"EPSILON"})
    BY <2>2, <2>3 DEF CellsOf
  <2>7. \A c \in DOMAIN table : table[c] \in DOMAIN grammar
    BY <2>2
  <2>6. ASSUME NEW X \in Heads(grammar), NEW t \in Terminals, NEW k \in DOMAIN grammar
        PROVE  (<<X, t>> \in DOMAIN table /\ table[<<X, t>>] = k)
                 <=> (grammar[k].lhs = X /\ t \in Columns(grammar[k]))
    <3>1. (grammar[k].lhs = X /\ t \in Columns(grammar[k])) <=> <<X, t>> \in CellsOf(grammar[k])
      BY DEF CellsOf
    <3> QED BY <2>2, <3>1
  <2> QED BY <1>1, <2>4, <2>5, <2>6, <2>7 DEF TableIsMap, NoTable
<1>2. CASE NoTable
  <2>1. PICK j, k \in DOMAIN grammar : j < k /\ CellsOf(grammar[j]) \cap CellsOf(grammar[k]) # {}
    BY <1>2 DEF TableInv, NoTable
  <2>2. j # k
    BY <2>1, StartSymbolHead DEF ShapeInv
  <2> QED BY <1>2, <2>1, <2>2 DEF TableIsMap, NoTable
<1> QED BY <1>1, <1>2 DEF TableIsMap, NoTable

(* get_parse_table_for() makes that table or finds the conflict, on every  *)
(* grammar.                                                                *)
THEOREM TableHoldsProductions == Spec => []TableIsMap
<1>1. Init => TableInv
  BY TableInit
<1>2. ShapeInv /\ TableInv /\ [Next]_vars => TableInv'
  BY TableNext
<1>3. ShapeInv /\ TableInv => TableIsMap
  BY TableInvMap
<1> QED BY <1>1, <1>2, <1>3, PassesInvariant, PTL DEF Spec

-----------------------------------------------------------------------------
(* The columns of a production are the terminals on which it is the one to *)
(* expand, when no other than an empty right-hand side derives the empty   *)
(* string.                                                                 *)
LEMMA StartsOfString ==
  ASSUME NEW g \in Grammars, first = ExactFirst(g), NEW k \in DOMAIN g
  PROVE  FirstOfString(FirstSets(g), Body(g[k])) = Starts(first, Body(g[k]))
<1> DEFINE b == Body(g[k])
<1>1. /\ Len(b) \in Nat /\ DOMAIN b = 1 .. Len(b)
      /\ \A j \in 1 .. Len(b) : b[j] \in Terminals \cup Heads(g)
      /\ b \in Seq(Terminals \cup Heads(g))
  BY BodyFacts, GrammarsAssumption
<1>2. \A j \in 1 .. Len(b) : \A t : t \in FirstOf(first, b[j]) <=> <<b[j], t>> \in FirstSets(g)
  BY <1>1, ExactFirstOf
<1> HIDE DEF b
<1>3. ASSUME NEW j \in 1 .. Len(b)
      PROVE  DerivesEmpty(FirstSets(g), SubSeq(b, 1, j - 1)) <=> j \in Reached(first, b)
  <2>1. /\ DOMAIN SubSeq(b, 1, j - 1) = 1 .. j - 1
        /\ \A m \in 1 .. j - 1 : m \in 1 .. Len(b) /\ SubSeq(b, 1, j - 1)[m] = b[m]
    BY <1>1
  <2>2. DerivesEmpty(FirstSets(g), SubSeq(b, 1, j - 1))
          <=> \A m \in 1 .. j - 1 : <<b[m], "EPSILON">> \in FirstSets(g)
    BY <2>1 DEF DerivesEmpty
  <2>3. j \in Reached(first, b) <=> \A m \in 1 .. j - 1 : "EPSILON" \in FirstOf(first, b[m])
    BY <1>1 DEF Reached
  <2> QED BY <1>2, <2>1, <2>2, <2>3
<1> DEFINE reached == { j \in DOMAIN b : DerivesEmpty(FirstSets(g), SubSeq(b, 1, j - 1)) }
<1>4. reached = Reached(first, b) /\ reached \subseteq 1 .. Len(b)
  BY <1>1, <1>3 DEF Reached
<1>5. FirstOfString(FirstSets(g), b) = Image(FirstSets(g), { b[j] : j \in reached }) \ {"EPSILON"}
  BY DEF FirstOfString
<1> HIDE DEF reached
<1>6. ASSUME NEW t
      PROVE  t \in Image(FirstSets(g), { b[j] : j \in reached })
               <=> \E j \in Reached(first, b) : t \in FirstOf(first, b[j])
  <2>1. ASSUME t \in Image(FirstSets(g), { b[j] : j \in reached })
        PROVE  \E j \in Reached(first, b) : t \in FirstOf(first, b[j])
    <3>1. PICK q \in FirstSets(g) : q[1] \in { b[j] : j \in reached } /\ t = q[2]
      BY <2>1, InImage
    <3>2. PICK j \in reached : q[1] = b[j]
      BY <3>1
    <3>3. <<b[j], t>> \in FirstSets(g)
      BY <3>1, <3>2, FirstPairs
    <3> QED BY <1>2, <1>4, <3>3
  <2>2. ASSUME NEW j \in Reached(first, b), t \in FirstOf(first, b[j])
        PROVE  t \in Image(FirstSets(g), { b[m] : m \in reached })
    <3>1. <<b[j], t>> \in FirstSets(g) /\ b[j] \in { b[m] : m \in reached }
      BY <1>2, <1>4, <2>2
    <3>2. <<b[j], t>>[1] = b[j] /\ <<b[j], t>>[2] = t
      OBVIOUS
    <3> QED BY <3>1, <3>2, InImage
  <2> QED BY <2>1, <2>2
<1> QED BY <1>5, <1>6 DEF Starts, b

LEMMA ColumnsPredict ==
  ASSUME grammar \in Grammars, first = ExactFirst(grammar), follow = ExactFollow(grammar),
         HiddenEmpty(grammar) = {}
  PROVE  \A k \in DOMAIN grammar : \A t :
           <<k, t>> \in PredictSets(grammar) <=> t \in Columns(grammar[k])
<1> DEFINE FS == FirstSets(grammar)
           of(p) == FirstOfString(FS, Body(p))
                      \cup IF DerivesEmpty(FS, Body(p)) THEN Image(FollowSets(grammar), {p.lhs}) ELSE {}
<1>1. PredictSets(grammar) = UNION { { <<k, t>> : t \in of(grammar[k]) } : k \in DOMAIN grammar }
  BY DEF PredictSets
<1>2. ASSUME NEW k \in DOMAIN grammar PROVE of(grammar[k]) = Columns(grammar[k])
  <2>1. FirstOfString(FS, Body(grammar[k])) = Starts(first, Body(grammar[k]))
    BY StartsOfString
  <2>2. grammar[k].lhs \in Heads(grammar)
    BY DEF Heads
  <2>3. Image(FollowSets(grammar), {grammar[k].lhs}) = follow[grammar[k].lhs]
    BY <2>2 DEF ExactFollow
  <2>4. CASE IsNull(grammar[k])
    <3>1. Body(grammar[k]) = <<"EPSILON">> /\ "EPSILON" \in Terminals
      BY <2>4 DEF IsNull, Terminals
    <3>2. DerivesEmpty(FS, Body(grammar[k]))
      BY <3>1, InFirst DEF DerivesEmpty
    <3>3. Starts(first, Body(grammar[k])) = {}
      BY <3>1 DEF Starts, Reached, FirstOf
    <3> QED BY <2>1, <2>3, <2>4, <3>2, <3>3 DEF Columns
  <2>5. CASE ~IsNull(grammar[k])
    <3>1. ~DerivesEmpty(FS, Body(grammar[k]))
      BY <2>5 DEF HiddenEmpty, IsNull
    <3> QED BY <2>1, <2>5, <3>1 DEF Columns, FirstOfRhs
  <2> QED BY <2>4, <2>5
<1> HIDE DEF of
<1> QED BY <1>1, <1>2

LEMMA TablePredictsHere ==
  ShapeInv /\ FirstIsLeast /\ FollowIsLeast /\ TableIsMap => TablePredicts
<1> SUFFICES ASSUME ShapeInv, FirstIsLeast, FollowIsLeast, TableIsMap, Ended,
                    HiddenEmpty(grammar) = {}
             PROVE  TablePredicts
  BY DEF TablePredicts
<1> DEFINE predict == PredictSets(grammar)
           fits(c) == { k \in DOMAIN grammar : grammar[k].lhs = c[1] /\ <<k, c[2]>> \in predict }
<1>1. /\ grammar \in Grammars /\ first = ExactFirst(grammar) /\ follow = ExactFollow(grammar)
      /\ IsFiniteSet(DOMAIN grammar)
  BY FirstExact, FollowExact, GrammarsWellFormed DEF ShapeInv, Ended, NoTable
<1>2. \A k \in DOMAIN grammar : \A t : <<k, t>> \in predict <=> t \in Columns(grammar[k])
  BY <1>1, ColumnsPredict
<1>3. \A c : fits(c) = { k \in DOMAIN grammar : grammar[k].lhs = c[1] /\ c[2] \in Columns(grammar[k]) }
  BY <1>2
<1>4. TablePredicts <=> IF NoTable THEN \E c \in Cells : Cardinality(fits(c)) > 1
                        ELSE \A c \in Cells : fits(c) = IF c \in DOMAIN table THEN {table[c]} ELSE {}
  BY DEF TablePredicts
<1> HIDE DEF fits, predict
<1>5. CASE NoTable
  <2>1. PICK j \in DOMAIN grammar, k \in DOMAIN grammar :
          j # k /\ CellsOf(grammar[j]) \cap CellsOf(grammar[k]) # {}
    BY <1>5 DEF TableIsMap, NoTable
  <2>2. PICK c : c \in CellsOf(grammar[j]) /\ c \in CellsOf(grammar[k])
    BY <2>1
  <2>3. PICK t \in Columns(grammar[j]) : c = <<grammar[j].lhs, t>>
    BY <2>2 DEF CellsOf
  <2>4. c[1] = grammar[j].lhs /\ c[2] = t /\ grammar[k].lhs = c[1] /\ t \in Columns(grammar[k])
    BY <2>2, <2>3 DEF CellsOf
  <2>5. c \in Cells
    BY <2>3, ColumnsAreTerminals DEF Cells
  <2>6. j \in fits(c) /\ k \in fits(c) /\ fits(c) \in SUBSET DOMAIN grammar
    BY <1>3, <2>3, <2>4
  <2>7. IsFiniteSet(fits(c)) /\ IsFiniteSet({j}) /\ Cardinality({j}) = 1
    BY <1>1, <2>6, FS_Subset, FS_Singleton
  <2>8. {j, k} \in SUBSET fits(c)
    BY <2>6
  <2>9. IsFiniteSet({j} \cup {k}) /\ Cardinality({j} \cup {k}) = 2
    <3>1. k \notin {j}
      BY <2>1
    <3> QED BY SMTT(30), <2>7, <3>1, FS_AddElement
  <2>10. {j} \cup {k} = {j, k}
    OBVIOUS
  <2>11. Cardinality({j, k}) <= Cardinality(fits(c)) /\ Cardinality(fits(c)) \in Nat
    BY <2>7, <2>8, FS_Subset, FS_CardinalityType
  <2>12. Cardinality(fits(c)) > 1
    BY <2>9, <2>10, <2>11
  <2> QED BY <1>4, <1>5, <2>5, <2>12
<1>6. CASE phase = "done"
  <2>1. ASSUME NEW c \in Cells PROVE fits(c) = IF c \in DOMAIN table THEN {table[c]} ELSE {}
    <3>1. PICK X \in Heads(grammar), t \in Terminals : c = <<X, t>>
      BY DEF Cells
    <3>2. \A k \in DOMAIN grammar : k \in fits(c) <=> (c \in DOMAIN table /\ table[c] = k)
      BY <1>3, <1>6, <3>1 DEF TableIsMap, NoTable
    <3>3. c \in DOMAIN table => table[c] \in DOMAIN grammar
      BY <1>6 DEF TableIsMap, NoTable
    <3>4. fits(c) \subseteq DOMAIN grammar
      BY <1>3
    <3> QED BY <3>2, <3>3, <3>4
  <2> QED BY <1>4, <1>6, <2>1 DEF NoTable
<1> QED BY <1>5, <1>6 DEF Ended, NoTable

(* Expanding by the table is the only choice there is, on every grammar    *)
(* whose productions derive the empty string directly or not at all.       *)
THEOREM TableIsPrediction == Spec => []TablePredicts
<1>1. ShapeInv /\ FirstIsLeast /\ FollowIsLeast /\ TableIsMap => TablePredicts
  BY TablePredictsHere
<1> QED BY <1>1, FirstIsLeastFamily, FollowIsLeastFamily, TableHoldsProductions, PassesInvariant, PTL

-----------------------------------------------------------------------------
(* What the parser asks of its sets and its table, for those made here.    *)
Expected == INSTANCE Prediction WITH First <- first, Follow <- follow, Table <- table

LEMMA SameGrammar ==
  /\ Expected!Terminals = Terminals /\ Expected!Actions = Actions
  /\ Expected!Productions = Productions /\ Expected!StartSymbol = StartSymbol
  /\ Expected!ProductionSet = ProductionSet /\ Expected!NonTerminals = NonTerminals
  /\ Expected!Tokens = Terminals \ {"EPSILON"}
  /\ \A p : Expected!Expansion(p) = Expansion(p)
<1>1. Expected!Terminals = Terminals
  BY DEF Expected!Terminals, Terminals
<1>2. Expected!Actions = Actions
  BY DEF Expected!Actions, Actions
<1>3. Expected!Productions = Productions
  BY DEF Expected!Productions, Productions
<1>4. Expected!StartSymbol = StartSymbol
  BY DEF Expected!StartSymbol, StartSymbol
<1>5. Expected!ProductionSet = ProductionSet
  BY <1>3 DEF Expected!ProductionSet, ProductionSet
<1>6. Expected!NonTerminals = NonTerminals
  BY <1>5 DEF Expected!NonTerminals, NonTerminals
<1>7. \A p : Expected!Expansion(p) = Expansion(p)
  BY DEF Expected!Expansion, Expansion
<1> QED BY <1>1, <1>2, <1>3, <1>4, <1>5, <1>6, <1>7 DEF Expected!Tokens

LEMMA HeadsOfProductions == Heads(Productions) = NonTerminals
BY DEF Heads, NonTerminals, ProductionSet

(* Every terminal of a FIRST set has come from a production.               *)
LEMMA FirstFromProduction ==
  ASSUME ShapeInv, FirstClosed(first), FirstLeast,
         NEW X \in Heads(grammar), NEW t \in first[X]
  PROVE  \E k \in DOMAIN grammar : grammar[k].lhs = X /\ t \in FirstTemp(first, grammar[k])
<1> DEFINE From(Y) == { k \in DOMAIN grammar : grammar[k].lhs = Y }
           G == [Y \in Heads(grammar) |-> UNION { FirstTemp(first, grammar[k]) : k \in From(Y) }]
<1>1. grammar \in Grammars /\ first \in Families(grammar)
  BY DEF ShapeInv
<1>2. \A k \in DOMAIN grammar :
        grammar[k].lhs \in Heads(grammar) /\ FirstTemp(first, grammar[k]) \subseteq Terminals
  BY <1>1, FirstTempGrows, BodyFacts DEF Within
<1>3. G \in Families(grammar)
  BY <1>2 DEF Families
<1>4. \A k \in DOMAIN grammar : FirstTemp(first, grammar[k]) \subseteq G[grammar[k].lhs]
  BY <1>2
<1>5. Within(grammar, G, first)
  BY DEF Within, FirstClosed
<1>6. G[X] = UNION { FirstTemp(first, grammar[k]) : k \in From(X) }
  OBVIOUS
<1> HIDE DEF G
<1>7. \A k \in DOMAIN grammar : FirstTemp(G, grammar[k]) \subseteq FirstTemp(first, grammar[k])
  BY <1>1, <1>3, <1>5, FirstTempGrows
<1>8. FirstClosed(G)
  BY <1>4, <1>7 DEF FirstClosed
<1>9. t \in G[X]
  BY <1>3, <1>8 DEF FirstLeast, Within
<1> QED BY <1>6, <1>9

(* A symbol that is no action begins what the passes say.                  *)
LEMMA StartingIsFirst ==
  ASSUME grammar = Productions, NEW x
  PROVE  /\ x \in Terminals \cup NonTerminals => Expected!Starting(x) = FirstOf(first, x)
         /\ x \in Actions => Expected!Starting(x) = {"EPSILON"}
<1>1. Actions \cap (Terminals \cup NonTerminals) = {}
  BY ProductionsAssumption
<1> QED BY <1>1, SameGrammar DEF Expected!Starting, FirstOf

(* The symbols of what is pushed for a production, but for the actions,    *)
(* are its body.                                                           *)
Pushed(p) == { k \in DOMAIN Expansion(p) : Expansion(p)[k] \notin Actions }

LEMMA PushedFacts ==
  ASSUME NEW p \in ProductionSet
  PROVE  /\ Len(Expansion(p)) \in Nat /\ DOMAIN Expansion(p) = 1 .. Len(Expansion(p))
         /\ Body(p) = <<"EPSILON">> => Pushed(p) = {}
         /\ Body(p) # <<"EPSILON">> =>
              /\ \A k \in Pushed(p) : /\ Rank(Expansion(p), k) \in DOMAIN Body(p)
                                      /\ Body(p)[Rank(Expansion(p), k)] = Expansion(p)[k]
              /\ \A j, k \in Pushed(p) : j < k => Rank(Expansion(p), j) < Rank(Expansion(p), k)
              /\ \A m \in DOMAIN Body(p) : \E k \in Pushed(p) : Rank(Expansion(p), k) = m
<1> HIDE DEF ProductionSet, Actions, Terminals, NonTerminals
<1> QED BY ProductionsAssumption DEF Pushed

LEMMA IsProduction ==
  ASSUME grammar = Productions, ShapeInv, NEW p \in ProductionSet
  PROVE  /\ \E k \in DOMAIN grammar : grammar[k] = p
         /\ p.lhs \in Heads(grammar)
         /\ Len(Body(p)) \in Nat /\ DOMAIN Body(p) = 1 .. Len(Body(p))
         /\ \A j \in DOMAIN Body(p) : Body(p)[j] \in Terminals \cup NonTerminals
         /\ Body(p) # <<"EPSILON">> => \A j \in DOMAIN Body(p) : Body(p)[j] # "EPSILON"
<1>1. PICK k \in DOMAIN grammar : grammar[k] = p
  BY DEF ProductionSet
<1>2. grammar \in Grammars /\ Heads(grammar) = NonTerminals
  BY HeadsOfProductions DEF ShapeInv
<1>3. Body(grammar[k]) = <<"EPSILON">> \/ \A j \in DOMAIN Body(grammar[k]) : Body(grammar[k])[j] # "EPSILON"
  BY <1>2, GrammarsAssumption
<1> QED BY <1>1, <1>2, <1>3, BodyFacts

(* What lies between two symbols pushed lies between them in the body.     *)
LEMMA BetweenPushed ==
  ASSUME grammar = Productions, ShapeInv, NEW p \in ProductionSet, Body(p) # <<"EPSILON">>,
         NEW k \in Pushed(p), NEW m \in k + 1 .. Len(Expansion(p)) + 1,
         Expected!MayVanish(Expansion(p), k + 1, m - 1),
         NEW r \in Nat, m \in Pushed(p) => r = Rank(Expansion(p), m),
         m \notin Pushed(p) => m = Len(Expansion(p)) + 1
  PROVE  Clear(Body(p), Rank(Expansion(p), k), IF m \in Pushed(p) THEN r ELSE Len(Body(p)) + 1)
<1> DEFINE e == Expansion(p)  b == Body(p)
<1>1. /\ Len(e) \in Nat /\ DOMAIN e = 1 .. Len(e) /\ Pushed(p) \subseteq 1 .. Len(e)
      /\ \A j \in Pushed(p) : Rank(e, j) \in DOMAIN b /\ b[Rank(e, j)] = e[j]
      /\ \A j, l \in Pushed(p) : j < l => Rank(e, j) < Rank(e, l)
      /\ \A l \in DOMAIN b : \E j \in Pushed(p) : Rank(e, j) = l
  BY PushedFacts DEF Pushed
<1>2. /\ Len(b) \in Nat /\ DOMAIN b = 1 .. Len(b)
      /\ \A j \in DOMAIN b : b[j] \in Terminals \cup NonTerminals
  BY IsProduction
<1>3. \A j \in k + 1 .. m - 1 : "EPSILON" \in Expected!Starting(e[j])
  BY DEF Expected!MayVanish
<1> DEFINE last == IF m \in Pushed(p) THEN r ELSE Len(b) + 1
<1>4. last - 1 <= Len(b) /\ last \in Nat /\ Rank(e, k) \in Nat
  BY <1>1, <1>2
<1>5. m \in Pushed(p) => last = Rank(e, m)
  OBVIOUS
<1> HIDE DEF e, b, last
<1>6. ASSUME NEW l \in Rank(e, k) + 1 .. last - 1 PROVE "EPSILON" \in FirstOf(first, b[l])
  <2>1. l \in DOMAIN b /\ Rank(e, k) < l /\ l < last /\ l \in Nat
    BY <1>2, <1>4
  <2>2. PICK q \in Pushed(p) : Rank(e, q) = l
    BY <1>1, <2>1
  <2>3. q \in Nat /\ k \in Nat /\ q <= Len(e)
    BY <1>1
  <2>4. k < q
    <3>1. ~ (q < k) /\ q # k
      BY SMTT(30), <1>1, <2>1, <2>2, <1>4
    <3> QED BY <2>3, <3>1
  <2>5. q < m
    <3>1. CASE m \in Pushed(p)
      <4>0. Rank(e, q) < Rank(e, m) /\ Rank(e, q) \in Nat /\ Rank(e, m) \in Nat
        BY <1>4, <1>5, <2>1, <2>2, <3>1
      <4>1. ~ (m < q) /\ q # m
        BY SMTT(30), <1>1, <2>2, <3>1, <4>0
      <4>2. m \in Nat
        BY <1>1, <3>1
      <4> QED BY <2>3, <4>1, <4>2
    <3>2. CASE m \notin Pushed(p)
      BY <1>1, <2>3, <3>2 DEF e
    <3> QED BY <3>1, <3>2
  <2>6. q \in k + 1 .. m - 1
    BY <2>3, <2>4, <2>5, <1>1 DEF e
  <2>7. "EPSILON" \in Expected!Starting(e[q]) /\ e[q] = b[l] /\ b[l] \in Terminals \cup NonTerminals
    BY <1>1, <1>2, <1>3, <2>1, <2>2, <2>6
  <2> QED BY <2>7, StartingIsFirst
<1> QED BY <1>6 DEF Clear, e, b, last

LEMMA ContinuesInBody ==
  ASSUME grammar = Productions, ShapeInv, NEW p \in ProductionSet, Body(p) # <<"EPSILON">>,
         NEW k \in Pushed(p)
  PROVE  /\ \A t \in Expected!ContinuesFrom(Expansion(p), k + 1) :
              t # "EPSILON" => t \in After(Body(p), Rank(Expansion(p), k))
         /\ Expected!MayVanish(Expansion(p), k + 1, Len(Expansion(p))) =>
              Clear(Body(p), Rank(Expansion(p), k), Len(Body(p)) + 1)
<1> DEFINE e == Expansion(p)  b == Body(p)
<1>1. /\ Len(e) \in Nat /\ DOMAIN e = 1 .. Len(e) /\ Pushed(p) \subseteq 1 .. Len(e)
      /\ \A j \in Pushed(p) : Rank(e, j) \in DOMAIN b /\ b[Rank(e, j)] = e[j]
      /\ \A j, l \in Pushed(p) : j < l => Rank(e, j) < Rank(e, l)
  BY PushedFacts DEF Pushed
<1>2. /\ Len(b) \in Nat /\ DOMAIN b = 1 .. Len(b)
      /\ \A j \in DOMAIN b : b[j] \in Terminals \cup NonTerminals
  BY IsProduction
<1>3. ASSUME NEW t \in Expected!ContinuesFrom(e, k + 1), t # "EPSILON" PROVE t \in After(b, Rank(e, k))
  <2>1. PICK m \in k + 1 .. Len(e) : Expected!MayVanish(e, k + 1, m - 1) /\ t \in Expected!Starting(e[m])
    BY <1>3 DEF Expected!ContinuesFrom
  <2>2. e[m] \notin Actions
    BY <1>3, <2>1, StartingIsFirst
  <2>3. m \in Pushed(p) /\ k < m /\ m \in k + 1 .. Len(e) + 1 /\ m # Len(e) + 1
    BY <1>1, <2>1, <2>2 DEF Pushed
  <2>4. Rank(e, m) \in DOMAIN b /\ b[Rank(e, m)] = e[m] /\ Rank(e, k) < Rank(e, m) /\ Rank(e, m) \in Nat
        /\ Rank(e, k) \in Nat
    BY <1>1, <1>2, <2>3
  <2>5. Clear(b, Rank(e, k), Rank(e, m))
    BY <2>1, <2>3, <2>4, BetweenPushed
  <2>6. t \in FirstOf(first, b[Rank(e, m)])
    BY <1>2, <2>1, <2>4, StartingIsFirst
  <2>7. Rank(e, m) \in Rank(e, k) + 1 .. Len(b)
    BY <1>2, <2>4
  <2> QED BY <2>5, <2>6, <2>7 DEF After
<1>4. ASSUME Expected!MayVanish(e, k + 1, Len(e)) PROVE Clear(b, Rank(e, k), Len(b) + 1)
  <2> DEFINE m == Len(e) + 1
  <2>1. m \in k + 1 .. Len(e) + 1 /\ m \notin Pushed(p) /\ m - 1 = Len(e) /\ 0 \in Nat
    BY <1>1
  <2>2. Expected!MayVanish(e, k + 1, m - 1)
    BY <1>4, <2>1
  <2> HIDE DEF m
  <2> QED BY <2>1, <2>2, BetweenPushed DEF m
<1> QED BY <1>3, <1>4

LEMMA FollowServes ==
  ASSUME ShapeInv, grammar = Productions, FollowClosed(follow),
         NEW p \in ProductionSet, NEW k \in DOMAIN Expansion(p)
  PROVE  /\ Expansion(p)[k] # "EPSILON"
         /\ Expansion(p)[k] \in NonTerminals =>
              /\ Expected!ContinuesFrom(Expansion(p), k + 1) \ {"EPSILON"} \subseteq follow[Expansion(p)[k]]
              /\ Expected!MayVanish(Expansion(p), k + 1, Len(Expansion(p))) =>
                   follow[p.lhs] \subseteq follow[Expansion(p)[k]]
<1> DEFINE e == Expansion(p)  b == Body(p)
<1>1. k \notin Pushed(p) => e[k] \in Actions
  BY DEF Pushed
<1>2. Actions \cap (Terminals \cup NonTerminals) = {} /\ "EPSILON" \in Terminals
  BY ProductionsAssumption DEF Terminals
<1>3. CASE k \notin Pushed(p)
  BY <1>1, <1>2, <1>3
<1>4. CASE k \in Pushed(p)
  <2>1. b # <<"EPSILON">> /\ Rank(e, k) \in DOMAIN b /\ b[Rank(e, k)] = e[k]
    BY <1>4, PushedFacts
  <2>2. e[k] # "EPSILON"
    BY <2>1, IsProduction
  <2>3. ASSUME e[k] \in NonTerminals
        PROVE  /\ Expected!ContinuesFrom(e, k + 1) \ {"EPSILON"} \subseteq follow[e[k]]
               /\ Expected!MayVanish(e, k + 1, Len(e)) => follow[p.lhs] \subseteq follow[e[k]]
    <3>1. PICK n \in DOMAIN grammar : grammar[n] = p
      BY IsProduction
    <3>2. e[k] \in Heads(grammar)
      BY <2>3, HeadsOfProductions
    <3>3. FollowTemp(follow, p, e[k]) \subseteq follow[e[k]]
      BY <3>1, <3>2 DEF FollowClosed
    <3>4. Trailer(follow, p, Rank(e, k)) \subseteq FollowTemp(follow, p, e[k])
      BY <2>1 DEF FollowTemp
    <3>5. After(b, Rank(e, k)) \ {"EPSILON"} \subseteq follow[e[k]]
      BY <3>3, <3>4 DEF Trailer
    <3>6. Clear(b, Rank(e, k), Len(b) + 1) => follow[p.lhs] \subseteq follow[e[k]]
      BY <3>3, <3>4 DEF Trailer
    <3> QED BY <1>4, <2>1, <3>5, <3>6, ContinuesInBody
  <2> QED BY <2>2, <2>3
<1> QED BY <1>3, <1>4

(* A right-hand side all of whose symbols may vanish is empty.             *)
LEMMA VanishingIsNull ==
  ASSUME ShapeInv, grammar = Productions, first = ExactFirst(grammar), NEW n \in DOMAIN grammar,
         Vanishes(first, Body(grammar[n]))
  PROVE  IsNull(grammar[n])
<1> DEFINE b == Body(grammar[n])
<1>1. grammar \in Grammars
  BY DEF ShapeInv
<1>2. /\ Len(b) \in Nat /\ DOMAIN b = 1 .. Len(b)
      /\ \A j \in 1 .. Len(b) : b[j] \in Terminals \cup Heads(grammar)
  BY <1>1, BodyFacts
<1>3. \A j \in 1 .. Len(b) : "EPSILON" \in FirstOf(first, b[j])
  BY <1>2 DEF Vanishes, Reached
<1>4. DerivesEmpty(FirstSets(grammar), b)
  BY <1>1, <1>2, <1>3, ExactFirstOf DEF DerivesEmpty
<1>5. HiddenEmpty(grammar) = {}
  BY ProductionsAssumption
<1> QED BY <1>4, <1>5 DEF HiddenEmpty, IsNull

LEMMA CellsServe ==
  ASSUME ShapeInv, FirstIsLeast, FollowIsLeast, TableIsMap, phase = "done", grammar = Productions,
         NEW X \in NonTerminals, NEW t \in Terminals \ {"EPSILON"},
         t \in first[X] \/ ("EPSILON" \in first[X] /\ t \in follow[X])
  PROVE  <<X, t>> \in DOMAIN table
<1>1. X \in Heads(grammar) /\ first = ExactFirst(grammar) /\ FirstClosed(first) /\ FirstLeast
  BY HeadsOfProductions, FirstExact DEF FirstIsLeast
<1>2. ASSUME NEW n \in DOMAIN grammar, grammar[n].lhs = X, t \in Columns(grammar[n])
      PROVE  <<X, t>> \in DOMAIN table
  BY <1>1, <1>2 DEF TableIsMap
<1>3. CASE t \in first[X]
  <2>1. PICK n \in DOMAIN grammar : grammar[n].lhs = X /\ t \in FirstTemp(first, grammar[n])
    BY <1>1, <1>3, FirstFromProduction
  <2>2. t \in Starts(first, Body(grammar[n]))
    BY <2>1 DEF FirstTemp
  <2>3. ~ IsNull(grammar[n])
    <3>1. Starts(first, <<"EPSILON">>) = {}
      BY DEF Starts, Reached, FirstOf, Terminals
    <3> QED BY <2>2, <3>1 DEF IsNull
  <2> QED BY <1>2, <2>1, <2>2, <2>3 DEF Columns, FirstOfRhs
<1>4. CASE "EPSILON" \in first[X] /\ t \in follow[X]
  <2>1. PICK n \in DOMAIN grammar : grammar[n].lhs = X /\ "EPSILON" \in FirstTemp(first, grammar[n])
    BY <1>1, <1>4, FirstFromProduction
  <2>2. Vanishes(first, Body(grammar[n]))
    BY <2>1 DEF FirstTemp, Starts
  <2>3. IsNull(grammar[n])
    BY <1>1, <2>2, VanishingIsNull
  <2> QED BY <1>2, <1>4, <2>1, <2>3 DEF Columns
<1> QED BY <1>3, <1>4

(* On the productions of ERPLAG the passes leave sets and a table as the   *)
(* parser needs them.                                                      *)
TableServesParser ==
  phase = "done" /\ grammar = Productions => Expected!TableFits(Productions) /\ Expected!Predictive(ProductionSet)

LEMMA TableServes ==
  ShapeInv /\ FirstIsLeast /\ FollowIsLeast /\ TableIsMap => TableServesParser
<1> SUFFICES ASSUME ShapeInv, FirstIsLeast, FollowIsLeast, TableIsMap,
                    phase = "done", grammar = Productions
             PROVE  Expected!TableFits(Productions) /\ Expected!Predictive(ProductionSet)
  BY DEF TableServesParser
<1>1. /\ Heads(grammar) = NonTerminals /\ FollowClosed(follow) /\ "DOLLAR" \in follow[StartSymbol]
      /\ first \in [NonTerminals -> SUBSET Terminals] /\ follow \in [NonTerminals -> SUBSET Terminals]
  BY HeadsOfProductions DEF ShapeInv, Families, FollowIsLeast
<1>2. ASSUME NEW c \in DOMAIN table
      PROVE  table[c] \in DOMAIN Productions /\ Productions[table[c]].lhs = c[1]
  <2>1. PICK X \in Heads(grammar), t \in Terminals : c = <<X, t>>
    BY <1>2 DEF TableIsMap
  <2>2. table[c] \in DOMAIN grammar /\ grammar[table[c]].lhs = X
    BY <1>2, <2>1 DEF TableIsMap
  <2> QED BY <2>1, <2>2
<1>3. Expected!TableFits(Productions)
  BY <1>1, <1>2, SameGrammar DEF Expected!TableFits
<1>4. ASSUME NEW p \in ProductionSet, NEW k \in DOMAIN Expansion(p)
      PROVE  /\ Expansion(p)[k] # "EPSILON"
             /\ Expansion(p)[k] \in NonTerminals =>
                  /\ Expected!ContinuesFrom(Expansion(p), k + 1) \ {"EPSILON"}
                       \subseteq follow[Expansion(p)[k]]
                  /\ Expected!MayVanish(Expansion(p), k + 1, Len(Expansion(p))) =>
                       follow[p.lhs] \subseteq follow[Expansion(p)[k]]
  BY <1>1, <1>4, FollowServes
<1>5. ASSUME NEW X \in NonTerminals, NEW t \in Terminals \ {"EPSILON"},
             t \in first[X] \/ ("EPSILON" \in first[X] /\ t \in follow[X])
      PROVE  <<X, t>> \in DOMAIN table
  BY <1>5, CellsServe
<1>6. Expected!Predictive(ProductionSet)
  BY <1>1, <1>4, <1>5, SameGrammar DEF Expected!Predictive
<1> QED BY <1>3, <1>6

(* What the parser assumes of its table is what first.c, follow.c and      *)
(* parse_table.c make of the productions file: every cell that a correct   *)
(* program can ask for is filled, and with a production of its row.        *)
THEOREM TableIsForTheParser == Spec => []TableServesParser
<1>1. ShapeInv /\ FirstIsLeast /\ FollowIsLeast /\ TableIsMap => TableServesParser
  BY TableServes
<1> QED BY <1>1, FirstIsLeastFamily, FollowIsLeastFamily, TableHoldsProductions, PassesInvariant, PTL
=============================================================================
