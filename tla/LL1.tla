-------------------------------- MODULE LL1 --------------------------------
(***************************************************************************)
(* FIRST, FOLLOW and the predictions of a grammar, from their definitions  *)
(* by derivations: least sets and transitive closures, with none of the    *)
(* loops of first.c, follow.c and parse_table.c.  A grammar is a sequence  *)
(* of productions [lhs, rhs]; the semantic actions in a right-hand side    *)
(* derive nothing and are left out.                                        *)
(***************************************************************************)
EXTENDS Grammar, FiniteSets

Body(p)     == SelectSeq(p.rhs, LAMBDA s : s \notin Actions)
Bodies(g)   == { [lhs |-> g[i].lhs, body |-> Body(g[i])] : i \in DOMAIN g }
Heads(g)    == { g[i].lhs : i \in DOMAIN g }

(* Relations are sets of pairs; Image(rel, S) has what S is related to.    *)
Image(rel, S) == { p[2] : p \in { q \in rel : q[1] \in S } }

(* What S leads to in any number of steps, none included.                  *)
Reach(rel, S, steps) ==
  LET within[k \in 0 .. steps] ==
        IF k = 0 THEN S
        ELSE LET sofar == within[k - 1] IN sofar \cup Image(rel, sofar)
  IN  within[steps]

(* The symbols that derive the empty string.                               *)
Nullable(g) ==
  LET bodies == Bodies(g)
      within[k \in 0 .. Cardinality(Heads(g))] ==
        IF k = 0 THEN {"EPSILON"}
        ELSE LET sofar == within[k - 1]
             IN  sofar \cup { p.lhs : p \in { q \in bodies :
                                \A i \in DOMAIN q.body : q.body[i] \in sofar } }
  IN  within[Cardinality(Heads(g))]

(* The derivations, one production deep: Begins relates a nonterminal to   *)
(* the symbols its right-hand sides can begin with, Ends to the            *)
(* nonterminals whose right-hand sides can end with it, and Follows relates*)
(* a symbol to those that can come right after it in a right-hand side.    *)
Gap(null, b, i, j) == \A k \in i + 1 .. j - 1 : b[k] \in null

Begins(g, null) ==
  UNION { { <<p.lhs, p.body[i]>> : i \in { j \in DOMAIN p.body : Gap(null, p.body, 0, j) } } :
            p \in Bodies(g) }
Ends(g, null) ==
  UNION { { <<p.body[i], p.lhs>> : i \in { j \in DOMAIN p.body :
              p.body[j] \notin Terminals /\ Gap(null, p.body, j, Len(p.body) + 1) } } :
            p \in Bodies(g) }
Follows(g, null) ==
  UNION { { <<p.body[c[1]], p.body[c[2]]>> : c \in { d \in (DOMAIN p.body) \X (DOMAIN p.body) :
              d[1] < d[2] /\ p.body[d[1]] \notin Terminals /\ Gap(null, p.body, d[1], d[2]) } } :
            p \in Bodies(g) }

-----------------------------------------------------------------------------
(* FIRST and FOLLOW, as relations of a symbol to terminals.                *)
FirstSets(g) ==
  LET null   == Nullable(g)
      begins == Begins(g, null)
      of(X)  == (Reach(begins, {X}, Cardinality(Heads(g))) \cap Terminals) \ {"EPSILON"}
  IN  { <<t, t>> : t \in Terminals } \cup { <<X, "EPSILON">> : X \in null }
        \cup UNION { { <<X, t>> : t \in of(X) } : X \in Heads(g) }

FollowSets(g) ==
  LET null  == Nullable(g)
      first == FirstSets(g)
      ends  == Ends(g, null)
      next  == Follows(g, null)
      of(X) == LET above == Reach(ends, {X}, Cardinality(Heads(g)))
               IN  (Image(first, Image(next, above)) \ {"EPSILON"})
                     \cup IF StartSymbol \in above THEN {"DOLLAR"} ELSE {}
  IN  UNION { { <<X, t>> : t \in of(X) } : X \in Heads(g) }

(* What a string of symbols can begin with, and whether it can be empty;   *)
(* the terminals on which a production is the one to expand.               *)
DerivesEmpty(first, s) == \A i \in DOMAIN s : <<s[i], "EPSILON">> \in first
FirstOfString(first, s) ==
  LET reached == { j \in DOMAIN s : DerivesEmpty(first, SubSeq(s, 1, j - 1)) }
  IN  Image(first, { s[j] : j \in reached }) \ {"EPSILON"}

PredictSets(g) ==
  LET first  == FirstSets(g)
      follow == FollowSets(g)
      of(p)  == FirstOfString(first, Body(p))
                  \cup IF DerivesEmpty(first, Body(p)) THEN Image(follow, {p.lhs}) ELSE {}
  IN  UNION { { <<i, t>> : t \in of(g[i]) } : i \in DOMAIN g }

(* The productions that derive the empty string without being empty.       *)
HiddenEmpty(g) ==
  LET first == FirstSets(g)
  IN  { i \in DOMAIN g : Body(g[i]) # <<"EPSILON">> /\ DerivesEmpty(first, Body(g[i])) }

(* Where the k-th symbol of s is when the actions are left out.            *)
Rank(s, k) == Cardinality({ j \in 1 .. k : s[j] \notin Actions })

(* The productions of ERPLAG: what is pushed for one is its body, in its   *)
(* order, with actions between; only an empty one derives the empty string.*)
ASSUME ProductionsAssumption ==
  /\ Actions \cap (Terminals \cup NonTerminals) = {}
  /\ HiddenEmpty(Productions) = {}
  /\ \A p \in ProductionSet :
       /\ Len(Expansion(p)) \in Nat /\ DOMAIN Expansion(p) = 1 .. Len(Expansion(p))
       /\ LET e == Expansion(p)
              symbols == { k \in DOMAIN e : e[k] \notin Actions }
          IN  IF Body(p) = <<"EPSILON">> THEN symbols = {}
              ELSE /\ \A k \in symbols : Rank(e, k) \in DOMAIN Body(p) /\ Body(p)[Rank(e, k)] = e[k]
                   /\ \A j, k \in symbols : j < k => Rank(e, j) < Rank(e, k)
                   /\ \A m \in DOMAIN Body(p) : \E k \in symbols : Rank(e, k) = m
=============================================================================
