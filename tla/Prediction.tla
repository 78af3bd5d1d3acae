----------------------------- MODULE Prediction -----------------------------
(***************************************************************************)
(* What the parser of parse_tree.c takes for granted of the sets and the   *)
(* table it is given: where FIRST, FOLLOW and the table of the passes and  *)
(* the pushing of a right-hand side have to agree.                         *)
(***************************************************************************)
EXTENDS Grammar

CONSTANTS
  First, Follow,      \* the sets of each nonterminal
  Table               \* the production in each cell that has one

Tokens == Terminals \ {"EPSILON"}

(* What a sentence can go on with when the symbols of s from the k-th on   *)
(* are expected; an action is carried out and leaves nothing.              *)
Starting(x) ==
  IF x \in Actions THEN {"EPSILON"} ELSE IF x \in Terminals THEN {x} ELSE First[x]
MayVanish(s, k, m) == \A j \in k .. m : "EPSILON" \in Starting(s[j])
ContinuesFrom(s, k) ==
  UNION { Starting(s[m]) : m \in { m \in k .. Len(s) : MayVanish(s, k, m - 1) } }

(* The sets hold terminals, and a cell of the table has a production of g  *)
(* for the nonterminal of its row.                                         *)
TableFits(g) ==
  /\ First \in [NonTerminals -> SUBSET Terminals]
  /\ Follow \in [NonTerminals -> SUBSET Terminals]
  /\ \A cell \in DOMAIN Table :
       Table[cell] \in DOMAIN g /\ g[Table[cell]].lhs = cell[1]

(* No EPSILON is pushed, the FOLLOW sets are closed under what is pushed   *)
(* for the given productions, and the table has a cell wherever there is   *)
(* something to expand.                                                    *)
Predictive(given) ==
  /\ "DOLLAR" \in Follow[StartSymbol]
  /\ \A p \in given :
       \A k \in DOMAIN Expansion(p) :
         /\ Expansion(p)[k] # "EPSILON"
         /\ Expansion(p)[k] \in NonTerminals =>
              /\ ContinuesFrom(Expansion(p), k + 1) \ {"EPSILON"} \subseteq Follow[Expansion(p)[k]]
              /\ MayVanish(Expansion(p), k + 1, Len(Expansion(p))) =>
                   Follow[p.lhs] \subseteq Follow[Expansion(p)[k]]
  /\ \A X \in NonTerminals :
       \A t \in Tokens :
         t \in First[X] \/ ("EPSILON" \in First[X] /\ t \in Follow[X]) => <<X, t>> \in DOMAIN Table
=============================================================================
