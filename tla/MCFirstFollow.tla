--------------------------- MODULE MCFirstFollow ---------------------------
(***************************************************************************)
(* The parse table of ERPLAG, and of every order of the productions of     *)
(* four smaller grammars over the same symbols: one with nullable          *)
(* nonterminals in a row and recursion on either side, one whose           *)
(* productions derive the empty string through nonterminals, one that is   *)
(* ambiguous on its FIRST sets and one on a FOLLOW set.                    *)
(***************************************************************************)
EXTENDS FirstFollow

Rule(lhs, rhs) == [lhs |-> lhs, rhs |-> rhs]

Chained == << Rule("Pro", <<"504", "Opt", "Sign", "505", "range", "END">>),
              Rule("Opt", <<"SQBO", "Opt">>), Rule("Opt", <<"EPSILON">>),
              Rule("Sign", <<"528", "PLUS">>), Rule("Sign", <<"EPSILON", "535">>),
              Rule("range", <<"Sign", "NUM", "Opt">>) >>
Hidden  == << Rule("Pro", <<"range", "504", "K">>), Rule("range", <<"Opt", "Sign">>),
              Rule("Opt", <<"SQBO">>), Rule("Opt", <<"EPSILON">>),
              Rule("Sign", <<"EPSILON">>), Rule("K", <<"range", "NUM">>) >>
TwoFirsts  == << Rule("Pro", <<"Opt", "K">>), Rule("Opt", <<"EPSILON">>),
                 Rule("K", <<"Opt", "NUM">>), Rule("K", <<"NUM", "ID">>) >>
FirstFollowClash == << Rule("Pro", <<"Opt", "Sign", "NUM">>), Rule("Opt", <<"PLUS", "Opt">>),
                       Rule("Opt", <<"EPSILON">>), Rule("Sign", <<"PLUS">>) >>

Orders(g) == { [k \in DOMAIN g |-> g[f[k]]] : f \in Permutations(DOMAIN g) }

MCGrammars == {Productions} \cup Orders(Chained) \cup Orders(Hidden)
                \cup Orders(TwoFirsts) \cup Orders(FirstFollowClash)
=============================================================================
