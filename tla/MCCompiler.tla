------------------------------ MODULE MCCompiler ------------------------------
(***************************************************************************)
(* The compiler on families of small programs, compared with a reading of  *)
(* the language that owes nothing to symbol tables or to code: what every  *)
(* name means is found by going through the text with an environment, what *)
(* is legal is said over the whole program, and what a program prints is   *)
(* found by executing its text.                                            *)
(***************************************************************************)
EXTENDS Compiler

(* Programs are written as trees [node, kids] and numbered in the order of *)
(* the source.                                                             *)
Tree(node, kids) == [node |-> node, kids |-> kids]
Num(v)        == Tree([tag |-> "INT", value |-> v], << >>)
Bool(v)       == Tree([tag |-> "BOOL", value |-> v], << >>)
RealLiteral   == Tree([tag |-> "REAL"], << >>)
Id(x)         == Tree([tag |-> "ID", name |-> x], << >>)
Bin(l, op, r) == Tree([tag |-> "BINARY", op |-> op], <<l, r>>)
Un(op, e)     == Tree([tag |-> "UNARY", op |-> op], <<e>>)
Elem(a, i)    == Tree([tag |-> "ARRAY", name |-> a], <<i>>)
Let(l, r)     == Tree([tag |-> "ASSIGN"], <<l, r>>)
Get(x)        == Tree([tag |-> "GET_VALUE", name |-> x], << >>)
Show(e)      == Tree([tag |-> "PRINT"], <<e>>)
Names(xs, type) == [i \in DOMAIN xs |-> [name |-> xs[i], type |-> type]]
Decl(xs, type)  == Tree([tag |-> "DECLARE", vars |-> Names(xs, type)], << >>)
For(k, low, high, body) == Tree([tag |-> "FOR", name |-> k, low |-> low, high |-> high], body)
While(p, body) == Tree([tag |-> "WHILE"], <<p>> \o body)
Case(type, v, body) == Tree([tag |-> "CASE", type |-> type, value |-> v], body)
Default(body) == Case(Undefined, 0, body)
Switch(x, cases, default) == Tree([tag |-> "SWITCH", name |-> x, default |-> default # << >>], cases \o default)
Use(results, f, args) == Tree([tag |-> "USE", name |-> f, results |-> results], args)
Module(f, inputs, returns, body) ==
  Tree([tag |-> "MODULE", name |-> f, inputs |-> inputs, returns |-> returns], body)

RECURSIVE Flat(_, _), FlatAll(_, _)
Flat(t, n) == LET below == FlatAll(t.kids, n + 1) IN
  <<t.node @@ [kids |-> below.roots]>> \o below.nodes
FlatAll(ts, n) ==
  IF ts = << >> THEN [nodes |-> << >>, roots |-> << >>]
  ELSE LET first == Flat(Head(ts), n)
           rest  == FlatAll(Tail(ts), n + Len(first)) IN
       [nodes |-> first \o rest.nodes, roots |-> <<n>> \o rest.roots]

Source(known, before, body, after, request) ==
  LET all == FlatAll(before \o <<Module("DRIVER", << >>, << >>, body)>> \o after, 1)
      k   == Len(before) + 1 IN
  [nodes |-> all.nodes, lines |-> [n \in DOMAIN all.nodes |-> n], declared |-> known, driver |-> all.roots[k],
   modules |-> [i \in 1 .. Len(all.roots) - 1 |-> all.roots[IF i < k THEN i ELSE i + 1]],
   request |-> request]
Checked(body) == Source(<< >>, << >>, body, << >>, "errors")
Compiled(modules, body) == Source(<< >>, modules, body, << >>, "code")

(* All pairs of two sequences, as a sequence.                              *)
Pairs(a, b) == [i \in 1 .. Len(a) * Len(b) |->
                  <<a[((i - 1) \div Len(b)) + 1], b[((i - 1) % Len(b)) + 1]>>]

-----------------------------------------------------------------------------
(* Scopes: a variable, a construct around two statements, a statement      *)
(* behind it.                                                              *)
x == Id("x")
y == Id("y")
k == Id("k")
Inside == <<Decl(<<"x">>, Boolean), Decl(<<"y">>, Integer), Let(x, Num(1)), Let(y, x), Get("x"),
            Let(k, Num(1)), Get("k"), Let(x, k), Show(y), Use(<<"k">>, "f", <<x>>)>>
Behind == <<Let(y, Num(1)), Decl(<<"y", "x">>, Integer), Let(x, k)>>
Around(body) ==
  <<For("k", 1, 2, body),
    For("x", 1, 2, body),
    While(Bin(Num(1), "LT", Num(2)), body),
    Switch("x", <<Case(Integer, 1, body)>>, <<Default(<<Let(x, Num(1))>>)>>)>>

ScopeProgram(p) ==
  Checked(<<Decl(<<"x">>, Integer), Around(p[1])[p[2][1]], Behind[p[2][2]]>>)
ScopePrograms ==
  LET ps == Pairs(Pairs(Inside, Inside), Pairs(<<1, 2, 3, 4>>, <<1, 2, 3>>)) IN
  [i \in DOMAIN ps |-> ScopeProgram(ps[i])]

(* Types: an assignment between all sorts of names and expressions.        *)
Lefts == <<x, Id("b"), Id("r"), Id("a"), Id("s"), Id("u"), Elem("a", Num(1)), Elem("a", Num(3)),
           Elem("u", Num(1)), Elem("a", x)>>
Atoms == <<x, Id("b"), Id("r"), Id("u"), Num(7), Bool(1), Elem("a", Num(0)), Elem("a", Num(2))>>
Operators == <<"PLUS", "DIV", "LT", "AND">>
Operations == LET ps == Pairs(Operators, Pairs(Atoms, Atoms)) IN
  [i \in DOMAIN ps |-> Bin(ps[i][2][1], ps[i][1], ps[i][2][2])]
Rights == Atoms \o <<RealLiteral, Id("a"), Id("s"), Id("c"), Un("MINUS", x), Un("PLUS", Id("r")),
                     Bin(Bin(x, "LE", Num(2)), "OR", Id("b")), Bin(Bin(x, "MUL", Id("b")), "EQ", x)>>
TypeProgram(l, r) ==
  Checked(<<Decl(<<"x">>, Integer), Decl(<<"b">>, Boolean), Decl(<<"r">>, Real),
            Decl(<<"a">>, ArrayOf("INTEGER", 1, 2)), Decl(<<"s">>, ArrayOf("INTEGER", 0, 1)),
            Decl(<<"c">>, ArrayOf("BOOLEAN", 0, 1)), Let(l, r)>>)
TypePrograms ==
  LET ps == Pairs(Lefts, Rights) \o Pairs(SubSeq(Lefts, 1, 3), Operations) IN
  [i \in DOMAIN ps |-> TypeProgram(ps[i][1], ps[i][2])]

(* Switches: the identifier, the types of two cases, a default or none.    *)
SwitchProgram(p) ==
  Checked(<<Decl(<<"x">>, Integer), Decl(<<"b">>, Boolean), Decl(<<"r">>, Real),
            Switch(p[1][1], <<Case(p[2][1], 1, << >>), Case(p[2][2], 0, <<Let(x, Id("b"))>>)>>, << >>),
            Switch(p[1][1], <<Case(p[2][1], 1, << >>)>>, IF p[1][2] THEN <<Default(<< >>)>> ELSE << >>)>>)
SwitchPrograms ==
  LET ps == Pairs(Pairs(<<"x", "b", "r", "u">>, <<TRUE, FALSE>>),
                  Pairs(<<Integer, Boolean>>, <<Integer, Boolean>>)) IN
  [i \in DOMAIN ps |-> SwitchProgram(ps[i])]
OneSwitchPrograms ==
  LET ps == Pairs(Pairs(<<"x", "b", "u">>, <<TRUE, FALSE>>), <<Integer, Boolean>>) IN
  [i \in DOMAIN ps |->
     Checked(<<Decl(<<"x">>, Integer), Decl(<<"b">>, Boolean),
               Switch(ps[i][1][1], <<Case(ps[i][2], 1, <<Let(x, Num(1))>>)>>,
                      IF ps[i][1][2] THEN <<Default(<< >>)>> ELSE << >>)>>)]

(* Calls: what is declared, where the module stands, its body, the lists.  *)
Bodies == <<<<Let(Id("q"), Id("p"))>>, <<Get("p")>>, <<Get("q"), Use(<<"q">>, "f", <<Id("p")>>)>>>>
Callees == [i \in DOMAIN Bodies |->
              Module("f", Names(<<"p">>, Integer), Names(<<"q">>, Integer), Bodies[i])]
Given == <<<<x>>, <<Num(1)>>, <<Bool(1)>>, <<Id("u")>>, <<Id("b")>>, <<x, x>>, << >>>>
Taken == <<<<"x">>, <<"b">>, <<"u">>, << >>>>
CallProgram(p) ==
  LET call == <<Decl(<<"x">>, Integer), Decl(<<"b">>, Boolean), Use(p[2][2], "f", p[2][1])>>
      f    == <<Callees[p[1][2][2]]>>
      at   == p[1][2][1] IN
  Source(p[1][1], IF at \in {1, 3} THEN f ELSE << >>, call, IF at \in {2, 3} THEN f ELSE << >>, "errors")
CallPrograms ==
  LET ps == Pairs(Pairs(<<<< >>, <<"f">>>>, Pairs(<<0, 1, 2, 3>>, <<1, 2, 3>>)), Pairs(Given, Taken)) IN
  [i \in DOMAIN ps |-> CallProgram(ps[i])]

(* Arrays given to a module: static of one extent or another, or dynamic;  *)
(* a name declared twice in a list.                                        *)
Ints(low, high) == ArrayOf("INTEGER", low, high)
ArrayCalls ==
  Pairs(<<Ints(1, 2), Ints(3, 4), ArrayOf("BOOLEAN", 1, 2), Integer>>,
        <<Ints(1, 2), Ints(1, 3), ArrayOf("BOOLEAN", 1, 2), Integer>>)
  \o Pairs(<<DynamicArrayOf("INTEGER")>>, <<Ints(1, 2), Ints(0, 5), DynamicArrayOf("INTEGER"), Real>>)
ArrayCallProgram(formal, actual, inputs, names) ==
  Source(<< >>, <<Module("f", Names(inputs, formal), << >>, <<Decl(<<"a">>, Real)>>)>>,
         <<Decl(names, actual), Use(<< >>, "f", <<Id("a")>>)>>, << >>, "errors")
ArrayCallPrograms ==
  [i \in DOMAIN ArrayCalls |-> ArrayCallProgram(ArrayCalls[i][1], ArrayCalls[i][2], <<"a">>, <<"a">>)]
  \o <<ArrayCallProgram(Ints(1, 2), Ints(1, 2), <<"a">>, <<"a", "c", "a">>),
       ArrayCallProgram(Ints(1, 2), Ints(1, 2), <<"a", "a">>, <<"a">>)>>

-----------------------------------------------------------------------------
(* Programs that are compiled and run.                                     *)
Plus(l, r) == Bin(l, "PLUS", r)
Minus(l, r) == Bin(l, "MINUS", r)
Add(v, e) == Let(Id(v), Plus(Id(v), e))

(* Constructs in constructs, with a statement inside and one behind that   *)
(* shows whether rsp and the registers still serve the module.             *)
Compute1 == <<Add("y", Num(1)),
              Let(y, Bin(Plus(y, x), "MUL", Num(2))),
              Show(y),
              Use(<<"y">>, "f", <<y, Num(2)>>)>>
Loops(body) ==
  <<<<For("k", 1, 2, body)>>,
    <<Let(Id("n"), Num(0)), While(Bin(Id("n"), "LT", Num(2)), body \o <<Add("n", Num(1))>>)>>,
    <<Switch("x", <<Case(Integer, 1, body)>>, <<Default(<<Decl(<<"z">>, Integer), Let(Id("z"), y), Show(Id("z"))>>)>>)>>,
    <<Switch("c", <<Case(Boolean, 1, body)>>, << >>)>>>>
Square == Module("f", Names(<<"p", "m">>, Integer), Names(<<"q">>, Integer),
            <<Let(Id("q"), Num(0)), For("i", 1, 2, <<Add("q", Id("p"))>>), Let(Id("m"), Num(0)),
              While(Bin(Id("m"), "LE", Num(1)), <<Decl(<<"s">>, Integer), Let(Id("s"), Id("q")),
                                                  Add("m", Num(1)), Let(Id("q"), Id("s"))>>)>>)
Nested(p) ==
  LET inner == Loops(<<Compute1[p[2]]>>)[p[1][2]] IN
  Compiled(<<Square>>,
    <<Decl(<<"x", "y", "n">>, Integer), Decl(<<"c">>, Boolean), Let(x, Num(1)), Let(y, Num(3)),
      Let(Id("c"), Bin(x, "LT", y))>> \o Loops(inner)[p[1][1]] \o <<Add("y", Num(1)), Show(y)>>)
(* A loop in a while loop takes its rcx, and is left out.                  *)
Nests == SelectSeq(Pairs(<<1, 2, 3, 4>>, <<1, 2, 3, 4>>), LAMBDA p : p # <<2, 2>>)
NestedPrograms == LET ps == Pairs(Nests, <<1, 2, 3, 4>>) IN [i \in DOMAIN ps |-> Nested(ps[i])]

(* Values: what is read decides what is computed, compared and branched.   *)
Relations == <<"LT", "LE", "GT", "GE", "EQ">>
RelationPrograms ==
  LET ps == Pairs(Relations, <<"AND", "OR">>) IN
  [i \in DOMAIN ps |->
     Compiled(<< >>,
       <<Decl(<<"x", "y">>, Integer), Decl(<<"c", "d">>, Boolean), Get("x"), Let(y, Minus(Num(2), x)),
         Let(Id("c"), Bin(x, ps[i][1], Num(1))), Let(Id("d"), Bin(Id("c"), ps[i][2], Bin(y, "GT", Num(1)))),
         Show(y), Show(Id("c")),
         Switch("d", <<Case(Boolean, 1, <<Show(Bool(1))>>), Case(Boolean, 0, <<Show(Num(5))>>)>>, << >>)>>)]

ArrayPrograms == <<
  Compiled(<< >>, <<Decl(<<"a">>, Ints(1, 3)), Decl(<<"x", "y">>, Integer), Get("a"), Get("x"),
                    Let(y, Elem("a", x)), Let(Elem("a", Num(3)), Plus(Elem("a", Num(1)), y)),
                    Let(Elem("a", x), Num(9)), Show(Id("a")), Show(y)>>),
  Compiled(<< >>, <<Decl(<<"x">>, Integer), Decl(<<"a">>, Ints(0, 2)), Decl(<<"s">>, Integer),
                    For("k", 0, 2, <<Let(Elem("a", k), Bin(k, "MUL", Un("MINUS", k)))>>),
                    Let(Id("s"), Num(0)),
                    For("k", 0, 2, <<Decl(<<"y">>, Integer), Let(y, Elem("a", k)), Add("s", y)>>),
                    Show(Id("a")), Show(Id("s"))>>) >>

SwitchRunPrograms == <<
  Compiled(<< >>, <<Decl(<<"x", "y">>, Integer), Get("x"), Let(y, Un("PLUS", x)),
                    Switch("x", <<Case(Integer, 0, <<Decl(<<"y">>, Integer), Let(y, Num(7)), Add("y", x), Show(y)>>),
                                  Case(Integer, 1, <<Add("y", Num(4))>>)>>,
                           <<Default(<<Let(y, Un("MINUS", y))>>)>>),
                    Show(y)>>),
  Compiled(<<Module("f", Names(<<"b">>, Boolean), Names(<<"q">>, Boolean),
               <<Let(Id("q"), Bin(Id("b"), "AND", Bin(Num(1), "EQ", Num(1))))>>),
             Module("label9", Names(<<"p">>, Integer), << >>, <<Show(Id("p"))>>)>>,
           <<Decl(<<"x", "y">>, Integer), Decl(<<"b">>, Boolean), Get("b"), Use(<<"b">>, "f", <<Id("b")>>),
             Let(x, Num(3)), Switch("b", <<Case(Boolean, 0, <<Use(<< >>, "label9", <<x>>)>>)>>, << >>),
             Show(Id("b"))>>) >>
(* The name of the module is the first label that is not made.             *)
MCNumberSpelt == "label9" :> 9

(* Reals and an inequality get code that computes nothing.                 *)
RealPrograms == <<
  Compiled(<< >>, <<Decl(<<"r">>, Real), Decl(<<"x">>, Integer), Decl(<<"b">>, Boolean), Get("x"),
                    Let(Id("r"), Bin(x, "DIV", Num(2))), Let(Id("r"), Bin(Id("r"), "MUL", Un("MINUS", Id("r")))),
                    Let(Id("b"), Bin(x, "NE", Num(1))), Show(x)>>) >>

(* A counter that is assigned to: the compiler must not let it pass.       *)
CounterPrograms == <<
  Compiled(<< >>, <<Decl(<<"j">>, Integer), Let(Id("j"), Num(0)),
                    For("k", 0, 1, <<Let(k, Id("j"))>>)>>) >>

ProgramList == ScopePrograms \o TypePrograms \o SwitchPrograms \o OneSwitchPrograms \o CallPrograms
               \o ArrayCallPrograms \o NestedPrograms \o RelationPrograms \o ArrayPrograms
               \o SwitchRunPrograms \o RealPrograms \o CounterPrograms
MCPrograms == ProgramList

(* A module with two returns (c10.txt).                                    *)
TwoReturns == <<
  Compiled(<<Module("f", Names(<<"p">>, Integer), Names(<<"u", "v">>, Integer),
               <<Let(Id("u"), Plus(Id("p"), Num(1))), Let(Id("v"), Minus(Id("p"), Num(1)))>>)>>,
           <<Decl(<<"x", "y">>, Integer), Use(<<"x", "y">>, "f", <<Num(4)>>), Show(x), Show(y)>>) >>

(* The compiler and the tests of the repository judge four things in this  *)
(* program differently.  The tests find fault with the while, which        *)
(* assigns none of its conditional variables (t5.txt, t6.txt), and with    *)
(* the call of h, which is defined behind it, if on its line (t7.txt).     *)
(* They accept the call of f, whose declaration another call needed        *)
(* (t7.txt), and the variable named like what its module returns (t3.txt). *)
FourRules ==
  LET p == Source(<<"f">>,
             <<Module("g", << >>, << >>, <<Use(<< >>, "f", << >>)>>),
               Module("f", << >>, << >>, << >>),
               Module("m", << >>, Names(<<"q">>, Integer), <<Let(Id("q"), Num(1)), Decl(<<"q">>, Integer)>>)>>,
             <<Decl(<<"x">>, Integer), Let(x, Num(1)), While(Bin(x, "LT", Num(2)), <<Show(x)>>),
               Use(<< >>, "f", << >>), Use(<< >>, "h", << >>)>>,
             <<Module("h", << >>, << >>, << >>)>>, "errors")
      last == Len(p.nodes)
  IN  << [p EXCEPT !.lines[last] = last - 1] >>
MCInputs == {0, 1, 2}

-----------------------------------------------------------------------------
(* What the names mean.  A use is a node that has a name, with the         *)
(* declaration it stands for: the node that declares it, 0 for none.       *)
NoNames == << >>
NamesIn(list) == {list[i].name : i \in DOMAIN list}
FirstType(list, v) == LET i == CHOOSE i \in DOMAIN list :
                                 list[i].name = v /\ \A j \in 1 .. i - 1 : list[j].name # v
                      IN list[i].type
(* A scope keeps the first of two declarations; an inner one hides.  The   *)
(* inputs of a module, what it returns and its variables are three scopes. *)
With(env, list, n, scope) ==
  [v \in DOMAIN env \cup NamesIn(list) |->
     IF v \in DOMAIN env /\ (v \notin NamesIn(list) \/ env[v].scope = scope) THEN env[v]
     ELSE [decl |-> n, type |-> FirstType(list, v), scope |-> scope]]

UseOf(n, v, env, kind) ==
  {[at |-> n, name |-> v, kind |-> kind, decl |-> IF v \in DOMAIN env THEN env[v].decl ELSE 0,
    type |-> IF v \in DOMAIN env THEN env[v].type ELSE Undefined]}

RECURSIVE UsesIn(_, _), UsesOfList(_, _, _)
UsesOfAll(ns, env) == UNION {UsesIn(ns[i], env) : i \in DOMAIN ns}
ArgumentUses(ns, env) == UNION {UseOf(m, Node(m).name, env, "argument") :
                                  m \in {ns[i] : i \in {i \in DOMAIN ns : Node(ns[i]).tag = "ID"}}}
UsesOfList(ns, env, scope) ==
  IF ns = << >> THEN {}
  ELSE IF Node(Head(ns)).tag = "DECLARE"
       THEN UsesOfList(Tail(ns), With(env, Node(Head(ns)).vars, Head(ns), scope), scope)
       ELSE UsesIn(Head(ns), env) \cup UsesOfList(Tail(ns), env, scope)
UsesIn(n, env) ==
  LET node == Node(n) kids == node.kids IN
  CASE node.tag = "ID"        -> UseOf(n, node.name, env, "name")
    [] node.tag \in {"ARRAY", "SWITCH"} -> UseOf(n, node.name, env, "name") \cup UsesOfAll(kids, env)
    [] node.tag = "GET_VALUE" -> UseOf(n, node.name, env, "target")
    [] node.tag = "ASSIGN" /\ Node(kids[1]).tag = "ID" ->
         UseOf(kids[1], Node(kids[1]).name, env, "target") \cup UsesIn(kids[2], env)
    [] node.tag = "CASE"      -> UsesOfList(kids, env, n)
    [] node.tag = "WHILE"     -> UsesIn(kids[1], env) \cup UsesOfList(Tail(kids), env, n)
    [] node.tag = "FOR"       -> UsesOfList(kids, With(env, Names(<<node.name>>, Integer), n, n), n)
    [] node.tag = "USE"       -> ArgumentUses(kids, env) \cup
                                 UNION {UseOf(n, node.results[i], env, "result") : i \in DOMAIN node.results}
    [] OTHER                  -> UsesOfAll(kids, env)

ModuleNodes == {prog.modules[i] : i \in DOMAIN prog.modules} \cup {prog.driver}
Uses == UNION {LET node == Node(n) IN
                 UsesOfList(node.kids, With(With(NoNames, node.inputs, n, 0), node.returns, n, -1), n)
               : n \in ModuleNodes}

ScopesMade == phase = "scopes" /\ todo = << >>

(* A name is given the type and the place of its innermost declaration     *)
(* before it in the text, whatever tables its scopes got and however many  *)
(* declarations of the name other scopes hold.                             *)
PlacesOf(n, v) == {table[t].entry[v].offset : t \in
                     {t \in 3 .. Len(table) : v \in DOMAIN table[t].entry /\ table[t].entry[v].node = n}}
InnermostBinding ==
  ScopesMade => \A u \in Uses : u.kind \in {"name", "target"} =>
    /\ note[u.at].type = u.type
    /\ u.decl # 0 => PlacesOf(u.decl, u.name) = {note[u.at].offset}

(* A variable counts as assigned if and only if some statement assigns to  *)
(* it, reads into it, or takes a result into it, and not to another        *)
(* variable of its name.                                                   *)
AssignedExactly ==
  ScopesMade => LET targets == {<<u.decl, u.name>> : u \in {u \in Uses : u.kind \in {"target", "result"}}} IN
    \A t \in 3 .. Len(table) : \A v \in DOMAIN table[t].entry :
      table[t].entry[v].assigned <=> <<table[t].entry[v].node, v>> \in targets

-----------------------------------------------------------------------------
(* What is legal: what the tests of the compiler say of their programs.    *)
Bad == [form |-> "BAD"]
NumberForms == {"INTEGER", "REAL"}
Comparing == {"LT", "LE", "GT", "GE", "EQ", "NE"}

UseAt(uses, n) == CHOOSE u \in uses : u.at = n
RECURSIVE TypeIs(_, _)
TypeIs(n, uses) ==
  LET node == Node(n)
      kid(i) == TypeIs(node.kids[i], uses) IN
  CASE node.tag = "INT"   -> Integer
    [] node.tag = "BOOL"  -> Boolean
    [] node.tag = "REAL"  -> Real
    [] node.tag = "ID"    -> UseAt(uses, n).type
    [] node.tag = "ARRAY" -> IF UseAt(uses, n).type.form = "ARRAY" THEN Scalar(UseAt(uses, n).type.elem) ELSE Bad
    [] node.tag = "UNARY" -> kid(1)
    [] node.op \in {"AND", "OR"} -> IF kid(1) = Boolean /\ kid(2) = Boolean THEN Boolean ELSE Bad
    [] node.op = "DIV"    -> IF {kid(1).form, kid(2).form} \subseteq NumberForms THEN Real ELSE Bad
    [] kid(1) = kid(2) /\ kid(1).form \in NumberForms -> IF node.op \in Comparing THEN Boolean ELSE kid(1)
    [] OTHER -> Bad

(* An array fits another of the same elements and the same extent; one     *)
(* whose bounds are variables may turn out to fit.                         *)
Fits(a, b) ==
  IF a.form = "ARRAY" /\ b.form = "ARRAY"
  THEN a.elem = b.elem /\ (a.static /\ b.static => Extent(a.low, a.high) = Extent(b.low, b.high))
  ELSE a = b

AllDistinct(list) == \A i, j \in DOMAIN list : i # j => list[i].name # list[j].name
DeclaredBy(ns) == FlattenSeq([i \in DOMAIN ns |-> IF Node(ns[i]).tag = "DECLARE" THEN Node(ns[i]).vars ELSE << >>])
ScopeLegal(n) ==
  LET node == Node(n) IN
  CASE node.tag = "MODULE" -> /\ AllDistinct(node.inputs) /\ AllDistinct(node.returns)
                              /\ AllDistinct(DeclaredBy(node.kids))
    [] node.tag = "FOR"    -> AllDistinct(Names(<<node.name>>, Integer) \o DeclaredBy(node.kids))
    [] node.tag \in {"WHILE", "CASE"} -> AllDistinct(DeclaredBy(node.kids))
    [] OTHER -> TRUE

SwitchLegal(n, uses) ==
  LET form == UseAt(uses, n).type.form IN
  /\ form \in {"INTEGER", "BOOLEAN"}
  /\ Node(n).default <=> form = "INTEGER"
  /\ \A i \in DOMAIN CasesOf(Node(n)) : Node(Node(n).kids[i]).type.form = form

(* A module is known where it stands above the call, or is declared at the *)
(* top and stands below.  A declaration that no call above the module      *)
(* needs is redundant, and a fault in the calls below.                     *)
IsCallOf(c, f) == Node(c).tag = "USE" /\ Node(c).name = f
KnownAt(n, m, f) ==
  IF f \in {prog.declared[i] : i \in DOMAIN prog.declared}
  THEN \E c \in AllNodes : IsCallOf(c, f) /\ c < m
  ELSE m < n
CallerOf(n) == CHOOSE c \in ModuleNodes : c <= n /\ \A d \in ModuleNodes : d <= n => d <= c
CallLegal(n, uses) ==
  \E m \in ModuleNodes :
    /\ Node(m).name = Node(n).name /\ m # CallerOf(n)
    /\ KnownAt(n, m, Node(n).name)
    /\ Len(Node(n).kids) = Len(Node(m).inputs) /\ Len(Node(n).results) = Len(Node(m).returns)
    /\ \A i \in DOMAIN Node(n).kids : Fits(TypeIs(Node(n).kids[i], uses), Node(m).inputs[i].type)
    /\ \A i \in DOMAIN Node(n).results : \E u \in uses :
         u.at = n /\ u.name = Node(n).results[i] /\ Fits(u.type, Node(m).returns[i].type)

(* Of the variables in the predicate of a while, if there are any, one is  *)
(* assigned to in its body.                                                *)
RECURSIVE Below(_)
Below(n) == {n} \cup UNION {Below(m) : m \in KidsOf(Node(n))}
WhileLegal(n, uses) ==
  LET conditional == {u \in uses : u.at \in Below(Predicate(Node(n)))}
      body        == UNION {Below(m) : m \in KidsOf(Node(n)) \ {Predicate(Node(n))}} IN
  conditional # {} => \E u \in conditional, v \in uses :
    v.at \in body /\ v.kind \in {"target", "result"} /\ v.decl = u.decl /\ v.name = u.name

NodeLegal(n, uses) ==
  CASE Node(n).tag = "ASSIGN" -> TypeIs(Node(n).kids[2], uses) # Bad
                                 /\ Fits(TypeIs(Node(n).kids[1], uses), TypeIs(Node(n).kids[2], uses))
    [] Node(n).tag = "ARRAY"  -> ~OutOfBounds(UseAt(uses, n).type, Node(n).kids[1])
    [] Node(n).tag = "SWITCH" -> SwitchLegal(n, uses)
    [] Node(n).tag = "USE"    -> CallLegal(n, uses)
    [] Node(n).tag = "WHILE"  -> WhileLegal(n, uses)
    [] OTHER -> TRUE

Faults(uses) == {n \in AllNodes : ~(ScopeLegal(n) /\ NodeLegal(n, uses))}
Legal ==
  LET uses == Uses
      set(n, v) == \E u \in uses : u.kind \in {"target", "result"} /\ u.decl = n /\ u.name = v IN
  /\ \A u \in uses : u.decl # 0
  /\ \A m, n \in ModuleNodes : Node(m).name = Node(n).name => m = n
  /\ Faults(uses) = {}
  /\ \A n \in AllNodes : Node(n).tag = "FOR" => ~set(n, Node(n).name)
  /\ \A n \in ModuleNodes : \A i \in DOMAIN Node(n).returns : set(n, Node(n).returns[i].name)

(* Two walks and their tables find a fault in every program that has one,  *)
(* before anything is generated.                                           *)
AcceptedIsLegal == (phase = "accepted" \/ (phase = "generate" /\ code = Prelude)) => Legal

(* They report none in a program that has none.                            *)
LegalIsAccepted == phase = "rejected" => ~Legal

(* In a program whose names and modules are in order, the reports are at   *)
(* the statements and declarations that the tests find fault with.         *)
FaultsAreReported == phase \in {"accepted", "rejected"} => {e.node : e \in errors} = Faults(Uses)

-----------------------------------------------------------------------------
(* What a program does.  The state of an execution is [store, in, out,     *)
(* halt]; a variable is the declaration it stands for and its name, an     *)
(* element has its index too.  What was never set is Garbage.              *)
Value(s, loc) == IF loc \in DOMAIN s.store THEN s.store[loc] ELSE Garbage
SetTo(s, loc, v) == [s EXCEPT !.store = Extended(@, loc, v)]
Shows(s, form, v) == [s EXCEPT !.out = Append(@, [form |-> form, value |-> v])]
LocOf(uses, n) == <<UseAt(uses, n).decl, UseAt(uses, n).name>>
ResultLoc(uses, n, v) == LET u == CHOOSE u \in uses : u.at = n /\ u.name = v IN <<u.decl, v>>
Bit(b) == IF b THEN 1 ELSE 0

Operation(op, a, b) ==
  CASE a = Garbage \/ b = Garbage -> Garbage
    [] op = "PLUS" -> a + b [] op = "MINUS" -> a - b [] op = "MUL" -> a * b
    [] op = "LT" -> Bit(a < b) [] op = "LE" -> Bit(a <= b) [] op = "GT" -> Bit(a > b)
    [] op = "GE" -> Bit(a >= b) [] op = "EQ" -> Bit(a = b)
    [] op = "AND" -> Bit(a = 1 /\ b = 1) [] op = "OR" -> Bit(a = 1 \/ b = 1)
    [] OTHER -> Garbage

RECURSIVE Eval(_, _, _), Traps(_, _, _)
Eval(n, s, uses) ==
  LET node == Node(n) IN
  CASE node.tag \in {"INT", "BOOL"} -> node.value
    [] node.tag = "ID"    -> Value(s, LocOf(uses, n))
    [] node.tag = "ARRAY" -> Value(s, Append(LocOf(uses, n), Eval(node.kids[1], s, uses)))
    [] node.tag = "UNARY" -> LET v == Eval(node.kids[1], s, uses) IN
                             IF node.op = "PLUS" \/ v = Garbage THEN v ELSE -v
    [] OTHER -> Operation(node.op, Eval(node.kids[1], s, uses), Eval(node.kids[2], s, uses))
(* An index out of its range ends the program.                             *)
Traps(n, s, uses) ==
  LET node == Node(n) IN
  \/ \E i \in DOMAIN node.kids : Traps(node.kids[i], s, uses)
  \/ /\ node.tag = "ARRAY"
     /\ Eval(node.kids[1], s, uses) \notin UseAt(uses, n).type.low .. UseAt(uses, n).type.high

Indices(type) == [i \in 1 .. Extent(type.low, type.high) |-> type.low + i - 1]
(* Anything but 0 is read as true.                                         *)
ReadInto(s, loc, form) ==
  LET v == Head(s.in) IN
  [SetTo(s, loc, IF form = "BOOLEAN" THEN Bit(v # 0) ELSE v) EXCEPT !.in = Tail(@)]
Reading(s, loc, type) ==
  IF type.form = "ARRAY" THEN FoldLeft(LAMBDA r, i : ReadInto(r, Append(loc, i), type.elem), s, Indices(type))
  ELSE ReadInto(s, loc, type.form)
Printing(s, n, uses) ==
  IF Node(n).tag = "ID" /\ UseAt(uses, n).type.form = "ARRAY"
  THEN FoldLeft(LAMBDA r, i : Shows(r, "INTEGER", Value(s, Append(LocOf(uses, n), i))), s,
                Indices(UseAt(uses, n).type))
  ELSE Shows(s, TypeIs(n, uses).form, Eval(n, s, uses))

ModuleNamed(f) == CHOOSE m \in ModuleNodes : Node(m).name = f
RECURSIVE Exec(_, _, _), ExecAll(_, _, _), Turns(_, _, _, _)
ExecAll(ns, s, uses) == IF ns = << >> THEN s ELSE ExecAll(Tail(ns), Exec(Head(ns), s, uses), uses)
Turns(n, i, s, uses) ==
  IF i > Node(n).high \/ s.halt THEN s
  ELSE Turns(n, i + 1, ExecAll(Node(n).kids, SetTo(s, <<n, Node(n).name>>, i), uses), uses)
Calls(n, s, uses) ==
  LET m == ModuleNamed(Node(n).name)
      args == Node(n).kids
      inputs == Node(m).inputs
      entered == FoldLeft(LAMBDA r, i : SetTo(r, <<m, inputs[i].name>>, Eval(args[i], s, uses)), s,
                          [i \in DOMAIN args |-> i])
      left == ExecAll(Node(m).kids, entered, uses) IN
  FoldLeft(LAMBDA r, i : SetTo(r, ResultLoc(uses, n, Node(n).results[i]),
                               Value(left, <<m, Node(m).returns[i].name>>)),
           left, [i \in DOMAIN Node(n).results |-> i])
Chosen(n, v) ==
  LET hit == {i \in DOMAIN CasesOf(Node(n)) : Node(Node(n).kids[i]).value = v} IN
  IF hit # {} THEN Node(Node(n).kids[CHOOSE i \in hit : TRUE]).kids
  ELSE IF Node(n).default THEN Node(Last(Node(n).kids)).kids ELSE << >>
Exec(n, s, uses) ==
  LET node == Node(n) kids == node.kids IN
  CASE s.halt -> s
    [] node.tag = "ASSIGN" ->
         IF Traps(n, s, uses) THEN [Shows(s, "BOUNDS", 0) EXCEPT !.halt = TRUE]
         ELSE SetTo(s, IF Node(kids[1]).tag = "ID" THEN LocOf(uses, kids[1])
                       ELSE Append(LocOf(uses, kids[1]), Eval(Node(kids[1]).kids[1], s, uses)),
                    Eval(kids[2], s, uses))
    [] node.tag = "GET_VALUE" -> Reading(s, LocOf(uses, n), UseAt(uses, n).type)
    [] node.tag = "PRINT"  -> Printing(s, kids[1], uses)
    [] node.tag = "FOR"    -> Turns(n, node.low, s, uses)
    [] node.tag = "WHILE"  -> IF Eval(kids[1], s, uses) = 1
                              THEN Exec(n, ExecAll(Tail(kids), s, uses), uses) ELSE s
    [] node.tag = "SWITCH" -> ExecAll(Chosen(n, Value(s, LocOf(uses, n))), s, uses)
    [] node.tag = "USE"    -> Calls(n, s, uses)
    [] OTHER -> s

Expected ==
  ExecAll(Node(prog.driver).kids, [store |-> << >>, in |-> given, out |-> << >>, halt |-> FALSE], Uses).out

Agrees(shown, expected) ==
  /\ Len(shown) = Len(expected)
  /\ \A i \in DOMAIN shown : /\ shown[i].form = expected[i].form
                             /\ expected[i].value \in {shown[i].value, Garbage}

(* The instructions print what the text of the program says, for whatever  *)
(* the user types: places, sizes, registers, labels and the two walks      *)
(* before have to agree.                                                   *)
OutputMatchesSource == phase = "done" => Agrees(out, Expected)

(* What a module returns is stored in the variables of the caller.         *)
ReturnsArrive == phase = "done" => Agrees(out, Expected)
=============================================================================
