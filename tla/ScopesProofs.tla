----------------------------- MODULE ScopesProofs -----------------------------
(***************************************************************************)
(* Proofs about Scopes, for every sequence of well-formed programs: the    *)
(* agenda stays what the recursion of construct_symbol_table_helper() can  *)
(* leave, and the storage of variables that see each other is disjoint.    *)
(***************************************************************************)
EXTENDS Scopes, SequenceTheorems, TLAPS

(* The parts of the inductive invariant.                                   *)
IsSeq(s) == s \in Seq({s[i] : i \in DOMAIN s})

Tasks == {"declarations", "walk", "input", "scope", "define", "return", "variable", "assigned"}
ItemSet == [do : Tasks, node : AllNodes \cup {0}, table : Nat, nth : Nat]
DeclaredSet == [table : Nat, from : Int, to : Int]

ProgramInv == WellFormed(prog)

IsTable(t, tables) ==
  /\ DOMAIN t = {"parent", "chain", "base", "offset", "size", "entry"}
  /\ t.parent \in 0 .. tables
  /\ t.base \in Int /\ t.offset \in Int /\ t.size \in Int
TablesInv ==
  /\ IsSeq(table) /\ Len(table) >= 2
  /\ \A t \in DOMAIN table : IsTable(table[t], Len(table))
  /\ table[GlobalTable].offset = 0

NotesInv == DOMAIN note = AllNodes /\ DOMAIN owned = AllNodes

(* A task is about a node of its kind.  Nothing is declared in the table   *)
(* of the modules: only they and their definitions are at work there.      *)
IsModuleWalk(item) == item.do = "walk" /\ Node(item.node).tag = "MODULE"
ItemInv(item, tables) ==
  /\ item.table \in 1 .. tables
  /\ item.do # "declarations" => item.node \in AllNodes
  /\ item.do \in {"input", "scope", "define", "return"} => Node(item.node).tag = "MODULE"
  /\ item.do = "input"    => item.nth \in DOMAIN Node(item.node).inputs
  /\ item.do = "return"   => item.nth \in DOMAIN Node(item.node).returns
  /\ item.do = "variable" => /\ Node(item.node).tag = "DECLARE"
                             /\ item.nth \in DOMAIN Node(item.node).vars
  /\ item.table = GlobalTable => item.do = "define" \/ IsModuleWalk(item)
  /\ IsModuleWalk(item) => item.table = GlobalTable
AgendaInv == todo \in Seq(ItemSet) /\ \A i \in DOMAIN todo : ItemInv(todo[i], Len(table))

(* The tables around a table were made before it.                          *)
ChainsInv ==
  \A t \in DOMAIN table :
    /\ t \in table[t].chain /\ table[t].chain \subseteq 1 .. t
    /\ \A u \in table[t].chain : table[u].chain \subseteq table[t].chain

(* What a caller has still to do, it does in a table around that of the    *)
(* call.  The names declared at the top come first, in a table of their    *)
(* own.                                                                    *)
NestedInv ==
  \A i, j \in DOMAIN todo : i < j /\ todo[i].do # "declarations" =>
    todo[j].table \in table[todo[i].table].chain

HistoryInv ==
  declared \in Seq(DeclaredSet) /\ \A i \in DOMAIN declared : declared[i].table \in DOMAIN table

(* Where work goes on, the offset is at least that of every table around,  *)
(* and what was given out lies below the offset of its table.              *)
RisingInv ==
  \A i \in DOMAIN todo : \A u \in table[todo[i].table].chain :
    table[u].offset <= table[todo[i].table].offset
UnderInv == \A i \in DOMAIN declared : declared[i].to <= table[declared[i].table].offset

StorageInv == BoundsOrdered => RisingInv /\ UnderInv /\ StorageDisjoint

IInv == ProgramInv /\ TablesInv /\ NotesInv /\ AgendaInv /\ ChainsInv /\ NestedInv
          /\ HistoryInv /\ StorageInv

-----------------------------------------------------------------------------
(* Sequences.                                                              *)
LEMMA SeqFacts ==
  ASSUME NEW s, IsSeq(s)
  PROVE  Len(s) \in Nat /\ DOMAIN s = 1 .. Len(s)
BY DEF IsSeq

LEMMA AppendFacts ==
  ASSUME NEW s, IsSeq(s), NEW e
  PROVE  /\ IsSeq(Append(s, e)) /\ Len(Append(s, e)) = Len(s) + 1
         /\ DOMAIN Append(s, e) = DOMAIN s \cup {Len(s) + 1}
         /\ \A i \in DOMAIN s : Append(s, e)[i] = s[i]
         /\ Append(s, e)[Len(s) + 1] = e
<1> DEFINE S == {s[i] : i \in DOMAIN s} \cup {e}
           a == Append(s, e)
<1>1. s \in Seq(S) /\ e \in S
  <2>1. s \in Seq({s[i] : i \in DOMAIN s})
    BY DEF IsSeq
  <2> QED
    BY <2>1, SeqMonotonic
<1>2. /\ a \in Seq(S) /\ Len(a) = Len(s) + 1 /\ Len(s) \in Nat
      /\ \A i \in 1 .. Len(s) : a[i] = s[i]
      /\ a[Len(s) + 1] = e /\ DOMAIN a = 1 .. Len(s) + 1 /\ DOMAIN s = 1 .. Len(s)
  BY <1>1
<1>3. IsSeq(a)
  <2>1. \A i \in 1 .. Len(a) : a[i] \in {a[j] : j \in DOMAIN a}
    BY <1>2
  <2>2. a \in [1 .. Len(a) -> S]
    BY <1>2, LenProperties
  <2>3. a \in [1 .. Len(a) -> {a[j] : j \in DOMAIN a}]
    BY <2>1, <2>2
  <2> QED
    BY <2>3, <1>2 DEF IsSeq
<1> QED
  BY <1>2, <1>3

LEMMA ConcatFacts ==
  ASSUME NEW S, NEW s \in Seq(S), NEW r \in Seq(S)
  PROVE  /\ s \o r \in Seq(S) /\ Len(s \o r) = Len(s) + Len(r)
         /\ \A k \in DOMAIN (s \o r) :
              \/ k \in DOMAIN s /\ (s \o r)[k] = s[k]
              \/ /\ k > Len(s) /\ k - Len(s) \in DOMAIN r
                 /\ (s \o r)[k] = r[k - Len(s)]
<1> DEFINE c == s \o r
<1>1. /\ c \in Seq(S) /\ Len(c) = Len(s) + Len(r)
      /\ \A k \in 1 .. Len(s) + Len(r) : c[k] = IF k <= Len(s) THEN s[k] ELSE r[k - Len(s)]
  BY ConcatProperties
<1>2. /\ Len(s) \in Nat /\ Len(r) \in Nat /\ DOMAIN s = 1 .. Len(s) /\ DOMAIN r = 1 .. Len(r)
      /\ DOMAIN c = 1 .. Len(s) + Len(r)
  BY <1>1, LenProperties
<1> HIDE DEF c
<1>3. ASSUME NEW k \in DOMAIN c
      PROVE  \/ k \in DOMAIN s /\ c[k] = s[k]
             \/ k > Len(s) /\ k - Len(s) \in DOMAIN r /\ c[k] = r[k - Len(s)]
  BY <1>1, <1>2
<1> QED
  BY <1>1, <1>3 DEF c

LEMMA ListFacts ==
  ASSUME NEW n \in Nat, NEW s, s = [i \in 1 .. n |-> s[i]]
  PROVE  IsSeq(s) /\ Len(s) = n
<1>1. s \in [1 .. n -> {s[i] : i \in DOMAIN s}]
  OBVIOUS
<1> QED
  BY <1>1 DEF IsSeq

(* The items of a call.                                                    *)
LEMMA WalksFacts ==
  ASSUME ProgramInv, NEW nodes \in Seq(AllNodes), NEW t \in Nat
  PROVE  /\ Walks(nodes, t) \in Seq(ItemSet) /\ Len(Walks(nodes, t)) = Len(nodes)
         /\ \A k \in 1 .. Len(nodes) : Walks(nodes, t)[k] = Item("walk", nodes[k], t, 0)
<1>1. Len(nodes) \in Nat /\ DOMAIN nodes = 1 .. Len(nodes) /\ \A k \in 1 .. Len(nodes) : nodes[k] \in AllNodes
  OBVIOUS
<1>2. Walks(nodes, t) = [k \in 1 .. Len(nodes) |-> Item("walk", nodes[k], t, 0)]
  BY <1>1 DEF Walks
<1>3. \A k \in 1 .. Len(nodes) : Item("walk", nodes[k], t, 0) \in ItemSet
  BY <1>1 DEF Item, ItemSet, Tasks
<1>4. Walks(nodes, t) \in [1 .. Len(nodes) -> ItemSet]
  BY <1>2, <1>3
<1> QED
  BY <1>1, <1>2, <1>4

LEMMA EachFacts ==
  ASSUME NEW do \in Tasks, NEW n \in AllNodes, NEW t \in Nat, NEW list, IsList(list)
  PROVE  /\ Each(do, n, t, list) \in Seq(ItemSet) /\ Len(Each(do, n, t, list)) = Len(list)
         /\ Len(list) \in Nat
         /\ \A k \in 1 .. Len(list) : k \in DOMAIN list /\ Each(do, n, t, list)[k] = Item(do, n, t, k)
<1>1. Len(list) \in Nat /\ DOMAIN list = 1 .. Len(list)
  BY DEF IsList
<1>2. Each(do, n, t, list) = [k \in 1 .. Len(list) |-> Item(do, n, t, k)]
  BY <1>1 DEF Each
<1>3. \A k \in 1 .. Len(list) : Item(do, n, t, k) \in ItemSet
  BY DEF Item, ItemSet
<1>4. Each(do, n, t, list) \in [1 .. Len(list) -> ItemSet]
  BY <1>2, <1>3
<1> QED
  BY <1>1, <1>2, <1>4

(* The nodes under a node.                                                 *)
LEMMA KidsFacts ==
  ASSUME ProgramInv, NEW n \in AllNodes
  PROVE  /\ Node(n).kids \in Seq(AllNodes)
         /\ \A i \in DOMAIN Node(n).kids : Node(Node(n).kids[i]).tag # "MODULE"
BY DEF ProgramInv, WellFormed, NodeWellFormed, Node, AllNodes

(* Operators, assignments and print statements have the kids they need.    *)
LEMMA ArityFacts ==
  ASSUME ProgramInv, NEW n \in AllNodes
  PROVE  /\ Node(n).tag \in {"ASSIGN", "BINARY"} => Len(Node(n).kids) = 2
         /\ Node(n).tag \in {"UNARY", "ARRAY", "PRINT"} => Len(Node(n).kids) = 1
         /\ Node(n).tag \notin Branching =>
              \A i \in DOMAIN Node(n).kids : Node(Node(n).kids[i]).tag \in Expressions
<1>1. Node(n).tag \in DOMAIN Arity => Len(Node(n).kids) = Arity[Node(n).tag]
  BY DEF ProgramInv, WellFormed, NodeWellFormed, Node, AllNodes
<1>2. \A tag \in {"ASSIGN", "BINARY"} : tag \in DOMAIN Arity /\ Arity[tag] = 2
  BY DEF Arity
<1>3. \A tag \in {"UNARY", "ARRAY", "PRINT"} : tag \in DOMAIN Arity /\ Arity[tag] = 1
  BY DEF Arity
<1>4. Node(n).tag \notin Branching =>
        \A i \in DOMAIN Node(n).kids : Node(Node(n).kids[i]).tag \in Expressions
  BY DEF ProgramInv, WellFormed, NodeWellFormed, Node, AllNodes, AreExpressions
<1> QED
  BY <1>1, <1>2, <1>3, <1>4

LEMMA BodyFacts ==
  ASSUME ProgramInv, NEW n \in AllNodes
  PROVE  /\ Body(Node(n)) \in Seq(AllNodes)
         /\ \A i \in DOMAIN Body(Node(n)) : Node(Body(Node(n))[i]).tag # "MODULE"
<1>1. CASE Node(n).tag = "WHILE"
  <2>1. Node(n).kids # << >>
    BY <1>1 DEF ProgramInv, WellFormed, NodeWellFormed, Node, AllNodes
  <2>2. /\ Tail(Node(n).kids) \in Seq(AllNodes)
        /\ \A i \in 1 .. Len(Tail(Node(n).kids)) : Tail(Node(n).kids)[i] = Node(n).kids[i + 1]
        /\ Len(Tail(Node(n).kids)) = Len(Node(n).kids) - 1
    BY <2>1, KidsFacts, HeadTailProperties
  <2> DEFINE b == Tail(Node(n).kids)
  <2>3. \A i \in DOMAIN b : i + 1 \in DOMAIN Node(n).kids /\ b[i] = Node(n).kids[i + 1]
    BY <2>2, KidsFacts
  <2> QED
    BY <1>1, <2>2, <2>3, KidsFacts DEF Body
<1>2. CASE Node(n).tag # "WHILE"
  BY <1>2, KidsFacts DEF Body
<1> QED
  BY <1>1, <1>2

-----------------------------------------------------------------------------
(* The agenda after a call: its items, and what the callers had left.      *)
LEMMA AgendaCall ==
  ASSUME todo \in Seq(ItemSet), todo # << >>, NEW items \in Seq(ItemSet), Call(items)
  PROVE  /\ todo' \in Seq(ItemSet)
         /\ Work = todo[1] /\ 1 \in DOMAIN todo
         /\ \A i \in DOMAIN todo' :
              \/ i \in DOMAIN items /\ todo'[i] = items[i]
              \/ /\ i > Len(items) /\ i - Len(items) + 1 \in DOMAIN todo
                 /\ todo'[i] = todo[i - Len(items) + 1]
<1>1. /\ Tail(todo) \in Seq(ItemSet) /\ Len(Tail(todo)) = Len(todo) - 1
      /\ \A i \in 1 .. Len(Tail(todo)) : Tail(todo)[i] = todo[i + 1]
  BY HeadTailProperties
<1>2. /\ todo' \in Seq(ItemSet)
      /\ Len(todo') = Len(items) + Len(Tail(todo))
      /\ \A i \in 1 .. Len(items) + Len(Tail(todo)) :
           todo'[i] = IF i <= Len(items) THEN items[i] ELSE Tail(todo)[i - Len(items)]
  BY <1>1, ConcatProperties DEF Call
<1>3. Len(todo) \in Nat \ {0} /\ DOMAIN todo = 1 .. Len(todo) /\ Len(items) \in Nat
      /\ DOMAIN items = 1 .. Len(items) /\ DOMAIN todo' = 1 .. Len(todo')
  BY <1>2, EmptySeq, LenProperties
<1>4. Work = todo[1]
  BY DEF Work
<1>5. ASSUME NEW i \in DOMAIN todo'
      PROVE  \/ i \in DOMAIN items /\ todo'[i] = items[i]
             \/ /\ i > Len(items) /\ i - Len(items) + 1 \in DOMAIN todo
                /\ todo'[i] = todo[i - Len(items) + 1]
  <2>1. CASE i <= Len(items)
    BY <2>1, <1>2, <1>3, <1>1
  <2>2. CASE i > Len(items)
    <3>1. i - Len(items) \in 1 .. Len(Tail(todo))
      BY <2>2, <1>1, <1>2, <1>3
    <3>2. i \in 1 .. Len(items) + Len(Tail(todo)) /\ ~(i <= Len(items))
      BY <2>2, <1>2, <1>3
    <3>3. todo'[i] = Tail(todo)[i - Len(items)]
      BY <3>2, <1>2
    <3>4. Tail(todo)[i - Len(items)] = todo[i - Len(items) + 1]
      BY <3>1, <1>1
    <3>5. i - Len(items) + 1 \in DOMAIN todo
      BY <3>1, <1>1, <1>3
    <3> QED
      BY <3>3, <3>4, <3>5, <2>2
  <2> QED
    BY <2>1, <2>2, <1>2, <1>3
<1> QED
  BY <1>2, <1>3, <1>4, <1>5

(* What every step of the walk keeps.                                      *)
Kept == prog' = prog /\ DOMAIN note' = AllNodes /\ DOMAIN owned' = AllNodes

(* The parent pointers of a table are not changed.                         *)
Around(t) == table'[t].chain = table[t].chain
LEMMA AgendaStep ==
  ASSUME AgendaInv, todo # << >>, prog' = prog, NEW last \in Nat, Len(table) \in Nat,
         Len(table) <= last, Len(table') = last,
         NEW items \in Seq(ItemSet), Call(items),
         \A k \in DOMAIN items : ItemInv(items[k], last)
  PROVE  AgendaInv'
<1>1. \A i \in DOMAIN todo : ItemInv(todo[i], last)
  BY DEF AgendaInv, ItemInv
<1>2. \A i \in DOMAIN todo' : ItemInv(todo'[i], last)
  BY <1>1, AgendaCall DEF AgendaInv
<1>3. todo' \in Seq(ItemSet')
  BY AgendaCall DEF AgendaInv, ItemSet, AllNodes
<1> QED
  BY <1>2, <1>3 DEF AgendaInv, ItemInv, IsModuleWalk, Node, AllNodes

LEMMA NestedStep ==
  ASSUME AgendaInv, NestedInv, todo # << >>, NEW items \in Seq(ItemSet), Call(items),
         Len(table) \in Nat, \A t \in 1 .. Len(table) : Around(t),
         items # << >> => Work.do # "declarations",
         \A k \in DOMAIN items : table[Work.table].chain \subseteq table'[items[k].table].chain,
         \A k, l \in DOMAIN items : k < l => items[l].table \in table'[items[k].table].chain
  PROVE  NestedInv'
<1> SUFFICES ASSUME NEW i \in DOMAIN todo', NEW j \in DOMAIN todo', i < j,
                    todo'[i].do # "declarations"
             PROVE  todo'[j].table \in table'[todo'[i].table].chain
  BY DEF NestedInv
<1>1. /\ Work = todo[1] /\ 1 \in DOMAIN todo
      /\ Len(items) \in Nat /\ DOMAIN items = 1 .. Len(items) /\ i \in Nat /\ j \in Nat
      /\ DOMAIN todo = 1 .. Len(todo) /\ Len(todo) \in Nat
  BY AgendaCall DEF AgendaInv
<1>2. \A n \in DOMAIN todo' :
         \/ n \in DOMAIN items /\ todo'[n] = items[n]
         \/ /\ n > Len(items) /\ n - Len(items) + 1 \in DOMAIN todo
            /\ todo'[n] = todo[n - Len(items) + 1]
  BY AgendaCall DEF AgendaInv
<1> DEFINE m == i - Len(items) + 1
           n == j - Len(items) + 1
<1>3. CASE i \in DOMAIN items /\ j \in DOMAIN items
  BY <1>1, <1>2, <1>3
<1>4. CASE i \in DOMAIN items /\ j > Len(items)
  <2>1. items # << >> /\ todo[1].do # "declarations"
    BY <1>1, <1>4
  <2>2. n \in DOMAIN todo /\ n > 1 /\ todo'[j] = todo[n]
    BY <1>1, <1>2, <1>4
  <2>3. todo[n].table \in table[todo[1].table].chain
    BY <1>1, <2>1, <2>2 DEF NestedInv
  <2>4. table[todo[1].table].chain \subseteq table'[items[i].table].chain /\ todo'[i] = items[i]
    BY <1>1, <1>2, <1>4
  <2> QED
    BY <2>2, <2>3, <2>4
<1>5. CASE i > Len(items)
  <2>1. /\ m \in DOMAIN todo /\ todo'[i] = todo[m] /\ n \in DOMAIN todo /\ todo'[j] = todo[n]
        /\ m < n
    BY <1>1, <1>2, <1>5
  <2>2. todo[n].table \in table[todo[m].table].chain
    BY <2>1 DEF NestedInv
  <2>3. todo[m].table \in 1 .. Len(table)
    BY <2>1 DEF AgendaInv, ItemInv
  <2> QED
    BY <2>1, <2>2, <2>3 DEF Around
<1> QED
  BY <1>1, <1>2, <1>3, <1>4, <1>5

LEMMA BoundsKept ==
  ASSUME prog' = prog
  PROVE  BoundsOrdered' <=> BoundsOrdered
BY DEF BoundsOrdered, AllNodes, Node

(* A step that leaves chains and offsets alone and works on in the same    *)
(* table.                                                                  *)
Still ==
  /\ IsSeq(table') /\ Len(table') = Len(table)
  /\ \A t \in 1 .. Len(table) : /\ IsTable(table'[t], Len(table)) /\ Around(t)
                                /\ table'[t].offset = table[t].offset
LEMMA QuietStep ==
  ASSUME IInv, todo # << >>, Kept, declared' = declared,
         Still,
         NEW items \in Seq(ItemSet), Call(items),
         items # << >> => Work.do # "declarations",
         \A k \in DOMAIN items : ItemInv(items[k], Len(table)) /\ items[k].table = Work.table
  PROVE  IInv'
<1>1. /\ Len(table) \in Nat /\ DOMAIN table = 1 .. Len(table) /\ DOMAIN table' = 1 .. Len(table)
      /\ Len(table) >= 2
  BY SeqFacts DEF IInv, TablesInv, Still
<1>2. /\ todo \in Seq(ItemSet) /\ Work = todo[1] /\ 1 \in DOMAIN todo
      /\ Work.table \in 1 .. Len(table)
  BY AgendaCall DEF IInv, AgendaInv, ItemInv
<1>3. ProgramInv' /\ NotesInv'
  BY DEF IInv, Kept, ProgramInv, NotesInv, AllNodes
<1>4. TablesInv'
  BY <1>1 DEF IInv, TablesInv, GlobalTable, Still
<1>5. AgendaInv'
  <2>1. AgendaInv /\ prog' = prog /\ Len(table) <= Len(table)
    BY <1>1 DEF IInv, Kept
  <2>2. \A k \in DOMAIN items : ItemInv(items[k], Len(table))
    OBVIOUS
  <2> QED
    BY <1>1, <2>1, <2>2, AgendaStep DEF Still
<1>6. ChainsInv'
  BY <1>1 DEF IInv, ChainsInv, Around, Still
<1>7. NestedInv'
  BY <1>1, <1>2, NestedStep DEF IInv, ChainsInv, Around, Still
<1>8. HistoryInv'
  BY <1>1 DEF IInv, HistoryInv, DeclaredSet
<1>9. StorageInv'
  <2> SUFFICES ASSUME BoundsOrdered PROVE (RisingInv /\ UnderInv /\ StorageDisjoint)'
    BY BoundsKept DEF StorageInv, Kept
  <2>1. RisingInv /\ UnderInv /\ StorageDisjoint
    BY DEF IInv, StorageInv
  <2>2. RisingInv'
    <3> SUFFICES ASSUME NEW i \in DOMAIN todo', NEW u \in table'[todo'[i].table].chain
                 PROVE  table'[u].offset <= table'[todo'[i].table].offset
      BY DEF RisingInv
    <3>1. \E j \in DOMAIN todo : todo'[i].table = todo[j].table
      BY <1>2, AgendaCall
    <3>2. PICK j \in DOMAIN todo : todo'[i].table = todo[j].table
      BY <3>1
    <3>3. todo[j].table \in 1 .. Len(table)
      BY DEF IInv, AgendaInv, ItemInv
    <3>4. u \in table[todo[j].table].chain /\ u \in 1 .. Len(table)
      BY <1>1, <3>2, <3>3 DEF Around, IInv, ChainsInv, Still
    <3> QED
      BY <2>1, <3>2, <3>3, <3>4 DEF RisingInv, Still
  <2>3. UnderInv'
    BY <1>1, <2>1 DEF UnderInv, IInv, HistoryInv, Still
  <2>4. StorageDisjoint'
    BY <1>1, <2>1, BoundsKept DEF StorageDisjoint, IInv, HistoryInv, Around, Kept, Still
  <2> QED
    BY <2>2, <2>3, <2>4
<1> QED
  BY <1>3, <1>4, <1>5, <1>6, <1>7, <1>8, <1>9 DEF IInv

(* A step that makes a table inside the one it works in, with room for a   *)
(* variable or without: only the last of its items may be about the table  *)
(* around.                                                                 *)
LEMMA OpenStep ==
  ASSUME IInv, todo # << >>, Kept, Work.do # "declarations",
         NEW inner, NEW size \in Nat,
         table' = Append(table, inner), IsTable(inner, Len(table) + 1),
         inner.chain = table[Work.table].chain \cup {Len(table) + 1},
         inner.offset = table[Work.table].offset + size,
         \/ declared' = declared
         \/ declared' = Append(declared, [table |-> Len(table) + 1, from |-> table[Work.table].offset,
                                          to |-> inner.offset]),
         NEW items \in Seq(ItemSet), Call(items),
         \A k \in DOMAIN items :
           /\ ItemInv(items[k], Len(table) + 1)
           /\ items[k].table = Len(table) + 1 \/ (k = Len(items) /\ items[k].table = Work.table)
  PROVE  IInv'
<1> DEFINE new == Len(table) + 1
<1>1. /\ Len(table) \in Nat /\ DOMAIN table = 1 .. Len(table) /\ Len(table) >= 2
      /\ DOMAIN table' = 1 .. new /\ Len(table') = new /\ IsSeq(table')
      /\ table'[new] = inner
      /\ \A t \in 1 .. Len(table) : table'[t] = table[t]
  <2>1. IsSeq(table) /\ Len(table) >= 2
    BY DEF IInv, TablesInv
  <2> QED
    BY <2>1, SeqFacts, AppendFacts
<1>2. /\ todo \in Seq(ItemSet) /\ Work = todo[1] /\ 1 \in DOMAIN todo
      /\ Work.table \in 1 .. Len(table)
  BY AgendaCall DEF IInv, AgendaInv, ItemInv
<1> DEFINE w == Work.table
<1>3. ProgramInv' /\ NotesInv'
  BY DEF IInv, Kept, ProgramInv, NotesInv, AllNodes
<1>4. TablesInv'
  <2>1. \A t \in 1 .. Len(table) : IsTable(table[t], new)
    <3>1. \A t \in 1 .. Len(table) : IsTable(table[t], Len(table))
      BY <1>1 DEF IInv, TablesInv
    <3>2. 0 .. Len(table) \subseteq 0 .. new
      BY <1>1
    <3> QED
      BY <3>1, <3>2 DEF IsTable
  <2>2. \A t \in 1 .. new : IsTable(table'[t], new)
    BY <1>1, <2>1
  <2>3. table'[GlobalTable].offset = 0
    BY <1>1 DEF IInv, TablesInv, GlobalTable
  <2> QED
    BY <1>1, <2>2, <2>3 DEF TablesInv
<1>5. AgendaInv'
  <2>1. AgendaInv /\ prog' = prog /\ Len(table) <= new /\ new \in Nat
    BY <1>1 DEF IInv, Kept
  <2>2. \A k \in DOMAIN items : ItemInv(items[k], new)
    OBVIOUS
  <2> QED
    BY <1>1, <2>1, <2>2, AgendaStep
<1>6. ChainsInv'
  <2>1. ChainsInv
    BY DEF IInv
  <2>2. ASSUME NEW t \in 1 .. Len(table)
        PROVE  /\ t \in table'[t].chain /\ table'[t].chain \subseteq 1 .. t
               /\ \A u \in table'[t].chain : table'[u].chain \subseteq table'[t].chain
    BY <1>1, <2>1 DEF ChainsInv
  <2>3. new \in inner.chain /\ inner.chain \subseteq 1 .. new
    BY <1>1, <1>2, <2>1 DEF ChainsInv
  <2>4. ASSUME NEW u \in inner.chain PROVE table'[u].chain \subseteq inner.chain
    <3>1. CASE u = new
      BY <1>1, <3>1
    <3>2. CASE u # new
      <4>1. u \in table[w].chain /\ u \in 1 .. Len(table)
        BY <1>1, <1>2, <2>1, <3>2 DEF ChainsInv
      <4> QED
        BY <1>1, <1>2, <2>1, <4>1 DEF ChainsInv
    <3> QED
      BY <3>1, <3>2
  <2> QED
    BY <1>1, <2>2, <2>3, <2>4 DEF ChainsInv
<1>7. NestedInv'
  <2>1. AgendaInv /\ NestedInv /\ \A t \in 1 .. Len(table) : Around(t)
    BY <1>1 DEF IInv, Around
  <2>2. w \in table[w].chain /\ table[w].chain \subseteq inner.chain /\ new \in inner.chain
    BY <1>1, <1>2 DEF IInv, ChainsInv
  <2>3. \A k \in DOMAIN items : table[w].chain \subseteq table'[items[k].table].chain
    BY <1>1, <1>2, <2>2
  <2>4. \A k, l \in DOMAIN items : k < l => items[l].table \in table'[items[k].table].chain
    <3> SUFFICES ASSUME NEW k \in DOMAIN items, NEW l \in DOMAIN items, k < l
                 PROVE  items[l].table \in table'[items[k].table].chain
      OBVIOUS
    <3>1. k # Len(items)
      OBVIOUS
    <3> QED
      BY <1>1, <2>2, <3>1
  <2> QED
    BY <1>1, <2>1, <2>3, <2>4, NestedStep
<1>8. HistoryInv'
  <2>1. HistoryInv
    BY DEF IInv
  <2>2. CASE declared' = declared
    BY SMTT(30), <1>1, <2>1, <2>2 DEF HistoryInv, DeclaredSet
  <2>3. ASSUME NEW give, give = [table |-> new, from |-> table[w].offset, to |-> inner.offset],
               declared' = Append(declared, give)
        PROVE  HistoryInv'
    <3>1. give \in DeclaredSet
      BY <1>1, <1>2, <2>3 DEF DeclaredSet, IInv, TablesInv, IsTable
    <3>2. declared' \in Seq(DeclaredSet)
      BY <2>1, <2>3, <3>1 DEF HistoryInv
    <3>3. \A i \in DOMAIN declared' : \/ i \in DOMAIN declared /\ declared'[i] = declared[i]
                                      \/ declared'[i] = give
      BY <2>1, <2>3, <3>1 DEF HistoryInv
    <3>4. \A i \in DOMAIN declared' : declared'[i].table \in 1 .. new
      BY <1>1, <2>1, <2>3, <3>3 DEF HistoryInv
    <3> QED
      BY <1>1, <3>2, <3>4 DEF HistoryInv, DeclaredSet
  <2> QED
    BY <2>2, <2>3
<1>9. StorageInv'
  <2> SUFFICES ASSUME BoundsOrdered PROVE (RisingInv /\ UnderInv /\ StorageDisjoint)'
    BY BoundsKept DEF StorageInv, Kept
  <2>1. /\ RisingInv /\ UnderInv /\ StorageDisjoint /\ ChainsInv /\ HistoryInv
        /\ \A t \in 1 .. Len(table) : table[t].offset \in Int
    BY <1>1 DEF IInv, StorageInv, TablesInv, IsTable
  <2>2. \A u \in table[w].chain : u \in 1 .. Len(table) /\ table[u].offset <= table[w].offset
    BY <1>1, <1>2, <2>1 DEF RisingInv, ChainsInv
  <2>3. RisingInv'
    <3> SUFFICES ASSUME NEW i \in DOMAIN todo', NEW u \in table'[todo'[i].table].chain
                 PROVE  table'[u].offset <= table'[todo'[i].table].offset
      BY DEF RisingInv
    <3>1. todo'[i].table = new \/ \E j \in DOMAIN todo : todo'[i].table = todo[j].table
      BY <1>2, AgendaCall
    <3>2. CASE todo'[i].table = new
      <4>1. u = new \/ u \in table[w].chain
        BY <1>1, <3>2
      <4>2. CASE u = new
        BY <1>1, <1>2, <2>1, <3>2, <4>2
      <4>3. CASE u \in table[w].chain
        <5>1. u \in 1 .. Len(table) /\ table[u].offset <= table[w].offset
          BY <2>2, <4>3
        <5>2. table'[u] = table[u] /\ table'[todo'[i].table] = inner
          BY <1>1, <3>2, <5>1
        <5> QED
          BY <1>2, <2>1, <5>1, <5>2
      <4> QED
        BY <4>1, <4>2, <4>3
    <3>3. CASE \E j \in DOMAIN todo : todo'[i].table = todo[j].table
      <4>1. PICK j \in DOMAIN todo : todo'[i].table = todo[j].table
        BY <3>3
      <4>2. todo[j].table \in 1 .. Len(table)
        BY DEF IInv, AgendaInv, ItemInv
      <4>3. u \in table[todo[j].table].chain /\ u \in 1 .. Len(table)
        BY <1>1, <2>1, <4>1, <4>2 DEF ChainsInv
      <4> QED
        BY <1>1, <2>1, <4>1, <4>2, <4>3 DEF RisingInv
    <3> QED
      BY <3>1, <3>2, <3>3
  <2>4. CASE declared' = declared
    <3>1. UnderInv'
      BY <1>1, <2>1, <2>4 DEF UnderInv, HistoryInv
    <3>2. StorageDisjoint'
      BY <1>1, <2>1, <2>4, BoundsKept DEF StorageDisjoint, HistoryInv, Kept
    <3> QED
      BY <2>3, <3>1, <3>2
  <2>5. ASSUME NEW give, give = [table |-> new, from |-> table[w].offset, to |-> inner.offset],
               declared' = Append(declared, give)
        PROVE  (UnderInv /\ StorageDisjoint)'
    <3>1. /\ DOMAIN declared = 1 .. Len(declared) /\ Len(declared) \in Nat
          /\ \A i \in DOMAIN declared : declared[i].table \in 1 .. Len(table) /\ declared[i].to \in Int
      <4>1. declared \in Seq(DeclaredSet)
        BY <2>1 DEF HistoryInv
      <4>2. \A i \in DOMAIN declared : declared[i] \in DeclaredSet
        BY <4>1
      <4> QED
        BY <1>1, <2>1, <4>1, <4>2 DEF HistoryInv, DeclaredSet
    <3>2. /\ DOMAIN declared' = 1 .. Len(declared) + 1
          /\ declared'[Len(declared) + 1] = give
          /\ \A i \in DOMAIN declared : declared'[i] = declared[i]
      BY <2>1, <2>5 DEF HistoryInv
    <3>3. UnderInv'
      <4>1. \A i \in DOMAIN declared : declared'[i].to <= table'[declared'[i].table].offset
        BY <1>1, <2>1, <3>1, <3>2 DEF UnderInv
      <4>2. give.to <= table'[give.table].offset
        <5>1. give.to = inner.offset /\ give.table = new
          BY <2>5
        <5>2. inner.offset \in Int
          BY <1>2, <2>1
        <5> QED
          BY <1>1, <5>1, <5>2
      <4>3. \A i \in DOMAIN declared' : i \in DOMAIN declared \/ declared'[i] = give
        BY <3>1, <3>2
      <4> QED
        BY <4>1, <4>2, <4>3 DEF UnderInv
    <3>4. ASSUME NEW j \in DOMAIN declared', NEW i \in 1 .. j - 1,
                 declared'[i].table \in table'[declared'[j].table].chain
          PROVE  declared'[i].to <= declared'[j].from
      <4>1. i \in DOMAIN declared
        BY <3>1, <3>2
      <4>2. CASE j \in DOMAIN declared
        BY ZenonT(40), <1>1, <2>1, <3>1, <3>2, <3>4, <4>1, <4>2 DEF StorageDisjoint
      <4>3. CASE j = Len(declared) + 1
        <5>1. declared[i].table \in table[w].chain
          BY <1>1, <2>5, <3>1, <3>2, <3>4, <4>1, <4>3
        <5>2. /\ declared[i].to <= table[declared[i].table].offset
              /\ table[declared[i].table].offset <= table[w].offset
          BY <2>1, <2>2, <4>1, <5>1 DEF UnderInv
        <5>3. declared'[i] = declared[i] /\ declared'[j].from = table[w].offset
          BY <2>5, <3>2, <4>1, <4>3
        <5>4. /\ declared[i].to \in Int /\ table[declared[i].table].offset \in Int
              /\ table[w].offset \in Int
          BY <1>2, <2>1, <3>1, <4>1
        <5> QED
          BY <5>2, <5>3, <5>4
      <4> QED
        BY <3>1, <3>2, <4>2, <4>3
    <3> QED
      BY <3>3, <3>4 DEF StorageDisjoint
  <2> QED
    BY <2>3, <2>4, <2>5
<1> QED
  BY <1>3, <1>4, <1>5, <1>6, <1>7, <1>8, <1>9 DEF IInv

(* A declaration: the offset of the table in hand grows.  A table around   *)
(* which it lies is not on the agenda any more, unless it is that table.   *)
LEMMA DeclareStep ==
  ASSUME IInv, todo # << >>, Kept, Work.do # "declarations", Work.table # GlobalTable,
         NEW larger, NEW room \in Int, BoundsOrdered => room >= 0,
         table' = [table EXCEPT ![Work.table] = larger], IsTable(larger, Len(table)),
         larger.chain = table[Work.table].chain,
         larger.offset = table[Work.table].offset + room,
         NEW give,
         give = [table |-> Work.table, from |-> table[Work.table].offset, to |-> larger.offset],
         declared' = Append(declared, give),
         Call(<< >>)
  PROVE  IInv'
<1> DEFINE w == Work.table
<1>1. /\ Len(table) \in Nat /\ DOMAIN table = 1 .. Len(table) /\ Len(table) >= 2
      /\ \A t \in 1 .. Len(table) : IsTable(table[t], Len(table)) /\ table[t].offset \in Int
  BY SeqFacts DEF IInv, TablesInv, IsTable
<1>2. /\ << >> \in Seq(ItemSet) /\ Len(<< >>) = 0 /\ DOMAIN << >> = {}
      /\ todo \in Seq(ItemSet) /\ Work = todo[1] /\ 1 \in DOMAIN todo
      /\ w \in 1 .. Len(table)
  <2>1. /\ << >> \in Seq(ItemSet) /\ Len(<< >>) = 0 /\ DOMAIN << >> = {}
    OBVIOUS
  <2>2. todo \in Seq(ItemSet)
    BY DEF IInv, AgendaInv
  <2>3. Work = todo[1] /\ 1 \in DOMAIN todo
    BY <2>1, <2>2, AgendaCall
  <2> QED
    BY <2>1, <2>2, <2>3 DEF IInv, AgendaInv, ItemInv
<1>3. /\ table' = [t \in 1 .. Len(table) |-> table'[t]]
      /\ table'[w] = larger /\ \A t \in 1 .. Len(table) : t # w => table'[t] = table[t]
  BY <1>1, <1>2
<1>4. IsSeq(table') /\ Len(table') = Len(table) /\ DOMAIN table' = 1 .. Len(table)
  BY <1>1, <1>3, ListFacts, SeqFacts
<1>5. \A t \in 1 .. Len(table) : Around(t)
  BY <1>3 DEF Around
<1>6. ProgramInv' /\ NotesInv'
  BY DEF IInv, Kept, ProgramInv, NotesInv, AllNodes
<1>7. TablesInv'
  <2>1. table'[GlobalTable] = table[GlobalTable]
    BY <1>1, <1>3 DEF GlobalTable
  <2>2. \A t \in 1 .. Len(table) : IsTable(table'[t], Len(table))
    BY <1>1, <1>3
  <2> QED
    BY <1>1, <1>4, <2>1, <2>2 DEF IInv, TablesInv
<1>8. AgendaInv'
  <2>1. AgendaInv /\ prog' = prog /\ Len(table) <= Len(table)
    BY <1>1 DEF IInv, Kept
  <2>2. \A k \in DOMAIN << >> : ItemInv(<< >>[k], Len(table))
    BY <1>2
  <2> QED
    BY <1>1, <1>2, <1>4, <2>1, <2>2, AgendaStep
<1>9. ChainsInv'
  BY <1>1, <1>4, <1>5 DEF IInv, ChainsInv, Around
<1>10. NestedInv'
  <2>1. AgendaInv /\ NestedInv
    BY DEF IInv
  <2>2. /\ \A k \in DOMAIN << >> : table[w].chain \subseteq table'[(<< >>)[k].table].chain
        /\ \A k, l \in DOMAIN << >> : k < l => (<< >>)[l].table \in table'[(<< >>)[k].table].chain
    BY <1>2
  <2> QED
    BY <1>1, <1>2, <1>5, <2>1, <2>2, NestedStep
<1>11. /\ Len(declared) \in Nat /\ DOMAIN declared = 1 .. Len(declared)
       /\ \A i \in DOMAIN declared : declared[i].table \in 1 .. Len(table) /\ declared[i].to \in Int
       /\ DOMAIN declared' = 1 .. Len(declared) + 1
       /\ declared'[Len(declared) + 1] = give
       /\ \A i \in DOMAIN declared : declared'[i] = declared[i]
       /\ declared' \in Seq(DeclaredSet)
  <2>1. declared \in Seq(DeclaredSet) /\ \A i \in DOMAIN declared : declared[i].table \in 1 .. Len(table)
    BY <1>1 DEF IInv, HistoryInv
  <2>2. \A i \in DOMAIN declared : declared[i].to \in Int
    <3>1. \A i \in DOMAIN declared : declared[i] \in DeclaredSet
      BY <2>1
    <3> QED
      BY <3>1 DEF DeclaredSet
  <2>3. give \in DeclaredSet
    BY <1>1, <1>2 DEF DeclaredSet
  <2> QED
    BY <2>1, <2>2, <2>3
<1>12. HistoryInv'
  <2>1. \A i \in DOMAIN declared' : i \in DOMAIN declared \/ declared'[i] = give
    BY <1>11
  <2> QED
    BY SMTT(30), <1>2, <1>4, <1>11, <2>1 DEF HistoryInv, DeclaredSet
<1>13. StorageInv'
  <2> SUFFICES ASSUME BoundsOrdered PROVE (RisingInv /\ UnderInv /\ StorageDisjoint)'
    BY BoundsKept DEF StorageInv, Kept
  <2>1. /\ RisingInv /\ UnderInv /\ StorageDisjoint /\ ChainsInv /\ NestedInv /\ AgendaInv
        /\ room >= 0
    BY DEF IInv, StorageInv
  <2>2. \A t \in 1 .. Len(table) :
          /\ table'[t].offset \in Int /\ table[t].offset <= table'[t].offset
          /\ t # w => table'[t].offset = table[t].offset
    BY <1>1, <1>2, <1>3, <2>1
  <2>3. RisingInv'
    <3> SUFFICES ASSUME NEW i \in DOMAIN todo', NEW u \in table'[todo'[i].table].chain
                 PROVE  table'[u].offset <= table'[todo'[i].table].offset
      BY DEF RisingInv
    <3>1. \E j \in DOMAIN todo : j > 1 /\ todo'[i].table = todo[j].table
      <4>1. i \in DOMAIN todo' /\ Len(<< >>) = 0
        BY <1>2
      <4>2. todo' = << >> \o Tail(todo)
        BY DEF Call
      <4>3. /\ i - Len(<< >>) + 1 \in DOMAIN todo /\ i > Len(<< >>)
            /\ todo'[i] = todo[i - Len(<< >>) + 1]
        BY <1>2, AgendaCall
      <4>4. i \in Nat /\ i + 1 > 1 /\ i - 0 + 1 = i + 1
        <5>1. todo' \in Seq(ItemSet)
          BY <1>2, AgendaCall
        <5> QED
          BY <5>1
      <4> QED
        BY <1>2, <4>3, <4>4
    <3>2. PICK j \in DOMAIN todo : j > 1 /\ todo'[i].table = todo[j].table
      BY <3>1
    <3> DEFINE t == todo[j].table
    <3>3. t \in 1 .. Len(table) /\ j \in Nat
      BY <1>2, <2>1 DEF AgendaInv, ItemInv
    <3>4. u \in table[t].chain /\ u \in 1 .. t /\ u \in 1 .. Len(table)
      BY <1>1, <1>5, <2>1, <3>2, <3>3 DEF Around, ChainsInv
    <3>5. table[u].offset <= table[t].offset
      BY <2>1, <3>4 DEF RisingInv
    <3>6. t \in table[w].chain /\ t <= w
      BY <1>1, <1>2, <2>1, <3>2, <3>3 DEF NestedInv, ChainsInv
    <3>7. CASE u = w
      <4>1. t = u
        BY <1>2, <3>3, <3>4, <3>6, <3>7
      <4> QED
        BY <2>2, <3>2, <3>4, <4>1
    <3>8. CASE u # w
      <4>1. table'[u].offset = table[u].offset /\ table[t].offset <= table'[t].offset
        BY <2>2, <3>3, <3>4, <3>8
      <4> QED
        BY SMTT(30), <1>1, <2>2, <3>2, <3>3, <3>4, <3>5, <4>1
    <3> QED
      BY <3>7, <3>8
  <2>4. UnderInv'
    <3>1. ASSUME NEW i \in DOMAIN declared
          PROVE  declared'[i].to <= table'[declared'[i].table].offset
      <4>1. declared[i].to <= table[declared[i].table].offset /\ declared[i].table \in 1 .. Len(table)
        BY <1>11, <2>1 DEF UnderInv
      <4> QED
        BY SMTT(30), <1>1, <1>11, <2>2, <4>1
    <3>2. give.to <= table'[give.table].offset
      BY <1>2, <1>3, <2>2
    <3>3. \A i \in DOMAIN declared' : i \in DOMAIN declared \/ declared'[i] = give
      BY <1>11
    <3> QED
      BY <3>1, <3>2, <3>3 DEF UnderInv
  <2>5. ASSUME NEW j \in DOMAIN declared', NEW i \in 1 .. j - 1,
               declared'[i].table \in table'[declared'[j].table].chain
        PROVE  declared'[i].to <= declared'[j].from
    <3>1. i \in DOMAIN declared
      BY <1>11
    <3>2. CASE j \in DOMAIN declared
      BY <1>1, <1>5, <1>11, <2>1, <2>5, <3>1, <3>2 DEF StorageDisjoint, Around
    <3>3. CASE j = Len(declared) + 1
      <4>1. declared[i].table \in table[w].chain
        BY <1>2, <1>3, <1>11, <2>5, <3>1, <3>3
      <4>2. /\ declared[i].to <= table[declared[i].table].offset
            /\ table[declared[i].table].offset <= table[w].offset
        BY <1>2, <2>1, <3>1, <4>1 DEF UnderInv, RisingInv
      <4>3. declared'[i] = declared[i] /\ declared'[j].from = table[w].offset
        BY <1>11, <3>1, <3>3
      <4>4. /\ declared[i].to \in Int /\ table[declared[i].table].offset \in Int
            /\ table[w].offset \in Int
        BY <1>1, <1>2, <1>11, <3>1
      <4> QED
        BY SMTT(30), <4>2, <4>3, <4>4
    <3> QED
      BY <1>11, <3>2, <3>3
  <2> QED
    BY <2>3, <2>4, <2>5 DEF StorageDisjoint
<1> QED
  BY <1>6, <1>7, <1>8, <1>9, <1>10, <1>12, <1>13 DEF IInv

-----------------------------------------------------------------------------
(* The call at the head of the agenda.                                     *)
LEMMA WorkFacts ==
  ASSUME IInv, Busy
  PROVE  /\ todo # << >> /\ ItemInv(Work, Len(table))
         /\ Work.do \in Tasks /\ Work.nth \in Nat
         /\ Work.do # "declarations" => Work.node \in AllNodes
         /\ Len(table) \in Nat /\ Len(table) >= 2
         /\ Work.table \in 1 .. Len(table) /\ DOMAIN table = 1 .. Len(table)
         /\ \A t \in 1 .. Len(table) : IsTable(table[t], Len(table))
         /\ table[GlobalTable].offset = 0
<1>1. todo # << >> /\ todo \in Seq(ItemSet) /\ \A i \in DOMAIN todo : ItemInv(todo[i], Len(table))
  BY DEF IInv, AgendaInv, Busy
<1>2. Work = todo[1] /\ 1 \in DOMAIN todo /\ Work \in ItemSet
  BY <1>1, EmptySeq DEF Work
<1>3. Len(table) \in Nat /\ DOMAIN table = 1 .. Len(table)
  BY SeqFacts DEF IInv, TablesInv
<1> QED
  BY <1>1, <1>2, <1>3 DEF IInv, TablesInv, ItemSet, ItemInv

(* Variables are declared and statements walked inside modules only.       *)
LEMMA InModule ==
  ASSUME IInv, Busy, Work.do # "define", ~IsModuleWalk(Work)
  PROVE  Work.table # GlobalTable
BY WorkFacts DEF ItemInv

LEMMA Unchanged ==
  ASSUME IInv, Busy, table' = table
  PROVE  Still
BY WorkFacts DEF Still, Around, IInv, TablesInv

LEMMA EntriesChanged ==
  ASSUME IInv, Busy,
         table' = [t \in 1 .. Len(table) |-> table'[t]],
         \A t \in 1 .. Len(table) :
           table'[t] = table[t] \/ \E e : table'[t] = [table[t] EXCEPT !.entry = e]
  PROVE  Still
<1>1. IsSeq(table') /\ Len(table') = Len(table)
  BY WorkFacts, ListFacts
<1>2. ASSUME NEW t \in 1 .. Len(table)
      PROVE  /\ IsTable(table'[t], Len(table)) /\ table'[t].chain = table[t].chain
             /\ table'[t].offset = table[t].offset
  <2>1. IsTable(table[t], Len(table))
    BY WorkFacts
  <2>2. ASSUME NEW e, table'[t] = [table[t] EXCEPT !.entry = e]
        PROVE  /\ IsTable(table'[t], Len(table)) /\ table'[t].chain = table[t].chain
               /\ table'[t].offset = table[t].offset
    BY <2>1, <2>2 DEF IsTable
  <2> QED
    BY <2>1, <2>2
<1> QED
  BY <1>1, <1>2 DEF Still, Around

LEMMA OneEntryChanged ==
  ASSUME IInv, Busy, NEW w \in 1 .. Len(table), NEW e, table' = [table EXCEPT ![w].entry = e]
  PROVE  Still
<1>1. table' = [t \in 1 .. Len(table) |-> table'[t]]
  BY WorkFacts
<1>2. ASSUME NEW t \in 1 .. Len(table)
      PROVE  table'[t] = table[t] \/ \E f : table'[t] = [table[t] EXCEPT !.entry = f]
  BY WorkFacts
<1> QED
  BY <1>1, <1>2, EntriesChanged

LEMMA MarksChanged ==
  ASSUME IInv, Busy, NEW names, table' = Marked(names)
  PROVE  Still
<1>1. table' = [t \in 1 .. Len(table) |-> table'[t]]
  BY WorkFacts DEF Marked
<1>2. ASSUME NEW t \in 1 .. Len(table)
      PROVE  \E f : table'[t] = [table[t] EXCEPT !.entry = f]
  BY WorkFacts DEF Marked
<1> QED
  BY <1>1, <1>2, EntriesChanged

-----------------------------------------------------------------------------
(* The two ways on of a step that declares nothing and opens no scope: the *)
(* call is done, or it walks nodes in its table.                           *)
LEMMA CallDone ==
  ASSUME IInv, Busy, Kept, Still, declared' = declared, Call(<< >>)
  PROVE  IInv'
<1>1. /\ << >> \in Seq(ItemSet)
      /\ \A k \in DOMAIN << >> : ItemInv(<< >>[k], Len(table)) /\ << >>[k].table = Work.table
  OBVIOUS
<1>2. todo # << >>
  BY DEF Busy
<1> QED
  BY <1>1, <1>2, QuietStep

LEMMA CallWalks ==
  ASSUME IInv, At("walk"), Node(Work.node).tag # "MODULE", Kept, Still, declared' = declared,
         NEW nodes \in Seq(AllNodes), \A k \in DOMAIN nodes : Node(nodes[k]).tag # "MODULE",
         Call(Walks(nodes, Work.table))
  PROVE  IInv'
<1> DEFINE items == Walks(nodes, Work.table)
<1>1. Busy /\ todo # << >> /\ Work.do = "walk"
  BY DEF At, Busy
<1>2. Work.table \in 1 .. Len(table) /\ Len(table) \in Nat /\ Work.table # GlobalTable
  BY <1>1, WorkFacts, InModule DEF IsModuleWalk
<1>3. ProgramInv /\ Work.table \in Nat
  BY <1>2 DEF IInv
<1>4. /\ items \in Seq(ItemSet) /\ Len(items) = Len(nodes)
      /\ \A k \in 1 .. Len(nodes) : items[k] = Item("walk", nodes[k], Work.table, 0)
  BY <1>3, WalksFacts
<1>5. ASSUME NEW k \in DOMAIN items
      PROVE  ItemInv(items[k], Len(table)) /\ items[k].table = Work.table
  <2>1. k \in DOMAIN nodes /\ nodes[k] \in AllNodes /\ items[k] = Item("walk", nodes[k], Work.table, 0)
    BY <1>4
  <2> QED
    BY <1>2, <2>1 DEF ItemInv, Item, IsModuleWalk
<1> QED
  BY <1>1, <1>4, <1>5, QuietStep

LEMMA QuietActions ==
  ASSUME IInv, DeclareModules \/ DefineModule \/ Redeclare \/ WalkId \/ WalkGetValue
                 \/ MarkAssigned \/ WalkUse
  PROVE  IInv'
<1>1. DOMAIN note = AllNodes /\ DOMAIN owned = AllNodes
  BY DEF IInv, NotesInv
<1>2. CASE DeclareModules
  <2>1. Busy /\ Kept /\ declared' = declared /\ Call(<< >>)
    BY <1>1, <1>2 DEF DeclareModules, At, Kept
  <2>2. Still
    <3>1. NamesTable \in 1 .. Len(table)
      BY <2>1, WorkFacts DEF NamesTable
    <3>2. \E e : table' = [table EXCEPT ![NamesTable].entry = e]
      BY <1>2 DEF DeclareModules
    <3> QED
      BY <2>1, <3>1, <3>2, OneEntryChanged
  <2> QED
    BY <2>1, <2>2, CallDone
<1>3. CASE DefineModule
  <2>1. Busy /\ Kept /\ declared' = declared /\ Call(<< >>)
    BY <1>1, <1>3 DEF DefineModule, At, Kept
  <2>2. table' = table \/ \E e : table' = [table EXCEPT ![Work.table].entry = e]
    BY <1>3 DEF DefineModule
  <2>3. Still
    BY <2>1, <2>2, WorkFacts, Unchanged, OneEntryChanged
  <2> QED
    BY <2>1, <2>3, CallDone
<1>4. CASE Redeclare
  <2>1. Busy /\ Kept /\ declared' = declared /\ Call(<< >>) /\ table' = table
    BY <1>1, <1>4 DEF Redeclare, Declaring, Kept
  <2> QED
    BY <2>1, Unchanged, CallDone
<1>5. CASE WalkId
  <2>1. Busy /\ Kept /\ declared' = declared /\ Call(<< >>) /\ table' = table
    BY <1>1, <1>5 DEF WalkId, WalkAt, At, Resolve, Kept
  <2> QED
    BY <2>1, Unchanged, CallDone
<1>6. CASE WalkGetValue
  <2>1. Busy /\ Kept /\ declared' = declared /\ Call(<< >>)
        /\ table' = Marked({Node(Work.node).name})
    BY <1>1, <1>6 DEF WalkGetValue, WalkAt, At, Resolve, Kept
  <2> QED
    BY <2>1, MarksChanged, CallDone
<1>7. CASE MarkAssigned
  <2>1. Busy /\ Kept /\ declared' = declared /\ Call(<< >>)
        /\ table' = Marked({Node(Work.node).name})
    BY <1>1, <1>7 DEF MarkAssigned, At, Kept
  <2> QED
    BY <2>1, MarksChanged, CallDone
<1>8. CASE WalkUse
  <2>1. Busy /\ Kept /\ declared' = declared /\ Call(<< >>)
        /\ \E names : table' = Marked(names)
    BY <1>1, <1>8 DEF WalkUse, WalkAt, At, Kept
  <2> QED
    BY <2>1, MarksChanged, CallDone
<1> QED
  BY <1>2, <1>3, <1>4, <1>5, <1>6, <1>7, <1>8

LEMMA WalkActions ==
  ASSUME IInv, WalkSwitch \/ WalkArray \/ WalkExpression \/ WalkPrint
  PROVE  IInv'
<1>1. /\ At("walk") /\ Busy /\ Kept /\ declared' = declared /\ table' = table
      /\ Node(Work.node).tag # "MODULE"
  <2>1. DOMAIN note = AllNodes /\ DOMAIN owned = AllNodes
    BY DEF IInv, NotesInv
  <2> QED
    BY <2>1 DEF WalkSwitch, WalkArray, WalkExpression, WalkPrint, WalkAt, At, Resolve, Kept
<1>2. ProgramInv /\ Work.node \in AllNodes
  BY <1>1, WorkFacts DEF At, IInv
<1> DEFINE kids == Node(Work.node).kids
<1>3. kids \in Seq(AllNodes) /\ \A k \in DOMAIN kids : Node(kids[k]).tag # "MODULE"
  BY <1>2, KidsFacts
<1>4. CASE WalkSwitch \/ WalkArray \/ WalkExpression
  <2>1. Call(Walks(kids, Work.table))
    BY <1>4 DEF WalkSwitch, WalkArray, WalkExpression
  <2> QED
    BY <1>1, <1>3, <2>1, Unchanged, CallWalks
<1>5. CASE WalkPrint
  <2>1. Node(Work.node).tag = "PRINT"
    BY <1>5 DEF WalkPrint, WalkAt
  <2>2. kids # << >>
    <3>1. Len(kids) = 1
      BY <1>2, <2>1, ArityFacts
    <3> QED
      BY <3>1
  <2>3. 1 \in DOMAIN kids /\ kids[1] \in AllNodes
    BY <1>3, <2>2, EmptySeq
  <2>4. /\ <<kids[1]>> \in Seq(AllNodes)
        /\ \A k \in DOMAIN <<kids[1]>> : Node(<<kids[1]>>[k]).tag # "MODULE"
    BY <1>3, <2>3
  <2>5. Call(Walks(<<kids[1]>>, Work.table)) \/ Call(<< >>)
    BY <1>5 DEF WalkPrint
  <2> QED
    BY <1>1, <2>4, <2>5, Unchanged, CallWalks, CallDone
<1> QED
  BY <1>4, <1>5

LEMMA DeclareActions ==
  ASSUME IInv, WalkDeclare
  PROVE  IInv'
<1> DEFINE n == Work.node
           w == Work.table
           list == Node(n).vars
           items == Each("variable", n, w, list)
<1>1. /\ Busy /\ todo # << >> /\ Kept /\ declared' = declared /\ table' = table
      /\ Work.do = "walk" /\ Node(n).tag = "DECLARE" /\ Call(items)
  BY DEF WalkDeclare, WalkAt, At, Busy, Kept, IInv, NotesInv
<1>2. n \in AllNodes /\ w \in 1 .. Len(table) /\ w \in Nat /\ Len(table) \in Nat /\ w # GlobalTable
  BY <1>1, WorkFacts, InModule DEF IsModuleWalk
<1>3. IsList(list)
  BY <1>1, <1>2 DEF IInv, ProgramInv, WellFormed, NodeWellFormed, AreVariables, Node, AllNodes
<1>4. /\ items \in Seq(ItemSet) /\ Len(items) = Len(list) /\ Len(list) \in Nat
      /\ \A k \in 1 .. Len(list) : k \in DOMAIN list /\ items[k] = Item("variable", n, w, k)
  <2>1. "variable" \in Tasks
    BY DEF Tasks
  <2> QED
    BY <1>2, <1>3, <2>1, EachFacts
<1>5. ASSUME NEW k \in DOMAIN items
      PROVE  ItemInv(items[k], Len(table)) /\ items[k].table = w
  <2>1. k \in DOMAIN list /\ items[k] = Item("variable", n, w, k)
    BY <1>4
  <2> QED
    BY <1>1, <1>2, <2>1 DEF ItemInv, Item, IsModuleWalk
<1>6. Still
  BY <1>1, Unchanged
<1> QED
  BY <1>1, <1>4, <1>5, <1>6, QuietStep

(* The mark of an assignment is an item behind those of its two sides.     *)
LEMMA AssignActions ==
  ASSUME IInv, WalkAssign
  PROVE  IInv'
<1> DEFINE w == Work.table
           kids == Node(Work.node).kids
           left == kids[1]
           mark == Item("assigned", left, w, 0)
           walks == Walks(kids, w)
           items == walks \o <<mark>>
<1>1. /\ At("walk") /\ Busy /\ todo # << >> /\ Kept /\ declared' = declared /\ table' = table
      /\ Work.do = "walk" /\ Node(Work.node).tag = "ASSIGN"
  BY DEF WalkAssign, WalkAt, At, Busy, Kept, IInv, NotesInv
<1>2. /\ Work.node \in AllNodes /\ w \in 1 .. Len(table) /\ w \in Nat /\ Len(table) \in Nat
      /\ w # GlobalTable /\ ProgramInv
  BY <1>1, WorkFacts, InModule DEF IsModuleWalk, IInv
<1>3. kids \in Seq(AllNodes) /\ \A k \in DOMAIN kids : Node(kids[k]).tag # "MODULE"
  BY <1>2, KidsFacts
<1>4. left \in AllNodes
  <2>1. Len(kids) = 2
    BY <1>1, <1>2, ArityFacts
  <2>2. kids # << >>
    BY <2>1
  <2> QED
    BY <1>3, <2>2, EmptySeq
<1>5. Still
  BY <1>1, Unchanged
<1>6. /\ walks \in Seq(ItemSet) /\ Len(walks) = Len(kids)
      /\ \A k \in 1 .. Len(kids) : walks[k] = Item("walk", kids[k], w, 0)
  BY <1>2, <1>3, WalksFacts
<1>7. CASE Node(left).tag = "ID"
  <2>1. Call(items)
    BY <1>7 DEF WalkAssign
  <2>2. mark \in ItemSet
    BY <1>2, <1>4 DEF Item, ItemSet, Tasks
  <2>3. /\ items \in Seq(ItemSet)
        /\ \A k \in DOMAIN items : \/ k \in DOMAIN walks /\ items[k] = walks[k]
                                  \/ items[k] = mark
    <3>1. /\ <<mark>> \in Seq(ItemSet) /\ DOMAIN <<mark>> = {1} /\ <<mark>>[1] = mark
      BY <2>2
    <3> QED
      BY <1>6, <3>1, ConcatFacts
  <2>4. ASSUME NEW k \in DOMAIN items
        PROVE  ItemInv(items[k], Len(table)) /\ items[k].table = w
    <3>1. CASE items[k] = mark
      <4>1. ItemInv(mark, Len(table)) /\ mark.table = w
        BY <1>2, <1>4 DEF ItemInv, Item, IsModuleWalk
      <4> QED
        BY <3>1, <4>1
    <3>2. CASE k \in DOMAIN walks /\ items[k] = walks[k]
      <4>1. k \in DOMAIN kids /\ kids[k] \in AllNodes /\ walks[k] = Item("walk", kids[k], w, 0)
        BY <1>3, <1>6, <3>2
      <4>2. ItemInv(walks[k], Len(table)) /\ walks[k].table = w
        BY <1>2, <1>3, <4>1 DEF ItemInv, Item, IsModuleWalk
      <4> QED
        BY <3>2, <4>2
    <3> QED
      BY <2>3, <3>1, <3>2
  <2> QED
    BY <1>1, <1>5, <2>1, <2>3, <2>4, QuietStep
<1>8. CASE Node(left).tag # "ID"
  <2>1. Call(walks)
    <3>1. Call(walks \o << >>)
      BY <1>8 DEF WalkAssign
    <3>2. walks \o << >> = walks
      BY <1>6, ConcatEmptySeq
    <3> QED
      BY <3>1, <3>2
  <2> QED
    BY <1>1, <1>3, <1>5, <2>1, CallWalks
<1> QED
  BY <1>7, <1>8

-----------------------------------------------------------------------------
(* Scopes are opened.                                                      *)
LEMMA NewTableFacts ==
  ASSUME IInv, Busy, NEW base \in Int
  PROVE  /\ IsTable(NewTable(Work.table, base), Len(table) + 1)
         /\ NewTable(Work.table, base).chain = table[Work.table].chain \cup {Len(table) + 1}
         /\ NewTable(Work.table, base).offset = base
         /\ NewTable(Work.table, base).base = base
<1>1. Work.table \in 0 .. Len(table) + 1
  BY WorkFacts
<1> QED
  BY <1>1 DEF NewTable, IsTable

(* The statements of a node are walked in a table that has just been made. *)
LEMMA WalksInside ==
  ASSUME IInv, Busy, NEW nodes \in Seq(AllNodes),
         \A k \in DOMAIN nodes : Node(nodes[k]).tag # "MODULE"
  PROVE  /\ Walks(nodes, Len(table) + 1) \in Seq(ItemSet)
         /\ \A k \in DOMAIN Walks(nodes, Len(table) + 1) :
              /\ ItemInv(Walks(nodes, Len(table) + 1)[k], Len(table) + 1)
              /\ Walks(nodes, Len(table) + 1)[k].table = Len(table) + 1
<1> DEFINE new == Len(table) + 1
           items == Walks(nodes, new)
<1>1. new \in Nat /\ new \in 1 .. new /\ new # GlobalTable
  BY WorkFacts DEF GlobalTable
<1>2. /\ items \in Seq(ItemSet) /\ Len(items) = Len(nodes)
      /\ \A k \in 1 .. Len(nodes) : items[k] = Item("walk", nodes[k], new, 0)
  BY <1>1, WalksFacts DEF IInv
<1>3. ASSUME NEW k \in DOMAIN items PROVE ItemInv(items[k], new) /\ items[k].table = new
  <2>1. k \in DOMAIN nodes /\ nodes[k] \in AllNodes /\ items[k] = Item("walk", nodes[k], new, 0)
    BY <1>2
  <2> QED
    BY <1>1, <2>1 DEF ItemInv, Item, IsModuleWalk
<1> QED
  BY <1>2, <1>3

(* So are the variables of a list.                                         *)
LEMMA EachInside ==
  ASSUME IInv, Busy, NEW n \in AllNodes, Node(n).tag = "MODULE",
         NEW do, NEW list, IsList(list),
         \/ do = "input" /\ list = Node(n).inputs
         \/ do = "return" /\ list = Node(n).returns
  PROVE  /\ Each(do, n, Len(table) + 1, list) \in Seq(ItemSet)
         /\ \A k \in DOMAIN Each(do, n, Len(table) + 1, list) :
              /\ ItemInv(Each(do, n, Len(table) + 1, list)[k], Len(table) + 1)
              /\ Each(do, n, Len(table) + 1, list)[k].table = Len(table) + 1
<1> DEFINE new == Len(table) + 1
           items == Each(do, n, new, list)
<1>1. new \in Nat /\ new \in 1 .. new /\ new # GlobalTable /\ do \in Tasks
  BY WorkFacts DEF GlobalTable, Tasks
<1>2. /\ items \in Seq(ItemSet) /\ Len(items) = Len(list) /\ Len(list) \in Nat
      /\ \A k \in 1 .. Len(list) : k \in DOMAIN list /\ items[k] = Item(do, n, new, k)
  BY <1>1, EachFacts
<1>3. ASSUME NEW k \in DOMAIN items PROVE ItemInv(items[k], new) /\ items[k].table = new
  <2>1. k \in DOMAIN list /\ items[k] = Item(do, n, new, k)
    BY <1>2
  <2> QED
    BY <1>1, <2>1 DEF ItemInv, Item, IsModuleWalk
<1> QED
  BY <1>2, <1>3

LEMMA ModuleFacts ==
  ASSUME ProgramInv, NEW n \in AllNodes, Node(n).tag = "MODULE"
  PROVE  /\ IsList(Node(n).inputs) /\ IsList(Node(n).returns)
         /\ \A i \in DOMAIN Node(n).inputs : IsVariableType(Node(n).inputs[i].type)
         /\ \A i \in DOMAIN Node(n).returns : IsVariableType(Node(n).returns[i].type)
BY DEF ProgramInv, WellFormed, NodeWellFormed, AreVariables, Node, AllNodes

LEMMA EnterModuleStep ==
  ASSUME IInv, EnterModule
  PROVE  IInv'
<1> DEFINE n == Work.node
           new == Len(table) + 1
           inner == NewTable(Work.table, 0)
           inputs == Each("input", n, new, Node(n).inputs)
           scope == Item("scope", n, new, 0)
           define == Item("define", n, Work.table, 0)
           items == inputs \o <<scope, define>>
<1>1. /\ Busy /\ todo # << >> /\ Kept /\ declared' = declared
      /\ Work.do = "walk" /\ Node(n).tag = "MODULE"
      /\ table' = Append(table, inner) /\ Call(items)
  BY DEF EnterModule, WalkAt, At, Busy, Kept, IInv, NotesInv
<1>2. /\ n \in AllNodes /\ Len(table) \in Nat /\ Len(table) >= 2
      /\ Work.table = GlobalTable /\ table[Work.table].offset = 0
  BY <1>1, WorkFacts DEF ItemInv, IsModuleWalk
<1>3. IsList(Node(n).inputs)
  BY <1>1, <1>2, ModuleFacts DEF IInv
<1>4. /\ inputs \in Seq(ItemSet)
      /\ \A k \in DOMAIN inputs : ItemInv(inputs[k], new) /\ inputs[k].table = new
  BY <1>1, <1>2, <1>3, EachInside
<1>5. scope \in ItemSet /\ ItemInv(scope, new) /\ scope.table = new
  BY <1>1, <1>2 DEF ItemInv, Item, ItemSet, Tasks, IsModuleWalk, GlobalTable
<1>6. define \in ItemSet /\ ItemInv(define, new) /\ define.table = Work.table
  BY <1>1, <1>2 DEF ItemInv, Item, ItemSet, Tasks, IsModuleWalk, GlobalTable
<1>7. /\ items \in Seq(ItemSet)
      /\ \A k \in DOMAIN items : \/ k \in DOMAIN inputs /\ items[k] = inputs[k]
                                 \/ items[k] = scope
                                 \/ k = Len(items) /\ items[k] = define
  <2>1. /\ <<scope, define>> \in Seq(ItemSet) /\ Len(<<scope, define>>) = 2
        /\ DOMAIN <<scope, define>> = {1, 2}
        /\ <<scope, define>>[1] = scope /\ <<scope, define>>[2] = define
    BY <1>5, <1>6
  <2>2. /\ items \in Seq(ItemSet) /\ Len(items) = Len(inputs) + 2 /\ Len(inputs) \in Nat
        /\ \A k \in DOMAIN items :
             \/ k \in DOMAIN inputs /\ items[k] = inputs[k]
             \/ k - Len(inputs) \in {1, 2} /\ items[k] = <<scope, define>>[k - Len(inputs)]
    BY <1>4, <2>1, ConcatFacts
  <2>3. DOMAIN items = 1 .. Len(inputs) + 2
    BY <2>2
  <2> HIDE DEF items, inputs, scope, define
  <2>4. ASSUME NEW k \in DOMAIN items
        PROVE  \/ k \in DOMAIN inputs /\ items[k] = inputs[k]
               \/ items[k] = scope
               \/ k = Len(items) /\ items[k] = define
    BY <2>1, <2>2, <2>3
  <2> QED
    BY <2>2, <2>4
<1>8. ASSUME NEW k \in DOMAIN items
      PROVE  /\ ItemInv(items[k], new)
             /\ items[k].table = new \/ (k = Len(items) /\ items[k].table = Work.table)
  BY <1>4, <1>5, <1>6, <1>7
<1>9. /\ IsTable(inner, new) /\ inner.chain = table[Work.table].chain \cup {new}
      /\ inner.offset = table[Work.table].offset + 0
  BY <1>1, <1>2, NewTableFacts
<1> HIDE DEF items, inner
<1> QED
  BY <1>1, <1>7, <1>8, <1>9, OpenStep

LEMMA OpenScopeStep ==
  ASSUME IInv, OpenScope
  PROVE  IInv'
<1> DEFINE n == Work.node
           new == Len(table) + 1
           inner == NewTable(Work.table, table[Work.table].offset)
           returns == Each("return", n, new, Node(n).returns)
           body == Walks(Body(Node(n)), new)
           items == returns \o body
<1>1. /\ Busy /\ todo # << >> /\ Kept /\ declared' = declared /\ Work.do = "scope"
      /\ table' = Append(table, inner) /\ Call(items)
  BY DEF OpenScope, At, Busy, Kept, IInv, NotesInv
<1>2. /\ n \in AllNodes /\ Node(n).tag = "MODULE"
      /\ table[Work.table].offset \in Int /\ ProgramInv
  BY <1>1, WorkFacts DEF ItemInv, IsTable, IInv
<1>3. IsList(Node(n).returns)
  BY <1>2, ModuleFacts
<1>4. /\ returns \in Seq(ItemSet)
      /\ \A k \in DOMAIN returns : ItemInv(returns[k], new) /\ returns[k].table = new
  BY <1>1, <1>2, <1>3, EachInside
<1>5. /\ body \in Seq(ItemSet)
      /\ \A k \in DOMAIN body : ItemInv(body[k], new) /\ body[k].table = new
  <2>1. /\ Body(Node(n)) \in Seq(AllNodes)
        /\ \A i \in DOMAIN Body(Node(n)) : Node(Body(Node(n))[i]).tag # "MODULE"
    BY <1>2, BodyFacts
  <2> QED
    BY <1>1, <2>1, WalksInside
<1>6. items \in Seq(ItemSet) /\ \A k \in DOMAIN items : ItemInv(items[k], new) /\ items[k].table = new
  <2>1. /\ items \in Seq(ItemSet)
        /\ \A k \in DOMAIN items : \/ k \in DOMAIN returns /\ items[k] = returns[k]
                                   \/ k - Len(returns) \in DOMAIN body
                                      /\ items[k] = body[k - Len(returns)]
    BY <1>4, <1>5, ConcatFacts
  <2> QED
    BY <1>4, <1>5, <2>1
<1>7. /\ IsTable(inner, new) /\ inner.chain = table[Work.table].chain \cup {new}
      /\ inner.offset = table[Work.table].offset + 0
  BY <1>1, <1>2, NewTableFacts
<1> HIDE DEF items, inner
<1> QED
  BY <1>1, <1>6, <1>7, OpenStep

(* The tables of while loops and of cases.                                 *)
LEMMA EnterStep ==
  ASSUME IInv, EnterWhile \/ EnterCase
  PROVE  IInv'
<1> DEFINE n == Work.node
           new == Len(table) + 1
<1>1. /\ Busy /\ todo # << >> /\ Kept /\ declared' = declared /\ Work.do = "walk"
      /\ table' = Append(table, Inner)
  BY DEF EnterWhile, EnterCase, Enter, WalkAt, At, Busy, Kept, IInv, NotesInv
<1>2. n \in AllNodes /\ table[Work.table].offset \in Int /\ ProgramInv
  BY <1>1, WorkFacts DEF IsTable, IInv
<1>3. /\ Body(Node(n)) \in Seq(AllNodes)
      /\ \A i \in DOMAIN Body(Node(n)) : Node(Body(Node(n))[i]).tag # "MODULE"
  BY <1>2, BodyFacts
<1>4. PICK nodes \in Seq(AllNodes) :
        Call(Walks(nodes, new)) /\ \A k \in DOMAIN nodes : Node(nodes[k]).tag # "MODULE"
  <2>1. CASE EnterCase
    BY <1>3, <2>1 DEF EnterCase, Enter
  <2>2. CASE EnterWhile
    <3> DEFINE b == Body(Node(n))
               p == Predicate(Node(n))
    <3>1. Node(n).tag = "WHILE" /\ Call(Walks(Append(b, p), new))
      BY <2>2 DEF EnterWhile, Enter, WalkAt
    <3>2. Node(n).kids # << >>
      BY <1>2, <3>1 DEF ProgramInv, WellFormed, NodeWellFormed, Node, AllNodes
    <3>3. p \in AllNodes /\ Node(p).tag # "MODULE"
      <4>1. 1 \in DOMAIN Node(n).kids
        BY <1>2, <3>2, KidsFacts, EmptySeq
      <4> QED
        BY <1>2, <4>1, KidsFacts DEF Predicate
    <3> HIDE DEF b, p
    <3>4. b \in Seq(AllNodes) /\ \A i \in DOMAIN b : Node(b[i]).tag # "MODULE"
      BY <1>3 DEF b
    <3>5. /\ Append(b, p) \in Seq(AllNodes)
          /\ \A k \in DOMAIN Append(b, p) :
               (k \in DOMAIN b /\ Append(b, p)[k] = b[k]) \/ Append(b, p)[k] = p
      BY <3>3, <3>4
    <3> QED
      BY <3>1, <3>3, <3>4, <3>5
  <2> QED
    BY <2>1, <2>2
<1> DEFINE items == Walks(nodes, new)
<1>5. items \in Seq(ItemSet) /\ \A k \in DOMAIN items : ItemInv(items[k], new) /\ items[k].table = new
  BY <1>1, <1>4, WalksInside
<1>6. /\ IsTable(Inner, new) /\ Inner.chain = table[Work.table].chain \cup {new}
      /\ Inner.offset = table[Work.table].offset + 0
  BY <1>1, <1>2, NewTableFacts DEF Inner
<1> HIDE DEF items
<1>7. Call(items)
  BY <1>4 DEF items
<1> QED
  BY <1>1, <1>5, <1>6, <1>7, OpenStep

(* A table with a variable more.                                           *)
LEMMA WithVariableFacts ==
  ASSUME NEW t, NEW tables, IsTable(t, tables), NEW name, NEW type,
         NEW width \in Int, NEW data \in Int, NEW n
  PROVE  /\ IsTable(WithVariable(t, name, type, width, data, n), tables)
         /\ WithVariable(t, name, type, width, data, n).chain = t.chain
         /\ WithVariable(t, name, type, width, data, n).offset = t.offset + width
BY DEF WithVariable, IsTable

LEMMA EnterForStep ==
  ASSUME IInv, EnterFor
  PROVE  IInv'
<1> DEFINE n == Work.node
           new == Len(table) + 1
           inner == WithVariable(Inner, Node(n).name, Integer, 2, 2, n)
           items == Walks(Body(Node(n)), new)
<1>1. SizeOf["INTEGER"] = 2
  BY DEF SizeOf
<1>2. /\ Busy /\ todo # << >> /\ Kept /\ Work.do = "walk"
      /\ table' = Append(table, inner) /\ Call(items)
      /\ declared' = Append(declared, [table |-> new, from |-> Inner.base, to |-> Inner.base + 2])
  BY <1>1 DEF EnterFor, Enter, Give, WalkAt, At, Busy, Kept, IInv, NotesInv
<1>3. n \in AllNodes /\ table[Work.table].offset \in Int /\ ProgramInv
  BY <1>2, WorkFacts DEF IsTable, IInv
<1>4. /\ IsTable(Inner, new) /\ Inner.chain = table[Work.table].chain \cup {new}
      /\ Inner.offset = table[Work.table].offset /\ Inner.base = table[Work.table].offset
  BY <1>2, <1>3, NewTableFacts DEF Inner
<1>5. /\ IsTable(inner, new) /\ inner.chain = table[Work.table].chain \cup {new}
      /\ inner.offset = table[Work.table].offset + 2
  BY <1>4, WithVariableFacts
<1>6. items \in Seq(ItemSet) /\ \A k \in DOMAIN items : ItemInv(items[k], new) /\ items[k].table = new
  <2>1. /\ Body(Node(n)) \in Seq(AllNodes)
        /\ \A i \in DOMAIN Body(Node(n)) : Node(Body(Node(n))[i]).tag # "MODULE"
    BY <1>3, BodyFacts
  <2> QED
    BY <1>2, <2>1, WalksInside
<1>7. declared' = Append(declared, [table |-> new, from |-> table[Work.table].offset, to |-> inner.offset])
  BY <1>2, <1>4, <1>5
<1> HIDE DEF items, inner
<1> QED
  BY <1>2, <1>5, <1>6, <1>7, OpenStep

-----------------------------------------------------------------------------
(* Declarations.                                                           *)
LEMMA WidthFacts ==
  ASSUME NEW type, IsVariableType(type)
  PROVE  Width(type) \in Int /\ DataSize(type) \in Int
<1>1. SizeOf \in [{"INTEGER", "REAL", "BOOLEAN"} -> Int] /\ DOMAIN SizeOf = {"INTEGER", "REAL", "BOOLEAN"}
  BY DEF SizeOf
<1>2. CASE type.form \in DOMAIN SizeOf
  BY <1>1, <1>2 DEF Width, DataSize
<1>3. CASE /\ type.form = "ARRAY" /\ type.elem \in DOMAIN SizeOf
           /\ type.low \in Int /\ type.high \in Int
  <2>1. SizeOf[type.elem] \in Int /\ Extent(type.low, type.high) \in Int
    BY <1>1, <1>3 DEF Extent
  <2>2. Extent(type.low, type.high) * SizeOf[type.elem] \in Int
    BY <2>1
  <2> QED
    BY <1>3, <2>2 DEF Width, DataSize
<1> QED
  BY <1>2, <1>3 DEF IsVariableType

LEMMA VarFacts ==
  ASSUME IInv, Declaring
  PROVE  /\ Room \in Int /\ Data \in Int
         /\ BoundsOrdered => Room >= 0
<1> DEFINE n == Work.node
<1>1. /\ Busy /\ Work.do \in {"input", "return", "variable"} /\ n \in AllNodes
      /\ ItemInv(Work, Len(table)) /\ ProgramInv
  BY WorkFacts DEF Declaring, IInv
<1>2. IsVariableType(Var.type) /\ (BoundsOrdered => Width(Var.type) >= 0)
  <2>1. CASE Work.do = "input"
    <3>1. Node(n).tag = "MODULE" /\ Work.nth \in DOMAIN Node(n).inputs /\ Var = Node(n).inputs[Work.nth]
      BY <1>1, <2>1 DEF ItemInv, Var
    <3> QED
      BY <1>1, <3>1, ModuleFacts DEF BoundsOrdered
  <2>2. CASE Work.do = "return"
    <3>1. Node(n).tag = "MODULE" /\ Work.nth \in DOMAIN Node(n).returns /\ Var = Node(n).returns[Work.nth]
      BY <1>1, <2>2 DEF ItemInv, Var
    <3> QED
      BY <1>1, <3>1, ModuleFacts DEF BoundsOrdered
  <2>3. CASE Work.do = "variable"
    <3>1. Node(n).tag = "DECLARE" /\ Work.nth \in DOMAIN Node(n).vars /\ Var = Node(n).vars[Work.nth]
      BY <1>1, <2>3 DEF ItemInv, Var
    <3>2. AreVariables(Node(n).vars)
      BY <1>1, <3>1 DEF ProgramInv, WellFormed, NodeWellFormed, Node, AllNodes
    <3> QED
      BY <1>1, <3>1, <3>2 DEF AreVariables, BoundsOrdered
  <2> QED
    BY <1>1, <2>1, <2>2, <2>3
<1>3. Width(Var.type) \in Int /\ DataSize(Var.type) \in Int
  BY <1>2, WidthFacts
<1>4. SizeOf["INTEGER"] = 2
  BY DEF SizeOf
<1> QED
  BY <1>2, <1>3, <1>4 DEF Room, Data

LEMMA DeclareActionStep ==
  ASSUME IInv, Declare
  PROVE  IInv'
<1> DEFINE w == Work.table
           larger == WithVariable(table[w], Var.name, Var.type, Room, Data, Work.node)
           give == [table |-> w, from |-> table[w].offset, to |-> larger.offset]
<1>1. /\ Declaring /\ Busy /\ todo # << >> /\ Kept /\ Call(<< >>)
      /\ Work.do \in {"input", "return", "variable"}
  BY DEF Declare, Declaring, Busy, Kept, IInv, NotesInv
<1>2. /\ w \in 1 .. Len(table) /\ DOMAIN table = 1 .. Len(table) /\ IsTable(table[w], Len(table))
      /\ w # GlobalTable
  BY <1>1, WorkFacts, InModule DEF IsModuleWalk
<1>3. Room \in Int /\ Data \in Int /\ (BoundsOrdered => Room >= 0)
  BY <1>1, VarFacts
<1>4. table' = [table EXCEPT ![w] = larger]
  BY DEF Declare
<1>5. /\ IsTable(larger, Len(table)) /\ larger.chain = table[w].chain
      /\ larger.offset = table[w].offset + Room
  BY <1>2, <1>3, WithVariableFacts
<1>6. declared' = Append(declared, give)
  BY <1>5 DEF Declare, Give
<1> HIDE DEF larger
<1> QED
  BY <1>1, <1>2, <1>3, <1>4, <1>5, <1>6, DeclareStep

-----------------------------------------------------------------------------
(* The first agenda: the declarations, then the modules and the driver.    *)
LEMMA InitialAgenda ==
  ASSUME ScopesInit, ProgramInv
  PROVE  /\ todo \in Seq(ItemSet)
         /\ \A i \in DOMAIN todo :
              \/ i = 1 /\ todo[i] = Item("declarations", 0, NamesTable, 0)
              \/ \E n \in AllNodes : Node(n).tag = "MODULE" /\ todo[i] = Item("walk", n, GlobalTable, 0)
<1> DEFINE d == Item("declarations", 0, NamesTable, 0)
           modules == Walks(prog.modules, GlobalTable)
           driver == Walks(<<prog.driver>>, GlobalTable)
           IsWalk(item) == \E n \in AllNodes :
             Node(n).tag = "MODULE" /\ item = Item("walk", n, GlobalTable, 0)
<1>1. /\ prog.modules \in Seq(AllNodes) /\ <<prog.driver>> \in Seq(AllNodes) /\ GlobalTable \in Nat
      /\ \A k \in DOMAIN prog.modules : Node(prog.modules[k]).tag = "MODULE"
      /\ \A k \in DOMAIN <<prog.driver>> : Node(<<prog.driver>>[k]).tag = "MODULE"
  <2>1. /\ prog.modules \in Seq(AllNodes) /\ prog.driver \in AllNodes
        /\ \A k \in DOMAIN prog.modules : Node(prog.modules[k]).tag = "MODULE"
        /\ Node(prog.driver).tag = "MODULE"
    BY DEF ProgramInv, WellFormed, AllNodes, Node
  <2>2. \A k \in DOMAIN <<prog.driver>> : <<prog.driver>>[k] = prog.driver
    OBVIOUS
  <2>3. GlobalTable \in Nat
    BY DEF GlobalTable
  <2> QED
    BY <2>1, <2>2, <2>3
<1>2. modules \in Seq(ItemSet) /\ \A k \in DOMAIN modules : IsWalk(modules[k])
  <2>1. /\ modules \in Seq(ItemSet) /\ Len(modules) = Len(prog.modules)
        /\ \A k \in 1 .. Len(prog.modules) : modules[k] = Item("walk", prog.modules[k], GlobalTable, 0)
    BY <1>1, WalksFacts
  <2>2. \A k \in DOMAIN modules : k \in DOMAIN prog.modules /\ prog.modules[k] \in AllNodes
    BY <1>1, <2>1
  <2> QED
    BY <1>1, <2>1, <2>2
<1>3. driver \in Seq(ItemSet) /\ \A k \in DOMAIN driver : IsWalk(driver[k])
  <2>1. /\ driver \in Seq(ItemSet) /\ Len(driver) = Len(<<prog.driver>>)
        /\ \A k \in 1 .. Len(<<prog.driver>>) : driver[k] = Item("walk", <<prog.driver>>[k], GlobalTable, 0)
    BY <1>1, WalksFacts
  <2>2. \A k \in DOMAIN driver : k \in DOMAIN <<prog.driver>> /\ <<prog.driver>>[k] \in AllNodes
    BY <1>1, <2>1
  <2> QED
    BY <1>1, <2>1, <2>2
<1>4. <<d>> \in Seq(ItemSet) /\ DOMAIN <<d>> = {1} /\ Len(<<d>>) = 1 /\ <<d>>[1] = d
  <2>1. d \in ItemSet
    BY DEF Item, ItemSet, Tasks, NamesTable
  <2> QED
    BY <2>1
<1>5. todo = <<d>> \o modules \o driver
  BY DEF ScopesInit
<1> HIDE DEF d, modules, driver, IsWalk
<1>6. /\ <<d>> \o modules \in Seq(ItemSet)
      /\ \A k \in DOMAIN (<<d>> \o modules) :
           (k = 1 /\ (<<d>> \o modules)[k] = d) \/ IsWalk((<<d>> \o modules)[k])
  BY <1>2, <1>4, ConcatFacts
<1>7. /\ todo \in Seq(ItemSet)
      /\ \A k \in DOMAIN todo : (k = 1 /\ todo[k] = d) \/ IsWalk(todo[k])
  BY <1>3, <1>5, <1>6, ConcatFacts
<1> QED
  BY <1>7 DEF d, IsWalk

LEMMA Initially ==
  ASSUME ScopesInit
  PROVE  IInv
<1>1. ProgramInv
  BY ProgramsWellFormed DEF ScopesInit, ProgramInv
<1>2. /\ IsSeq(table) /\ Len(table) = 2 /\ DOMAIN table = {1, 2}
      /\ table[1] = RootTable(1) /\ table[2] = RootTable(2)
  <2>1. table = <<RootTable(1), RootTable(2)>>
    BY DEF ScopesInit, GlobalTable, NamesTable
  <2> QED
    BY <2>1 DEF IsSeq
<1>3. \A t \in {1, 2} : /\ table[t].chain = {t} /\ table[t].offset = 0 /\ IsTable(table[t], 2)
  BY <1>2 DEF RootTable, IsTable
<1>4. TablesInv
  BY <1>2, <1>3 DEF TablesInv, GlobalTable
<1>5. NotesInv
  BY DEF ScopesInit, NotesInv
<1>6. AgendaInv
  <2>1. todo \in Seq(ItemSet)
    BY <1>1, InitialAgenda
  <2>2. ItemInv(Item("declarations", 0, NamesTable, 0), 2)
    BY DEF ItemInv, Item, IsModuleWalk, NamesTable, GlobalTable
  <2>3. \A n \in AllNodes : Node(n).tag = "MODULE" => ItemInv(Item("walk", n, GlobalTable, 0), 2)
    BY DEF ItemInv, Item, IsModuleWalk, GlobalTable
  <2> QED
    BY <1>1, <1>2, <2>1, <2>2, <2>3, InitialAgenda DEF AgendaInv
<1>7. \A i \in DOMAIN todo : todo[i].table \in {1, 2} /\ (todo[i].do # "declarations" => todo[i].table = 1)
  BY <1>1, InitialAgenda DEF Item, GlobalTable, NamesTable
<1>8. ChainsInv
  BY <1>2, <1>3 DEF ChainsInv
<1>9. NestedInv
  <2> SUFFICES ASSUME NEW i \in DOMAIN todo, NEW j \in DOMAIN todo, i < j, todo[i].do # "declarations"
               PROVE  todo[j].table \in table[todo[i].table].chain
    BY DEF NestedInv
  <2>1. todo[j].do # "declarations"
    <3>1. i \in Nat /\ j \in Nat /\ i > 0
      BY <1>1, InitialAgenda
    <3>2. j > 1
      BY <3>1
    <3> QED
      BY <1>1, <3>2, InitialAgenda DEF Item
  <2> QED
    BY <1>3, <1>7, <2>1
<1>10. HistoryInv
  BY DEF ScopesInit, HistoryInv
<1>11. StorageInv
  <2>1. RisingInv
    BY <1>3, <1>7 DEF RisingInv
  <2>2. UnderInv /\ StorageDisjoint
    BY DEF ScopesInit, UnderInv, StorageDisjoint
  <2> QED
    BY <2>1, <2>2 DEF StorageInv
<1> QED
  BY <1>1, <1>4, <1>5, <1>6, <1>8, <1>9, <1>10, <1>11 DEF IInv

LEMMA Inductive ==
  ASSUME IInv, [ScopesNext]_scopeVars
  PROVE  IInv'
<1>1. CASE UNCHANGED scopeVars
  <2>1. /\ phase' = phase /\ prog' = prog /\ todo' = todo /\ table' = table /\ note' = note
        /\ owned' = owned /\ errors' = errors /\ declared' = declared
    BY <1>1 DEF scopeVars
  <2> QED
    BY <2>1 DEF IInv, ProgramInv, TablesInv, IsTable, NotesInv, AgendaInv, ItemSet, ItemInv,
                IsModuleWalk, Node, AllNodes, ChainsInv, NestedInv, HistoryInv, DeclaredSet,
                StorageInv, BoundsOrdered, RisingInv, UnderInv, StorageDisjoint
<1>2. CASE DeclareModules \/ DefineModule \/ Redeclare \/ WalkId \/ WalkGetValue
             \/ MarkAssigned \/ WalkUse
  BY <1>2, QuietActions
<1>3. CASE WalkSwitch \/ WalkArray \/ WalkExpression \/ WalkPrint
  BY <1>3, WalkActions
<1>4. CASE WalkDeclare
  BY <1>4, DeclareActions
<1>5. CASE WalkAssign
  BY <1>5, AssignActions
<1>6. CASE EnterModule
  BY <1>6, EnterModuleStep
<1>7. CASE OpenScope
  BY <1>7, OpenScopeStep
<1>8. CASE EnterWhile \/ EnterCase
  BY <1>8, EnterStep
<1>9. CASE EnterFor
  BY <1>9, EnterForStep
<1>10. CASE Declare
  BY <1>10, DeclareActionStep
<1> QED
  BY <1>1, <1>2, <1>3, <1>4, <1>5, <1>6, <1>7, <1>8, <1>9, <1>10 DEF ScopesNext

(* The recursion of construct_symbol_table_helper() keeps the invariant.   *)
THEOREM ScopesInvariant == ScopesSpec => []IInv
<1>1. ScopesInit => IInv
  BY Initially
<1>2. IInv /\ [ScopesNext]_scopeVars => IInv'
  BY Inductive
<1> QED
  BY <1>1, <1>2, PTL DEF ScopesSpec

(* Every call that is still to come is about a node of the program and a   *)
(* table that exists, and the parent pointers lead to tables: the walk     *)
(* never looks anything up in a table that has not been made.              *)
THEOREM ScopesTypeCorrect == ScopesSpec => []ScopesTypeOK
<1>1. ASSUME IInv PROVE ScopesTypeOK
  <2>1. Len(table) \in Nat /\ DOMAIN table = 1 .. Len(table)
    BY SeqFacts, <1>1 DEF IInv, TablesInv
  <2>2. \A i \in DOMAIN todo : ItemOK(todo[i])
    <3>1. \A i \in DOMAIN todo : todo[i] \in ItemSet /\ todo[i].table \in DOMAIN table
      BY <1>1, <2>1 DEF IInv, AgendaInv, ItemInv
    <3> QED
      BY <3>1 DEF ItemOK, ItemSet
  <2>3. \A t \in DOMAIN table : TableOK(table[t])
    BY <1>1, <2>1 DEF IInv, TablesInv, IsTable, ChainsInv, TableOK
  <2> QED
    BY <1>1, <2>2, <2>3 DEF IInv, NotesInv, HistoryInv, ScopesTypeOK
<1>2. IInv => ScopesTypeOK
  BY <1>1
<1> QED
  BY <1>2, ScopesInvariant, PTL

(* However the scopes of a program are nested and whatever they declare,   *)
(* the bytes given to a variable by construct_symbol_table_helper() are    *)
(* not those of a variable declared before it that is visible there, as    *)
(* long as the bounds of arrays are in order.                              *)
THEOREM StorageIsDisjoint == ScopesSpec => []StorageDisjoint
<1>1. IInv => StorageDisjoint
  <2>1. ~BoundsOrdered => StorageDisjoint
    BY DEF StorageDisjoint
  <2> QED
    BY <2>1 DEF IInv, StorageInv
<1> QED
  BY <1>1, ScopesInvariant, PTL
=============================================================================
