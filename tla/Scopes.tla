------------------------------- MODULE Scopes -------------------------------
(***************************************************************************)
(* construct_symbol_table() of symbol_table_constructor.c: one walk over   *)
(* the tree makes a table for every scope, gives each declared variable    *)
(* its place in the frame of its module, and writes into each use of a     *)
(* name what the name stands for there.                                    *)
(*                                                                         *)
(* The recursion of the code is the agenda `todo': the head is the call    *)
(* that comes next, the rest is what the callers still have to do.  A step *)
(* is one case of the switch over the kinds of nodes, or one turn of a     *)
(* loop over declarations.                                                 *)
(***************************************************************************)
EXTENDS Nodes

VARIABLES
  phase,      \* the pass that runs: "scopes", then those of the other modules
  prog,       \* the program, one of Programs
  todo,       \* the agenda: items [do, node, table, nth]
  table,      \* the symbol tables in the order they were made
  note,       \* per node, what an IDNode or a call has been given
  owned,      \* per node, the table made for it, 0 for none
  errors,     \* the errors reported, [what, node]
  declared    \* history: the storage given out, in order

scopeVars == <<phase, prog, todo, table, note, owned, errors, declared>>

GlobalTable == 1    \* global_symbol_table
NamesTable  == 2    \* module_declarations_symbol_table, children[0]

Node(n) == prog.nodes[n]
AllNodes == DOMAIN prog.nodes

Item(do, node, t, nth) == [do |-> do, node |-> node, table |-> t, nth |-> nth]
Walks(nodes, t) == [i \in DOMAIN nodes |-> Item("walk", nodes[i], t, 0)]
Each(do, node, t, list) == [i \in DOMAIN list |-> Item(do, node, t, i)]

Work   == Head(todo)
Busy   == phase = "scopes" /\ todo # << >>
At(do) == Busy /\ Work.do = do
WalkAt(tag) == At("walk") /\ Node(Work.node).tag = tag
Call(items) == todo' = items \o Tail(todo)

(* create_symbol_table(), and the assignments that follow it.  `chain' is  *)
(* the table with those its parent pointers lead to; `base' is where the   *)
(* offsets of its entries start.                                           *)
NewTable(parent, base) ==
  [parent |-> parent, chain |-> table[parent].chain \cup {Len(table) + 1},
   base |-> base, offset |-> base, size |-> 0, entry |-> << >>]
RootTable(t) ==
  [parent |-> 0, chain |-> {t}, base |-> 0, offset |-> 0, size |-> 0, entry |-> << >>]

Extended(f, x, v) == [y \in DOMAIN f \cup {x} |-> IF y = x THEN v ELSE f[y]]

Entry(type, offset, width, node) ==
  [type |-> type, offset |-> offset, width |-> width, assigned |-> FALSE, node |-> node]

(* A table after a declaration that takes `width' bytes, `data' of which   *)
(* count for the space the scope asks for.                                 *)
WithVariable(t, name, type, width, data, node) ==
  [t EXCEPT !.offset = @ + width, !.size = @ + data,
            !.entry  = Extended(@, name, Entry(type, t.offset + width, width, node))]

(* Mutant of Innermost: the search goes on to the root.                    *)
OutermostFound(ts) == CHOOSE t \in ts : \A u \in ts : t <= u

(* search_in_cactus_stack(): the innermost table on the way to the root    *)
(* that holds the name, 0 if none does.  Tables are numbered as they are   *)
(* made, an inner one after the one around it.                             *)
Innermost(ts) == CHOOSE t \in ts : \A u \in ts : u <= t
HoldersOf(t, name) == {u \in table[t].chain : name \in DOMAIN table[u].entry}
Holder(t, name) == IF HoldersOf(t, name) = {} THEN 0 ELSE Innermost(HoldersOf(t, name))
Found(t, name)  == Holder(t, name) # 0
Lookup(t, name) == table[Holder(t, name)].entry[name]

TypeIn(t, name) == IF Found(t, name) THEN Lookup(t, name).type ELSE Undefined

Report(what) == errors' = errors \cup {[what |-> what, node |-> Work.node]}

(* The name of an IDNode is looked up and the finding left in the node.    *)
Resolve(name) ==
  /\ note' = [note EXCEPT ![Work.node] =
                [type   |-> TypeIn(Work.table, name),
                 offset |-> IF Found(Work.table, name) THEN Lookup(Work.table, name).offset ELSE 0,
                 table  |-> Work.table]]
  /\ IF Found(Work.table, name) THEN UNCHANGED errors ELSE Report("undeclared")

(* Mutant of Marked: all variables of the name that are visible are marked.*)
MarkedOnTheWay(names) ==
  [t \in DOMAIN table |->
     [table[t] EXCEPT !.entry =
        [name \in DOMAIN @ |->
           IF name \in names /\ t \in table[Work.table].chain
           THEN [@[name] EXCEPT !.assigned = TRUE] ELSE @[name]]]]

(* was_assigned is set in the entries that the names stand for.            *)
Marked(names) ==
  [t \in DOMAIN table |->
     [table[t] EXCEPT !.entry =
        [name \in DOMAIN @ |->
           IF name \in names /\ t = Holder(Work.table, name)
           THEN [@[name] EXCEPT !.assigned = TRUE] ELSE @[name]]]]

ScopesInit ==
  /\ \E i \in DOMAIN Programs : prog = Programs[i]
  /\ phase = "scopes"
  /\ table = <<RootTable(GlobalTable), RootTable(NamesTable)>>
  /\ todo = <<Item("declarations", 0, NamesTable, 0)>>
            \o Walks(prog.modules, GlobalTable) \o Walks(<<prog.driver>>, GlobalTable)
  /\ note  = [n \in AllNodes |-> [type |-> Undefined, offset |-> 0, table |-> 0]]
  /\ owned = [n \in AllNodes |-> 0]
  /\ errors = {} /\ declared = << >>

(* NODE_MODULE_DECLARATIONS: an entry for each name, in a table that no    *)
(* scope has above it.                                                     *)
DeclareModules ==
  /\ At("declarations")
  /\ Call(<< >>)
  /\ table' = [table EXCEPT ![NamesTable].entry =
                 [name \in {prog.declared[i] : i \in DOMAIN prog.declared} |->
                    Entry(FunctionOf(<< >>, << >>, 0), 0, 0, 0)]]
  /\ UNCHANGED <<phase, prog, note, owned, errors, declared>>

(* NODE_MODULE: the table of the input parameters, and the module's type.  *)
EnterModule ==
  /\ WalkAt("MODULE")
  /\ LET entryTable == Len(table) + 1 IN
       /\ table' = Append(table, NewTable(Work.table, 0))
       /\ owned' = [owned EXCEPT ![Work.node] = entryTable]
       /\ Call(Each("input", Work.node, entryTable, Node(Work.node).inputs)
               \o <<Item("scope", Work.node, entryTable, 0),
                    Item("define", Work.node, Work.table, 0)>>)
  /\ UNCHANGED <<phase, prog, note, errors, declared>>

(* The table of the body follows that of the inputs in the frame; the      *)
(* returned variables belong to it.                                        *)
OpenScope ==
  /\ At("scope")
  /\ LET scopeTable == Len(table) + 1 IN
       /\ table' = Append(table, NewTable(Work.table, table[Work.table].offset))
       /\ Call(Each("return", Work.node, scopeTable, Node(Work.node).returns)
               \o Walks(Body(Node(Work.node)), scopeTable))
  /\ UNCHANGED <<phase, prog, note, owned, errors, declared>>

(* The module is entered under its name when all of it has been walked.    *)
ModuleType(n) ==
  FunctionOf(TypesOf(Node(n).inputs), TypesOf(Node(n).returns), owned[n])

DefineModule ==
  /\ At("define")
  /\ LET name == Node(Work.node).name IN
       IF name \in DOMAIN table[Work.table].entry
       THEN Report("redefinition") /\ UNCHANGED table
       ELSE /\ table' = [table EXCEPT ![Work.table].entry =
                           Extended(@, name, Entry(ModuleType(Work.node), 0, 0, Work.node))]
            /\ UNCHANGED errors
  /\ Call(<< >>)
  /\ UNCHANGED <<phase, prog, note, owned, declared>>

(* A declaration: NODE_VARIABLE, NODE_ARRAY_VARIABLE, or the case for an   *)
(* array in the list of inputs, which takes room for a pointer and two     *)
(* bounds and is not counted in the size.                                  *)
Declaring == Busy /\ Work.do \in {"input", "return", "variable"}
Var ==
  CASE Work.do = "input"  -> Node(Work.node).inputs[Work.nth]
    [] Work.do = "return" -> Node(Work.node).returns[Work.nth]
    [] OTHER              -> Node(Work.node).vars[Work.nth]
IsArrayInput == Work.do = "input" /\ Var.type.form = "ARRAY"
Room == IF IsArrayInput THEN 1 + 2 * SizeOf["INTEGER"] ELSE Width(Var.type)
Data == IF IsArrayInput THEN 0 ELSE DataSize(Var.type)

Give(t, from, to) == declared' = Append(declared, [table |-> t, from |-> from, to |-> to])

Declare ==
  /\ Declaring /\ Var.name \notin DOMAIN table[Work.table].entry
  /\ table' = [table EXCEPT ![Work.table] =
                 WithVariable(@, Var.name, Var.type, Room, Data, Work.node)]
  /\ Give(Work.table, table[Work.table].offset, table[Work.table].offset + Room)
  /\ Call(<< >>)
  /\ UNCHANGED <<phase, prog, note, owned, errors>>

Redeclare ==
  /\ Declaring /\ Var.name \in DOMAIN table[Work.table].entry
  /\ Report("redeclaration")
  /\ Call(<< >>)
  /\ UNCHANGED <<phase, prog, table, note, owned, declared>>

WalkDeclare ==
  /\ WalkAt("DECLARE")
  /\ Call(Each("variable", Work.node, Work.table, Node(Work.node).vars))
  /\ UNCHANGED <<phase, prog, table, note, owned, errors, declared>>

(* Mutant of Inner: the offset of a scope starts anew.                     *)
InnerFromZero == NewTable(Work.table, 0)

(* The table of a construct with statements goes on where the table around *)
(* it stands.                                                              *)
Inner == NewTable(Work.table, table[Work.table].offset)

Enter(t, items) ==
  /\ table' = Append(table, t)
  /\ owned' = [owned EXCEPT ![Work.node] = Len(table) + 1]
  /\ Call(items)

(* NODE_FOR: the counter is the first variable of the loop's table, which  *)
(* is also that of the statements.                                         *)
EnterFor ==
  /\ WalkAt("FOR")
  /\ LET size == SizeOf["INTEGER"] IN
       /\ Enter(WithVariable(Inner, Node(Work.node).name, Integer, size, size, Work.node),
                Walks(Body(Node(Work.node)), Len(table) + 1))
       /\ Give(Len(table) + 1, Inner.base, Inner.base + size)
  /\ UNCHANGED <<phase, prog, note, errors>>

(* NODE_WHILE_STATEMENT: the statements are walked before the predicate,   *)
(* in the same table.                                                      *)
EnterWhile ==
  /\ WalkAt("WHILE")
  /\ Enter(Inner, Walks(Append(Body(Node(Work.node)), Predicate(Node(Work.node))), Len(table) + 1))
  /\ UNCHANGED <<phase, prog, note, errors, declared>>

(* Mutant of EnterCase: the statements of a case get no table of their own.*)
EnterCaseWithoutTable ==
  /\ WalkAt("CASE")
  /\ owned' = [owned EXCEPT ![Work.node] = Len(table) + 1]
  /\ Call(Walks(Body(Node(Work.node)), Len(table) + 1))
  /\ UNCHANGED <<phase, prog, table, note, errors, declared>>

EnterCase ==
  /\ WalkAt("CASE")
  /\ Enter(Inner, Walks(Body(Node(Work.node)), Len(table) + 1))
  /\ UNCHANGED <<phase, prog, note, errors, declared>>

(* NODE_SWITCH: the identifier, then the cases with the default last.      *)
WalkSwitch ==
  /\ WalkAt("SWITCH")
  /\ Resolve(Node(Work.node).name)
  /\ Call(Walks(Node(Work.node).kids, Work.table))
  /\ UNCHANGED <<phase, prog, table, owned, declared>>

WalkId ==
  /\ WalkAt("ID")
  /\ Resolve(Node(Work.node).name)
  /\ Call(<< >>)
  /\ UNCHANGED <<phase, prog, table, owned, declared>>

(* NODE_ARRAY: the array's name, then the index.                           *)
WalkArray ==
  /\ WalkAt("ARRAY")
  /\ Resolve(Node(Work.node).name)
  /\ Call(Walks(Node(Work.node).kids, Work.table))
  /\ UNCHANGED <<phase, prog, table, owned, declared>>

(* Operators walk their operands; literals have nothing to look up.        *)
WalkExpression ==
  /\ At("walk") /\ Node(Work.node).tag \in {"BINARY", "UNARY", "INT", "BOOL", "REAL"}
  /\ Call(Walks(Node(Work.node).kids, Work.table))
  /\ UNCHANGED <<phase, prog, table, note, owned, errors, declared>>

WalkPrint ==
  /\ WalkAt("PRINT")
  /\ LET item == Node(Work.node).kids[1] IN
       Call(IF Node(item).tag = "ID" THEN Walks(<<item>>, Work.table) ELSE << >>)
  /\ UNCHANGED <<phase, prog, table, note, owned, errors, declared>>

WalkGetValue ==
  /\ WalkAt("GET_VALUE")
  /\ Resolve(Node(Work.node).name)
  /\ table' = Marked({Node(Work.node).name})
  /\ Call(<< >>)
  /\ UNCHANGED <<phase, prog, owned, declared>>

(* NODE_ASSIGNMENT_STATEMENT: both sides, then the mark; an element of an  *)
(* array does not mark the array.                                          *)
WalkAssign ==
  /\ WalkAt("ASSIGN")
  /\ LET left == Node(Work.node).kids[1] IN
       Call(Walks(Node(Work.node).kids, Work.table)
            \o IF Node(left).tag = "ID" THEN <<Item("assigned", left, Work.table, 0)>> ELSE << >>)
  /\ UNCHANGED <<phase, prog, table, note, owned, errors, declared>>

MarkAssigned ==
  /\ At("assigned")
  /\ table' = Marked({Node(Work.node).name})
  /\ Call(<< >>)
  /\ UNCHANGED <<phase, prog, note, owned, errors, declared>>

(* set_module_use_caller_parameter_type_descriptor_list(): a literal has   *)
(* its own type, a name that of its entry; an element counts as its array. *)
(* Parameters are literals of integers and booleans, names and elements.   *)
ArgumentType(n, t) ==
  CASE Node(n).tag = "INT"  -> Integer
    [] Node(n).tag = "BOOL" -> Boolean
    [] OTHER                -> TypeIn(t, Node(n).name)

(* NODE_MODULE_USE_STATEMENT: the types of the two lists of the call, and  *)
(* the marks of the results.                                               *)
WalkUse ==
  /\ WalkAt("USE")
  /\ LET node == Node(Work.node)
         t    == Work.table IN
       /\ note' = [note EXCEPT ![Work.node] =
            [type   |-> FunctionOf([i \in DOMAIN node.kids    |-> ArgumentType(node.kids[i], t)],
                                   [i \in DOMAIN node.results |-> TypeIn(t, node.results[i])], 0),
             offset |-> 0, table |-> t]]
       /\ table' = Marked({node.results[i] : i \in DOMAIN node.results})
  /\ Call(<< >>)
  /\ UNCHANGED <<phase, prog, owned, errors, declared>>

ScopesNext ==
  \/ DeclareModules \/ EnterModule \/ OpenScope \/ DefineModule
  \/ Declare \/ Redeclare \/ WalkDeclare
  \/ EnterFor \/ EnterWhile \/ EnterCase \/ WalkSwitch
  \/ WalkId \/ WalkArray \/ WalkExpression \/ WalkPrint \/ WalkGetValue
  \/ WalkAssign \/ MarkAssigned \/ WalkUse

ScopesSpec == ScopesInit /\ [][ScopesNext]_scopeVars

-----------------------------------------------------------------------------
ItemOK(item) ==
  /\ item.node \in AllNodes \cup {0} /\ item.table \in DOMAIN table /\ item.nth \in Nat
TableOK(t) ==
  /\ t.parent \in 0 .. Len(table) /\ t.chain \subseteq DOMAIN table
  /\ t.base \in Int /\ t.offset \in Int /\ t.size \in Int

ScopesTypeOK ==
  /\ \A i \in DOMAIN todo : ItemOK(todo[i])
  /\ \A i \in DOMAIN table : TableOK(table[i])
  /\ DOMAIN note = AllNodes /\ DOMAIN owned = AllNodes
  /\ \A i \in DOMAIN declared : declared[i].table \in DOMAIN table

(* No array of the program has its bounds reversed; the code does not      *)
(* check them.                                                             *)
BoundsOrdered ==
  \A n \in AllNodes :
    /\ Node(n).tag = "DECLARE" => \A i \in DOMAIN Node(n).vars : Width(Node(n).vars[i].type) >= 0
    /\ Node(n).tag = "MODULE" =>
         /\ \A i \in DOMAIN Node(n).inputs : Width(Node(n).inputs[i].type) >= 0
         /\ \A i \in DOMAIN Node(n).returns : Width(Node(n).returns[i].type) >= 0

(* A variable is given bytes that no variable declared before it has that  *)
(* is visible where it is declared: the running offsets of the tables,     *)
(* each copied from the one around it when the scope is entered, never let *)
(* the storage of live variables overlap.                                  *)
StorageDisjoint ==
  BoundsOrdered =>
    \A j \in DOMAIN declared : \A i \in 1 .. j - 1 :
      declared[i].table \in table[declared[j].table].chain =>
        declared[i].to <= declared[j].from
=============================================================================
