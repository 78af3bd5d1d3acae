-------------------------------- MODULE Nodes --------------------------------
(***************************************************************************)
(* The syntax tree that the passes after the parser walk, and the type     *)
(* descriptors they put into it.  The nodes of a program are numbered in   *)
(* the order of the source; their lines are kept beside them, of which     *)
(* only those of modules and of calls, where their names stand, are        *)
(* compared.  A node is a record with its tag, the numbers of the nodes    *)
(* under it, `kids', and attributes; a list of statements is the tail of   *)
(* its owner's kids:                                                       *)
(*                                                                         *)
(*   MODULE name inputs returns    the statements                          *)
(*   DECLARE vars                  none                                    *)
(*   FOR name low high             the statements                          *)
(*   WHILE                         the predicate, then the statements      *)
(*   SWITCH name default           the cases; the default is the last one  *)
(*   CASE type value               the statements                          *)
(*   ASSIGN                        left side, right side                   *)
(*   GET_VALUE name                none                                    *)
(*   PRINT                         the item                                *)
(*   USE name results              the parameters                          *)
(*   BINARY op, UNARY op, ARRAY name                 operands, index       *)
(*   ID name, INT value, BOOL value, REAL            none                  *)
(***************************************************************************)
EXTENDS Integers, Sequences, FiniteSets

CONSTANT
  Programs    \* a sequence of records [nodes, lines, declared, modules,
              \* driver, request]: the nodes and their lines, the names
              \* declared at the top, the numbers of the modules and of the
              \* driver, and whether the user asks for "errors" or "code"

(* Type descriptors.  The bounds of an array are numbers only if it is     *)
(* static; otherwise at least one of them is an identifier.                *)
Integer   == [form |-> "INTEGER"]
Real      == [form |-> "REAL"]
Boolean   == [form |-> "BOOLEAN"]
Undefined == [form |-> "UNDEFINED"]
Error     == [form |-> "ERROR"]
Forms == {"INTEGER", "REAL", "BOOLEAN", "ARRAY", "FUNCTION", "UNDEFINED", "ERROR"}
Scalar(form) == [form |-> form]
ArrayOf(elem, low, high) ==
  [form |-> "ARRAY", elem |-> elem, static |-> TRUE, low |-> low, high |-> high]
DynamicArrayOf(elem) ==
  [form |-> "ARRAY", elem |-> elem, static |-> FALSE, low |-> 0, high |-> 0]
FunctionOf(inputs, returns, scope) ==
  [form |-> "FUNCTION", inputs |-> inputs, returns |-> returns, scope |-> scope]

SizeOf == [form \in {"INTEGER", "REAL", "BOOLEAN"} |->
             IF form = "INTEGER" THEN 2 ELSE IF form = "REAL" THEN 4 ELSE 1]

(* get_range_in_int_from().                                                *)
Extent(low, high) == high - low + 1

(* The bytes a declared variable takes; a reversed range makes them few,   *)
(* or less than none.                                                      *)
Width(type) ==
  IF type.form # "ARRAY" THEN SizeOf[type.form]
  ELSE IF type.static THEN 1 + Extent(type.low, type.high) * SizeOf[type.elem]
  ELSE 1

(* Mutant of DataSize: the pointer of an array is not counted.             *)
DataSizeOfElements(type) ==
  IF type.form # "ARRAY" THEN Width(type)
  ELSE IF type.static THEN Width(type) - 1 ELSE 0

(* What is added to total_data_size for it: nothing for a dynamic array.   *)
DataSize(type) == IF type.form = "ARRAY" /\ ~type.static THEN 0 ELSE Width(type)

(* are_equivalent_array_types(): an array with an identifier for a bound   *)
(* is equivalent to every other.                                           *)
EquivalentArrays(a, b) ==
  \/ ~a.static \/ ~b.static
  \/ a.elem = b.elem /\ a.high - a.low = b.high - b.low

EquivalentData(a, b) ==
  a.form = b.form /\ (a.form = "ARRAY" => EquivalentArrays(a, b))

(* are_equivalent_function_types().                                        *)
EquivalentFunctions(a, b) ==
  /\ Len(a.inputs) = Len(b.inputs) /\ Len(a.returns) = Len(b.returns)
  /\ \A i \in DOMAIN a.inputs  : EquivalentData(a.inputs[i], b.inputs[i])
  /\ \A i \in DOMAIN a.returns : a.returns[i].form = b.returns[i].form

(* are_equivalent_type_descriptors().                                      *)
Equivalent(a, b) ==
  a.form = b.form /\ CASE a.form = "FUNCTION" -> EquivalentFunctions(a, b)
                       [] OTHER -> EquivalentData(a, b)

(* The parts of a node.                                                    *)
Predicate(node) == node.kids[1]
Body(node) == IF node.tag = "WHILE" THEN Tail(node.kids) ELSE node.kids
TypesOf(vars) == [i \in DOMAIN vars |-> vars[i].type]

(* What the parser builds: lists are lists, modules stand at the top only, *)
(* under an expression there are expressions, under a switch its cases,    *)
(* and every node but the modules hangs under one before it.  The driver's *)
(* name comes from its keyword.                                            *)
IsVariableType(type) ==
  \/ type.form \in DOMAIN SizeOf
  \/ /\ type.form = "ARRAY" /\ type.elem \in DOMAIN SizeOf /\ type.static \in BOOLEAN
     /\ type.low \in Int /\ type.high \in Int
IsList(list) == Len(list) \in Nat /\ DOMAIN list = 1 .. Len(list)
AreVariables(vars) == IsList(vars) /\ \A i \in DOMAIN vars : IsVariableType(vars[i].type)

Expressions == {"ID", "INT", "BOOL", "REAL", "ARRAY", "BINARY", "UNARY"}
AreExpressions(ns, p) == \A i \in DOMAIN ns : p.nodes[ns[i]].tag \in Expressions

KidsOf(node) == {node.kids[i] : i \in DOMAIN node.kids}
Branching == {"MODULE", "FOR", "WHILE", "CASE", "SWITCH"} \* under these there are statements
Arity == [tag \in {"ASSIGN", "BINARY", "UNARY", "ARRAY", "PRINT"} |->
            IF tag \in {"ASSIGN", "BINARY"} THEN 2 ELSE 1]

NodeWellFormed(node, p) ==
  /\ node.kids \in Seq(DOMAIN p.nodes)
  /\ \A i \in DOMAIN node.kids : p.nodes[node.kids[i]].tag # "MODULE"
  /\ node.tag \in DOMAIN Arity => Len(node.kids) = Arity[node.tag]
  /\ node.tag \notin Branching => AreExpressions(node.kids, p)
  /\ node.tag = "WHILE"   => node.kids # << >> /\ p.nodes[Predicate(node)].tag \in Expressions
  /\ node.tag = "SWITCH"  => /\ node.default \in BOOLEAN /\ (node.default => node.kids # << >>)
                             /\ \A i \in DOMAIN node.kids : p.nodes[node.kids[i]].tag = "CASE"
  /\ node.tag = "USE"     => IsList(node.results)
  /\ node.tag = "MODULE"  => AreVariables(node.inputs) /\ AreVariables(node.returns)
  /\ node.tag = "DECLARE" => AreVariables(node.vars)

Heads(p) == {p.driver} \cup {p.modules[i] : i \in DOMAIN p.modules}
Hangs(n, p) == \E m \in DOMAIN p.nodes : m < n /\ n \in KidsOf(p.nodes[m])

WellFormed(p) ==
  /\ IsList(p.nodes) /\ p.lines \in [DOMAIN p.nodes -> Nat]
  /\ \A m, n \in DOMAIN p.nodes : m <= n => p.lines[m] <= p.lines[n]
  /\ p.modules \in Seq(DOMAIN p.nodes) /\ p.driver \in DOMAIN p.nodes
  /\ \A i \in DOMAIN p.modules : p.nodes[p.modules[i]].tag = "MODULE"
  /\ p.nodes[p.driver].tag = "MODULE" /\ p.nodes[p.driver].name = "DRIVER"
  /\ \A n \in DOMAIN p.nodes : NodeWellFormed(p.nodes[n], p) /\ (n \in Heads(p) \/ Hangs(n, p))

ASSUME ProgramsWellFormed == \A i \in DOMAIN Programs : WellFormed(Programs[i])
=============================================================================
