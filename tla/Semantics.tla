------------------------------ MODULE Semantics ------------------------------
(***************************************************************************)
(* perform_semantic_analysis() of semantic_analyzer.c: a second walk, the  *)
(* driver first, that gives every expression its type and compares types,  *)
(* cases, loops and calls with the rules of the language.  What it reports *)
(* joins the errors of the first walk; a program without any goes on to    *)
(* the code generator.                                                     *)
(***************************************************************************)
EXTENDS Scopes

VARIABLE
  result      \* per expression node, the type descriptor put into it

semanticsVars == <<scopeVars, result>>

Checks(nodes) == [i \in DOMAIN nodes |-> Item("check", nodes[i], GlobalTable, 0)]
Later(do, node) == <<Item(do, node, GlobalTable, 0)>>

Checking == phase = "semantics" /\ todo # << >>
CheckStep(do) == Checking /\ Work.do = do
CheckAt(tag) == CheckStep("check") /\ Node(Work.node).tag = tag
Here == Node(Work.node)

Yields(type) == result' = [result EXCEPT ![Work.node] = type]
ReportIf(wrong, what) == IF wrong THEN Report(what) ELSE UNCHANGED errors

(* Nodes of integer and boolean literals are made with their types; the    *)
(* others hold no type that means anything until they have been checked.   *)
(* That goes for operators in the predicate of a while loop for good.      *)
BornWith(tag) == CASE tag = "INT" -> Integer [] tag = "BOOL" -> Boolean [] OTHER -> Undefined

(* get_type_descriptor().                                                  *)
TypeOf(n) == IF Node(n).tag = "ID" THEN note[n].type ELSE result[n]

(* NODE_PROGRAM, once the tables are made.                                 *)
BeginSemantics ==
  /\ phase = "scopes" /\ todo = << >>
  /\ phase' = "semantics"
  /\ todo' = Checks(<<prog.driver>> \o prog.modules)
  /\ UNCHANGED <<prog, table, note, owned, errors, declared, result>>

(* NODE_MODULE: the statements, then the variables it returns.             *)
CheckModule ==
  /\ CheckAt("MODULE")
  /\ Call(Checks(Body(Here)) \o Later("returned", Work.node))
  /\ UNCHANGED <<phase, prog, table, note, owned, errors, declared, result>>

ScopeOf(n) == owned[n] + 1    \* function_entry_symbol_table->children[0]

CheckReturned ==
  /\ CheckStep("returned")
  /\ ReportIf(\E i \in DOMAIN Here.returns :
                ~Lookup(ScopeOf(Work.node), Here.returns[i].name).assigned, "never assigned")
  /\ Call(<< >>)
  /\ UNCHANGED <<phase, prog, table, note, owned, declared, result>>

(* Statements with nothing to check, and literals.                         *)
CheckNothing ==
  /\ CheckStep("check") /\ Here.tag \in {"DECLARE", "PRINT", "GET_VALUE", "ID"}
  /\ Call(<< >>)
  /\ UNCHANGED <<phase, prog, table, note, owned, errors, declared, result>>

CheckLiteral ==
  /\ CheckStep("check") /\ Here.tag \in {"INT", "BOOL", "REAL"}
  /\ Yields(CASE Here.tag = "INT" -> Integer [] Here.tag = "BOOL" -> Boolean [] OTHER -> Real)
  /\ Call(<< >>)
  /\ UNCHANGED <<phase, prog, table, note, owned, errors, declared>>

(* NODE_SWITCH: an identifier of another type ends the check there;        *)
(* otherwise the cases are compared with it, if it has a type, and walked, *)
(* and a default must be there exactly if it is not boolean.               *)
SwitchForm == note[Work.node].type.form
CasesOf(node) == IF node.default THEN SubSeq(node.kids, 1, Len(node.kids) - 1) ELSE node.kids

CheckSwitch ==
  /\ CheckAt("SWITCH")
  /\ IF SwitchForm \notin {"INTEGER", "BOOLEAN", "UNDEFINED"}
     THEN Report("switch type") /\ Call(<< >>)
     ELSE LET mismatched == SwitchForm # "UNDEFINED" /\
                \E i \in DOMAIN CasesOf(Here) :
                  ~Equivalent(Node(CasesOf(Here)[i]).type, note[Work.node].type) IN
            /\ errors' = errors
                 \cup (IF mismatched THEN {[what |-> "case type", node |-> Work.node]} ELSE {})
                 \cup (IF (SwitchForm = "BOOLEAN") = Here.default
                       THEN {[what |-> "default", node |-> Work.node]} ELSE {})
            /\ Call(Checks(Here.kids))
  /\ UNCHANGED <<phase, prog, table, note, owned, declared, result>>

(* NODE_CASE and NODE_WHILE_STATEMENT: the statements only.                *)
CheckBody ==
  /\ CheckStep("check") /\ Here.tag \in {"CASE", "WHILE"}
  /\ Call(Checks(Body(Here)))
  /\ UNCHANGED <<phase, prog, table, note, owned, errors, declared, result>>

(* NODE_FOR: the statements, then whether any of them has assigned to the  *)
(* counter.                                                                *)
CheckFor ==
  /\ CheckAt("FOR")
  /\ Call(Checks(Body(Here)) \o Later("counter", Work.node))
  /\ UNCHANGED <<phase, prog, table, note, owned, errors, declared, result>>

(* Mutant of CounterAssigned: the counter is looked for outside the loop.  *)
CounterAssignedOutside ==
  /\ Found(table[owned[Work.node]].parent, Here.name)
  /\ Lookup(table[owned[Work.node]].parent, Here.name).assigned

CounterAssigned == table[owned[Work.node]].entry[Here.name].assigned

CheckCounter ==
  /\ CheckStep("counter")
  /\ ReportIf(CounterAssigned, "counter assigned")
  /\ Call(<< >>)
  /\ UNCHANGED <<phase, prog, table, note, owned, declared, result>>

(* NODE_ARRAY: the element type, then the index; a literal out of a static *)
(* range is reported and takes the type from the name.  Of a name that is  *)
(* no array, the code takes for the element type what the descriptor has   *)
(* in its place, which may be anything.                                    *)
ElementForms(type) == IF type.form = "ARRAY" THEN {type.elem} ELSE Forms
OutOfBounds(type, index) ==
  /\ type.form = "ARRAY" /\ type.static
  /\ Node(index).tag = "INT" /\ Node(index).value \notin type.low .. type.high

CheckArray ==
  /\ CheckAt("ARRAY")
  /\ LET type  == note[Work.node].type
         index == Here.kids[1] IN
       IF type = Undefined
       THEN /\ Yields(Undefined)
            /\ Call(<< >>) /\ UNCHANGED <<note, errors>>
       ELSE /\ \E form \in ElementForms(type) : Yields(Scalar(form))
            /\ ReportIf(OutOfBounds(type, index), "out of bounds")
            /\ note' = IF OutOfBounds(type, index)
                       THEN [note EXCEPT ![Work.node].type = Undefined] ELSE note
            /\ Call(Checks(Here.kids))
  /\ UNCHANGED <<phase, prog, table, owned, declared>>

(* Mutant of CheckOperands: the type of the operation is worked out before *)
(* those of its operands.                                                  *)
CheckOperandsLast ==
  /\ CheckStep("check") /\ Here.tag \in {"BINARY", "UNARY"}
  /\ Call(Later("operator", Work.node) \o Checks(Here.kids))
  /\ UNCHANGED <<phase, prog, table, note, owned, errors, declared, result>>

(* Operators first have their operands checked.                            *)
CheckOperands ==
  /\ CheckStep("check") /\ Here.tag \in {"BINARY", "UNARY"}
  /\ Call(Checks(Here.kids) \o Later("operator", Work.node))
  /\ UNCHANGED <<phase, prog, table, note, owned, errors, declared, result>>

(* Mutant of BinaryType: a relation has the type of its operands.          *)
Numbers(l, r) == l = r /\ l \in {"INTEGER", "REAL"}
BinaryTypeOfOperands(op, l, r) ==
  CASE op \in {"AND", "OR"} /\ l = "BOOLEAN" /\ r = "BOOLEAN" -> Boolean
    [] op \notin {"AND", "OR"} /\ Numbers(l, r) -> Scalar(l)
    [] OTHER -> Error

(* The type of an operation on operands of the forms l and r, or Error.    *)
BinaryType(op, l, r) ==
  CASE op \in {"PLUS", "MINUS", "MUL"} /\ Numbers(l, r) -> Scalar(l)
    [] op = "DIV" /\ {l, r} \subseteq {"INTEGER", "REAL"} -> Real
    [] op \in {"LT", "GT", "LE", "GE", "EQ", "NE"} /\ Numbers(l, r) -> Boolean
    [] op \in {"AND", "OR"} /\ l = "BOOLEAN" /\ r = "BOOLEAN" -> Boolean
    [] OTHER -> Error

(* An operand that is wrong already makes the operation wrong without a    *)
(* second report.                                                          *)
CheckBinary ==
  /\ CheckStep("operator") /\ Here.tag = "BINARY"
  /\ LET l == TypeOf(Here.kids[1]).form
         r == TypeOf(Here.kids[2]).form
         known == {l, r} \cap {"ERROR", "UNDEFINED"} = {}
         type  == IF known THEN BinaryType(Here.op, l, r) ELSE Error IN
       /\ Yields(type)
       /\ ReportIf(known /\ type = Error, "operands")
  /\ Call(<< >>)
  /\ UNCHANGED <<phase, prog, table, note, owned, declared>>

CheckUnary ==
  /\ CheckStep("operator") /\ Here.tag = "UNARY"
  /\ Yields(TypeOf(Here.kids[1]))
  /\ Call(<< >>)
  /\ UNCHANGED <<phase, prog, table, note, owned, errors, declared>>

(* NODE_ASSIGNMENT_STATEMENT.                                              *)
CheckSides ==
  /\ CheckAt("ASSIGN")
  /\ Call(Checks(Here.kids) \o Later("assign", Work.node))
  /\ UNCHANGED <<phase, prog, table, note, owned, errors, declared, result>>

CheckAssign ==
  /\ CheckStep("assign")
  /\ LET l == TypeOf(Here.kids[1])
         r == TypeOf(Here.kids[2]) IN
       ReportIf(/\ l # Undefined /\ r \notin {Undefined, Error}
                /\ ~Equivalent(l, r), "assignment")
  /\ Call(<< >>)
  /\ UNCHANGED <<phase, prog, table, note, owned, declared, result>>

(* get_function_call_type(): the caller is the module whose table is the   *)
(* one below the global table on the way from the call.                    *)
CallersTable == CHOOSE t \in table[note[Work.node].table].chain : table[t].parent = GlobalTable
IsDeclared(name) == name \in DOMAIN table[NamesTable].entry
IsDefined(name)  == name \in DOMAIN table[GlobalTable].entry
Callee == table[GlobalTable].entry[Here.name]

(* Mutant of CallIs: a call before the definition passes undeclared.       *)
CallIsLenient ==
  CASE ~IsDefined(Here.name) -> "unknown"
    [] IsDefined(Here.name) /\ Callee.type.scope = CallersTable -> "recursive"
    [] OTHER -> "normal"

(* Two names on one line stand in no order for the code.                   *)
CallIs ==
  IF ~IsDefined(Here.name)
  THEN IF IsDeclared(Here.name) THEN "never defined" ELSE "unknown"
  ELSE IF Callee.type.scope = CallersTable THEN "recursive"
  ELSE IF prog.lines[Callee.node] > prog.lines[Work.node]
  THEN IF IsDeclared(Here.name) THEN "normal" ELSE "defined later"
  ELSE IF IsDeclared(Here.name) THEN "declared and defined" ELSE "normal"

(* handle_parameter_list() and handle_return_list(): the two lists differ  *)
(* in length, or a name is undeclared, or its type is not the callee's.    *)
ListFaults(given, expected, list) ==
  IF Len(given) # Len(expected) THEN {"number of " \o list}
  ELSE {"undeclared in call" : i \in {i \in DOMAIN given : given[i] = Undefined}}
       \cup {list : i \in {i \in DOMAIN given : given[i] # Undefined /\ ~Equivalent(given[i], expected[i])}}

(* handle_function_call(): any call that is not normal is reported, and    *)
(* nothing more is looked at.                                              *)
CallFaults == IF CallIs = "normal" THEN {} ELSE {CallIs}

CheckUse ==
  /\ CheckAt("USE")
  /\ LET given  == note[Work.node].type
         faults == IF CallFaults # {} THEN CallFaults
                   ELSE ListFaults(given.inputs, Callee.type.inputs, "parameters")
                        \cup ListFaults(given.returns, Callee.type.returns, "returns") IN
       errors' = errors \cup {[what |-> f, node |-> Work.node] : f \in faults}
  /\ Call(<< >>)
  /\ UNCHANGED <<phase, prog, table, note, owned, declared, result>>

SemanticsNext ==
  \/ BeginSemantics \/ CheckModule \/ CheckReturned \/ CheckNothing \/ CheckLiteral
  \/ CheckSwitch \/ CheckBody \/ CheckFor \/ CheckCounter \/ CheckArray
  \/ CheckOperands \/ CheckBinary \/ CheckUnary \/ CheckSides \/ CheckAssign \/ CheckUse
=============================================================================
