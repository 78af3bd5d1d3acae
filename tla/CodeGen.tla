------------------------------- MODULE CodeGen -------------------------------
(***************************************************************************)
(* generate_code_from() of code_generator.c: the third walk, which prints  *)
(* the program in NASM.  Instructions are kept as records, one for each    *)
(* line or for a few lines that always stand together; what is printed for *)
(* the eye (prompts, echoes, comments) is left out.                        *)
(*                                                                         *)
(* A frame is addressed from rbp: the bytes of a variable or a temporary   *)
(* are those from rbp - offset up.  Temporaries are taken after the        *)
(* variables of the scope whose statement needs them, and rsp is moved by  *)
(* the code itself as they come up.                                        *)
(***************************************************************************)
EXTENDS Semantics, SequencesExt

CONSTANT
  NumberSpelt \* the numbers of the names that read like a label the
              \* generator makes: of label7, the number 7

VARIABLES
  code,       \* the instructions printed
  temps,      \* per table, the bytes of the temporaries made in it
  place,      \* per expression node, the offset its value is stored at
  labels      \* the number of labels made, the static counter

codeVars == <<code, temps, place, labels>>
treeVars == <<phase, prog, table, note, owned, errors, declared, result>>

(* Instructions.                                                           *)
Move(n)               == [op |-> "move", by |-> n]              \* add or sub rsp, n
Copy(to, from)        == [op |-> "copy", reg |-> to, from |-> from]
Align                 == [op |-> "align"]                       \* and rsp, -16
Push(regs)            == [op |-> "push", regs |-> regs]
Pop(regs)             == [op |-> "pop", regs |-> regs]
Load(reg, off, size)  == [op |-> "load", reg |-> reg, off |-> off, size |-> size]
Store(off, size, reg) == [op |-> "store", off |-> off, size |-> size, reg |-> reg]
Put(off, size, v)     == [op |-> "put", off |-> off, size |-> size, value |-> v]
LoadBy(reg, by)       == [op |-> "load by", reg |-> reg, by |-> by]    \* word[rbp - by]
StoreBy(by, reg)      == [op |-> "store by", reg |-> reg, by |-> by]
PutBy(by, v)          == [op |-> "put by", by |-> by, value |-> v]
Set(reg, v)           == [op |-> "set", reg |-> reg, value |-> v]
Alu(fn, reg, from)    == [op |-> "alu", fn |-> fn, reg |-> reg, from |-> from]
Compare(reg, from)    == [op |-> "compare", reg |-> reg, from |-> from]
CompareWith(reg, v)   == [op |-> "compare with", reg |-> reg, value |-> v]
Label(l)              == [op |-> "label", label |-> l]
Jump(on, l)           == [op |-> "jump", on |-> on, label |-> l]
CallOf(l)             == [op |-> "call", label |-> l]
Ret                   == [op |-> "ret"]
PrintReg(form, reg)   == [op |-> "print", form |-> form, reg |-> reg]
Scan(off, size)       == [op |-> "scan", off |-> off, size |-> size]
Exit                  == [op |-> "exit"]

(* generate_assembly_label() prints the word label and a number into a     *)
(* string of LABEL_LENGTH_MAX characters, which keeps four digits of it.   *)
(* Other labels are names, and a name may read like one of these.  (The    *)
(* assembler has words of its own, of registers and instructions, that are *)
(* no labels at all: they are left out.)                                   *)
LabelsMax == 10000
FourDigits[k \in Nat] == IF k < LabelsMax THEN k ELSE FourDigits[k \div 10]
Numbered(k) == <<"label", IF k < LabelsMax THEN k ELSE FourDigits[k]>>
Named(name) == IF name \in DOMAIN NumberSpelt THEN <<"label", NumberSpelt[name]>> ELSE <<name, -1>>

(* A number printed into a string of MAX_OFFSET_STRING_LENGTH or           *)
(* MAX_SIZE_STRING_LENGTH characters keeps its first three digits.         *)
Printed(n) == IF n < 1000 THEN n ELSE IF n < 10000 THEN n \div 10 ELSE n \div 100

ArgumentRegister == <<"rdi", "rsi", "rdx", "rcx", "r8", "r9">>
ReturnRegister   == <<"rax", "r10", "r12", "r13", "r14", "r15">>
Saved == <<"rbp", "r10", "r11", "rdi", "rsi", "rdx", "rcx", "r8", "r9">>

Gens(nodes, t) == [i \in DOMAIN nodes |-> Item("gen", nodes[i], t, 0)]
After(do, nth) == <<Item(do, Work.node, Work.table, nth)>>

Generating == phase = "generate" /\ todo # << >>
GenStep(do) == Generating /\ Work.do = do
GenAt(tag) == GenStep("gen") /\ Here.tag = tag
Emit(instructions) == code' = code \o instructions

IsLiteral(n) == Node(n).tag \in {"INT", "BOOL"}
(* get_offset_from_node().                                                 *)
OffsetOf(n) == IF Node(n).tag = "ID" THEN note[n].offset ELSE place[n]

(* A temporary of `size' bytes in the scope of the statement, the place of *)
(* the value of the node.                                                  *)
NextOffset(size) == table[Work.table].offset + temps[Work.table] + size
Take(size) ==
  /\ temps' = [temps EXCEPT ![Work.table] = @ + size]
  /\ place' = [place EXCEPT ![Work.node] = NextOffset(size)]
SpaceOf(t) == table[t].size + temps[t]

(* Names the data section and the library code give to what they hold; of  *)
(* both only these names are kept.                                         *)
LibraryNames ==
  <<"int_message", "int_input_format", "int_output_format_same_line", "new_line_character_string",
    "int_output_format", "array_index_out_of_bounds_message", "simple_int_output_format",
    "simple_bool_output_format", "simple_string_output_format", "simple_real_output_format",
    "bool_message", "bool_input_format", "bool_output_format", "bool_true", "bool_false",
    "array_message", "_print_message", "_print_integer_id", "_print_boolean_id", "printFalse">>
StartNames == {"_main", "exit", "exit_array_error"}
Reserved == StartNames \cup {LibraryNames[i] : i \in DOMAIN LibraryNames}

ASSUME NumbersSpelt ==
  /\ DOMAIN NumberSpelt \cap (Reserved \cup {"DRIVER"}) = {}
  /\ \A name \in DOMAIN NumberSpelt : NumberSpelt[name] \in Nat

(* generate_text_section(), with which a program starts, then the library. *)
TextSection ==
  <<Label(Named("_main")), CallOf(Named("DRIVER")), Label(Named("exit")), Exit>>
  \o <<Label(Named("exit_array_error")), PrintReg("BOUNDS", "rax"), Exit>>
Prelude == TextSection \o [i \in DOMAIN LibraryNames |-> Label(Named(LibraryNames[i]))]

(* handle_code_generation_request() and NODE_PROGRAM: code is made only if *)
(* the flag of report_error() is down; the library code comes first.       *)
BeginGenerate ==
  /\ phase = "semantics" /\ todo = << >>
  /\ IF prog.request = "code" /\ errors = {}
     THEN /\ phase' = "generate" /\ Emit(Prelude)
          /\ todo' = Gens(<<prog.driver>> \o prog.modules, GlobalTable)
     ELSE /\ phase' = IF errors = {} THEN "accepted" ELSE "rejected"
          /\ UNCHANGED <<code, todo>>
  /\ temps' = [t \in DOMAIN table |-> 0]
  /\ UNCHANGED <<prog, table, note, owned, errors, declared, result, place, labels>>

-----------------------------------------------------------------------------
(* Expressions.                                                            *)

(* NODE_INTEGER_LITERAL: stored in a temporary too.                        *)
GenLiteral ==
  /\ GenAt("INT")
  /\ Emit(<<Move(-2), Set("r8", Here.value), Store(NextOffset(2), 2, "r8")>>)
  /\ Take(2)
  /\ Call(<< >>)
  /\ UNCHANGED <<treeVars, labels>>

(* Nodes that print nothing.                                               *)
GenNothing ==
  /\ GenStep("gen") /\ Here.tag \in {"BOOL", "REAL", "ID", "DECLARE"}
  /\ Call(<< >>)
  /\ UNCHANGED <<treeVars, codeVars>>

(* put_how_much_to_subtract_from_rbp_for_array_in_r8(), its index already  *)
(* generated: the array is looked up again, by its name.                   *)
ElementBase(e) == e.offset - e.width + 1
AddressInR8(array) ==
  LET index == Node(array).kids[1]
      e     == Lookup(Work.table, Node(array).name) IN
  << IF Node(index).tag = "INT" THEN Set("r8", Node(index).value)
     ELSE Load("r8", OffsetOf(index), 2),
     CompareWith("r8", e.type.low),  Jump("l", Named("exit_array_error")),
     CompareWith("r8", e.type.high), Jump("g", Named("exit_array_error")),
     [op |-> "scale", low |-> e.type.low, base |-> ElementBase(e)] >>

GenArray ==
  /\ GenAt("ARRAY")
  /\ Call(Gens(Here.kids, Work.table) \o After("element", 0))
  /\ UNCHANGED <<treeVars, codeVars>>

GenElement ==
  /\ GenStep("element")
  /\ Emit(AddressInR8(Work.node)
          \o <<Move(-2), LoadBy("r11", "r8"), Store(NextOffset(2), 2, "r11")>>)
  /\ Take(2)
  /\ Call(<< >>)
  /\ UNCHANGED <<treeVars, labels>>

GenOperands ==
  /\ GenStep("gen") /\ Here.tag \in {"BINARY", "UNARY"}
  /\ Call(Gens(Here.kids, Work.table) \o After("operator", 0))
  /\ UNCHANGED <<treeVars, codeVars>>

(* The operands of one form, in registers; a literal is loaded as it       *)
(* stands, and nothing is printed for an operand of another form.          *)
Operand(n, reg, form) ==
  IF TypeOf(n).form # form THEN << >>
  ELSE IF IsLiteral(n) THEN <<Set(reg, Node(n).value)>>
  ELSE <<Load(reg, Printed(OffsetOf(n)), SizeOf[form])>>
Operands(form) == Operand(Here.kids[1], "r8", form) \o Operand(Here.kids[2], "r9", form)

(* Mutant of Arithmetic: the difference is taken the other way round.      *)
ArithmeticSwapped(op) ==
  CASE op = "PLUS" -> <<Alu("add", "r9", "r8")>>
    [] op = "MUL"  -> <<Alu("imul", "r9", "r8")>>
    [] OTHER       -> <<Alu("sub", "r9", "r8")>>

Arithmetic(op) ==
  CASE op = "PLUS" -> <<Alu("add", "r9", "r8")>>
    [] op = "MUL"  -> <<Alu("imul", "r9", "r8")>>
    [] OTHER       -> <<Alu("sub", "r8", "r9"), Copy("r9", "r8")>>

(* Only an integer gets a temporary.  For a division and for an            *)
(* inequality nothing is printed after the operands.                       *)
GenArithmetic ==
  /\ GenStep("operator") /\ Here.tag = "BINARY" /\ Here.op \in {"PLUS", "MINUS", "MUL"}
  /\ IF result[Work.node].form = "INTEGER"
     THEN /\ Emit(Operands("INTEGER") \o Arithmetic(Here.op) \o <<Move(-2), Store(NextOffset(2), 2, "r9")>>)
          /\ Take(2)
     ELSE Emit(Operands("INTEGER") \o Arithmetic(Here.op)) /\ UNCHANGED <<temps, place>>
  /\ Call(<< >>)
  /\ UNCHANGED <<treeVars, labels>>

GenOperandsOnly ==
  /\ GenStep("operator") /\ Here.tag = "BINARY" /\ Here.op \in {"DIV", "NE"}
  /\ Emit(Operands("INTEGER"))
  /\ Call(<< >>)
  /\ UNCHANGED <<treeVars, temps, place, labels>>

(* The result of a relation: 1 after a jump, 0 without it.                 *)
Condition == [EQ |-> "z", GT |-> "g", GE |-> "ge", LT |-> "l", LE |-> "le"]
Choice(onYes, offset) ==
  <<Jump(onYes, Numbered(labels)), Put(offset, 1, 0), Jump("always", Numbered(labels + 1)),
    Label(Numbered(labels)), Put(offset, 1, 1), Label(Numbered(labels + 1))>>

(* Mutant of GenRelation: the counter goes on by one label.                *)
RelationCountsOneLabel ==
  /\ GenStep("operator") /\ Here.tag = "BINARY" /\ Here.op \in DOMAIN Condition
  /\ Emit(Operands("INTEGER") \o <<Move(-1), Compare("r8", "r9")>>
          \o Choice(Condition[Here.op], NextOffset(1)))
  /\ Take(1)
  /\ labels' = labels + 1
  /\ Call(<< >>)
  /\ UNCHANGED treeVars

GenRelation ==
  /\ GenStep("operator") /\ Here.tag = "BINARY" /\ Here.op \in DOMAIN Condition
  /\ Emit(Operands("INTEGER") \o <<Move(-1), Compare("r8", "r9")>>
          \o Choice(Condition[Here.op], NextOffset(1)))
  /\ Take(1)
  /\ labels' = labels + 2
  /\ Call(<< >>)
  /\ UNCHANGED treeVars

(* AND and OR evaluate both operands; the second label is that of the end. *)
Logic(op, offset) ==
  LET no == Numbered(labels) end == Numbered(labels + 1) IN
  (IF op = "AND"
   THEN <<CompareWith("r8", 0), Jump("z", no), CompareWith("r9", 0), Jump("z", no)>>
   ELSE <<Alu("or", "r8", "r9"), Jump("z", no)>>)
  \o <<Put(offset, 1, 1), Jump("always", end), Label(no), Put(offset, 1, 0), Label(end)>>

AreBooleans == \A i \in 1 .. 2 : TypeOf(Here.kids[i]).form = "BOOLEAN"

GenLogic ==
  /\ GenStep("operator") /\ Here.tag = "BINARY" /\ Here.op \in {"AND", "OR"}
  /\ Emit(Operands("INTEGER") \o <<Move(-1)>> \o (IF AreBooleans THEN Operands("BOOLEAN") ELSE << >>)
          \o Logic(Here.op, NextOffset(1)))
  /\ Take(1)
  /\ labels' = labels + 2
  /\ Call(<< >>)
  /\ UNCHANGED treeVars

(* NODE_UNARY_OPERATOR: a sign on anything but an integer prints nothing.  *)
GenUnary ==
  /\ GenStep("operator") /\ Here.tag = "UNARY"
  /\ IF Here.op = "PLUS"
     THEN /\ place' = [place EXCEPT ![Work.node] = OffsetOf(Here.kids[1])]
          /\ UNCHANGED <<code, temps>>
     ELSE IF result[Work.node].form = "INTEGER"
     THEN /\ Emit(<<Load("r8", OffsetOf(Here.kids[1]), 2), Alu("neg", "r8", "r8"),
                    Move(-2), Store(NextOffset(2), 2, "r8")>>)
          /\ Take(2)
     ELSE UNCHANGED <<code, temps, place>>
  /\ Call(<< >>)
  /\ UNCHANGED <<treeVars, labels>>

-----------------------------------------------------------------------------
(* Statements.                                                             *)

(* NODE_ASSIGNMENT_STATEMENT: for an element, the index is generated once  *)
(* by itself and once for the address.                                     *)
GenAssign ==
  /\ GenAt("ASSIGN")
  /\ LET left == Node(Here.kids[1])
         index == IF left.tag = "ARRAY" THEN Gens(left.kids, Work.table) ELSE << >> IN
       Call(Gens(<<Here.kids[2]>>, Work.table) \o index \o index \o After("assign", 0))
  /\ UNCHANGED <<treeVars, codeVars>>

(* A boolean literal goes to the offset in the node of the left side, even *)
(* if that is an element; of other right sides only integers are stored,   *)
(* and booleans in a variable.                                             *)
StoreLiteral(left, right) ==
  IF Node(right).tag = "BOOL" THEN <<Put(OffsetOf(left), 1, Node(right).value)>>
  ELSE IF Node(left).tag = "ARRAY" THEN <<PutBy("r8", Node(right).value)>>
  ELSE <<Put(OffsetOf(left), 2, Node(right).value)>>
StoreValue(left, right) ==
  LET form == TypeOf(right).form IN
  CASE Node(left).tag = "ARRAY" /\ form = "INTEGER" ->
         <<Load("r12", Printed(OffsetOf(right)), 2), StoreBy("r8", "r12")>>
    [] Node(left).tag # "ARRAY" /\ form \in {"INTEGER", "BOOLEAN"} ->
         <<Load("r8", Printed(OffsetOf(right)), SizeOf[form]),
           Store(Printed(OffsetOf(left)), SizeOf[form], "r8")>>
    [] OTHER -> << >>

GenStore ==
  /\ GenStep("assign")
  /\ LET left == Here.kids[1] right == Here.kids[2] IN
       Emit((IF Node(left).tag = "ARRAY" THEN AddressInR8(left) ELSE << >>)
            \o IF IsLiteral(right) THEN StoreLiteral(left, right) ELSE StoreValue(left, right))
  /\ Call(<< >>)
  /\ UNCHANGED <<treeVars, temps, place, labels>>

(* A call of the C library: the stack is aligned around it.                *)
Aligned(instructions) == <<Copy("rbx", "rsp"), Align>> \o instructions \o <<Copy("rsp", "rbx")>>
(* The places of the elements of the entry e, as many as the range of the  *)
(* type has.                                                               *)
ElementsOf(e, type) ==
  [i \in 1 .. Extent(type.low, type.high) |-> ElementBase(e) + SizeOf["INTEGER"] * i]

(* NODE_GET_VALUE: an array of integers is read element by element; a real *)
(* gets no more than the alignment of a call.  For an array whose name has *)
(* been declared anew since as something else the code reads bounds that   *)
(* were never set; the model prints nothing.                               *)
GenGetValue ==
  /\ GenAt("GET_VALUE")
  /\ LET type == note[Work.node].type
         e    == Lookup(note[Work.node].table, Here.name) IN
       Emit(CASE type.form \in {"INTEGER", "BOOLEAN"} -> Aligned(<<Scan(e.offset, SizeOf[type.form])>>)
              [] type.form = "REAL" -> Aligned(<< >>)
              [] type.form = "ARRAY" /\ e.type.form = "ARRAY" /\ e.type.elem = "INTEGER" ->
                   FlattenSeq([i \in DOMAIN ElementsOf(e, e.type) |->
                     Aligned(<<Scan(ElementsOf(e, e.type)[i], 2)>>)])
              [] OTHER -> << >>)
  /\ Call(<< >>)
  /\ UNCHANGED <<treeVars, temps, place, labels>>

(* NODE_PRINT_STATEMENT: literals, variables and the elements of an array  *)
(* of integers, between a push and a pop of the caller's registers.  The   *)
(* array is looked up again, its range taken from the node.                *)
Shown(n) ==
  LET type == note[n].type
      e    == Lookup(Work.table, Node(n).name) IN
  CASE Node(n).tag = "INT"  -> Aligned(<<Set("rsi", Node(n).value), PrintReg("INTEGER", "rsi")>>)
    [] Node(n).tag = "BOOL" -> Aligned(<<Set("rsi", Node(n).value), PrintReg("BOOLEAN", "rsi")>>)
    [] Node(n).tag = "ID" /\ type.form \in {"INTEGER", "BOOLEAN"} ->
         Aligned(<<Load("rax", Printed(note[n].offset), SizeOf[type.form]),
                   PrintReg(type.form, "rax")>>)
    [] Node(n).tag = "ID" /\ type.form = "ARRAY" /\ type.elem = "INTEGER" ->
         FlattenSeq([i \in DOMAIN ElementsOf(e, type) |->
           Aligned(<<Load("rsi", ElementsOf(e, type)[i], 2), PrintReg("INTEGER", "rsi")>>)])
    [] OTHER -> << >>

GenPrint ==
  /\ GenAt("PRINT")
  /\ Emit(<<Push(Saved)>> \o Shown(Here.kids[1]) \o <<Pop(Reverse(Saved))>>)
  /\ Call(<< >>)
  /\ UNCHANGED <<treeVars, temps, place, labels>>

(* NODE_CASE: the space of the scope is given back with its temporaries.   *)
GenCase ==
  /\ GenAt("CASE")
  /\ Emit(<<Move(-SpaceOf(owned[Work.node]))>>)
  /\ Call(Gens(Body(Here), owned[Work.node]) \o After("leave case", 0))
  /\ UNCHANGED <<treeVars, temps, place, labels>>

(* Mutant of LeaveCase: the temporaries stay.                              *)
LeaveCaseDeclared ==
  /\ GenStep("leave case")
  /\ Emit(<<Move(table[owned[Work.node]].size)>>)
  /\ Call(<< >>)
  /\ UNCHANGED <<treeVars, temps, place, labels>>

LeaveCase ==
  /\ GenStep("leave case")
  /\ Emit(<<Move(SpaceOf(owned[Work.node]))>>)
  /\ Call(<< >>)
  /\ UNCHANGED <<treeVars, temps, place, labels>>

(* NODE_SWITCH: the cases with a label each, the default, and last the     *)
(* tests that jump to them.  A boolean switch has no default and goes on   *)
(* behind the tests.                                                       *)
LabelAfter(first, k) == Numbered(first + Len(CasesOf(Here)) + k)
DefaultLabel(first)  == LabelAfter(first, 0)
TestLabel(first)     == LabelAfter(first, 1)
EndLabel(first)      == LabelAfter(first, 2)

Arm(n, k) == <<Item("label", Work.node, Work.table, k)>> \o Gens(<<n>>, Work.table)
             \o After("end arm", labels)

GenSwitch ==
  /\ GenAt("SWITCH")
  /\ LET form == note[Work.node].type.form
         arms == IF form = "INTEGER" THEN Here.kids ELSE CasesOf(Here) IN
       /\ Emit(<<Load("r8", note[Work.node].offset, SizeOf[form])>>
               \o (IF form = "INTEGER" THEN << >>
                   ELSE <<CompareWith("r8", 0), Jump("z", LabelAfter(labels, 3)),
                          Set("r8", 1), Label(LabelAfter(labels, 3))>>)
               \o <<Jump("always", TestLabel(labels))>>)
       /\ Call(FlattenSeq([i \in DOMAIN arms |-> Arm(arms[i], labels + i - 1)])
               \o After("tests", labels))
  /\ labels' = labels + Len(CasesOf(Here)) + (IF note[Work.node].type = Integer THEN 3 ELSE 4)
  /\ UNCHANGED <<treeVars, temps, place>>

StartArm ==
  /\ GenStep("label")
  /\ Emit(<<Label(Numbered(Work.nth))>>)
  /\ Call(<< >>)
  /\ UNCHANGED <<treeVars, temps, place, labels>>

EndArm ==
  /\ GenStep("end arm")
  /\ Emit(<<Jump("always", EndLabel(Work.nth))>>)
  /\ Call(<< >>)
  /\ UNCHANGED <<treeVars, temps, place, labels>>

GenTests ==
  /\ GenStep("tests")
  /\ LET cases == CasesOf(Here) first == Work.nth IN
       Emit(<<Label(TestLabel(first))>>
            \o FlattenSeq([i \in DOMAIN cases |->
                 <<CompareWith("r8", Node(cases[i]).value), Jump("z", Numbered(first + i - 1))>>])
            \o (IF Here.default THEN <<Jump("always", DefaultLabel(first))>> ELSE << >>)
            \o <<Label(EndLabel(first))>>)
  /\ Call(<< >>)
  /\ UNCHANGED <<treeVars, temps, place, labels>>

(* NODE_FOR: the counter is counted in memory up to the end, and the space *)
(* of the temporaries of all turns is given back at once.                  *)
CounterOffset == table[owned[Work.node]].entry[Here.name].offset

GenFor ==
  /\ GenAt("FOR")
  /\ Emit(<<Move(-SpaceOf(owned[Work.node])), Put(CounterOffset, 2, Here.low),
            Label(Numbered(labels)),
            [op |-> "compare word", off |-> CounterOffset, value |-> Here.high + 1],
            Jump("z", Numbered(labels + 1))>>)
  /\ labels' = labels + 2
  /\ Call(Gens(Body(Here), owned[Work.node]) \o After("leave for", labels))
  /\ UNCHANGED <<treeVars, temps, place>>

LeaveFor ==
  /\ GenStep("leave for")
  /\ LET t == owned[Work.node] IN
       Emit(<<[op |-> "increment", off |-> CounterOffset],
              Jump("always", Numbered(Work.nth)), Label(Numbered(Work.nth + 1)),
              Move(table[t].size + temps[t] * Extent(Here.low, Here.high))>>)
  /\ Call(<< >>)
  /\ UNCHANGED <<treeVars, temps, place, labels>>

(* NODE_WHILE_STATEMENT: every turn takes the space anew, and rsp comes    *)
(* back from rcx at the end.  Only a binary operator gets a body.          *)
GenWhile ==
  /\ GenAt("WHILE")
  /\ Emit(<<Copy("rcx", "rsp"), Label(Numbered(labels)), Move(-SpaceOf(owned[Work.node]))>>)
  /\ labels' = labels + 2
  /\ Call(Gens(<<Predicate(Here)>>, owned[Work.node]) \o After("while test", labels))
  /\ UNCHANGED <<treeVars, temps, place>>

GenWhileTest ==
  /\ GenStep("while test")
  /\ IF Node(Predicate(Here)).tag = "BINARY"
     THEN /\ Emit(<<Load("r11", place[Predicate(Here)], 1), CompareWith("r11", 0),
                    Jump("z", Numbered(Work.nth + 1))>>)
          /\ Call(Gens(Body(Here), owned[Work.node]) \o After("leave while", Work.nth))
     ELSE Call(<< >>) /\ UNCHANGED code
  /\ UNCHANGED <<treeVars, temps, place, labels>>

LeaveWhile ==
  /\ GenStep("leave while")
  /\ Emit(<<Jump("always", Numbered(Work.nth)), Label(Numbered(Work.nth + 1)), Copy("rsp", "rcx")>>)
  /\ Call(<< >>)
  /\ UNCHANGED <<treeVars, temps, place, labels>>

(* NODE_MODULE_USE_STATEMENT: names are looked up again.  An element of an *)
(* array passes nothing.                                                   *)
HasBytes(type) == type.form \in {"INTEGER", "BOOLEAN"}
Argument(n, reg) ==
  CASE Node(n).tag = "ID" ->
         LET e == Lookup(Work.table, Node(n).name) IN
         IF HasBytes(e.type) THEN <<Load(reg, e.offset, SizeOf[e.type.form])>> ELSE << >>
    [] IsLiteral(n) -> <<Set(reg, Node(n).value)>>
    [] OTHER -> << >>
Received(name, reg) ==
  LET e == Lookup(Work.table, name) IN
  IF HasBytes(e.type) THEN <<Store(e.offset, SizeOf[e.type.form], reg)>> ELSE << >>

GenUse ==
  /\ GenAt("USE")
  /\ Emit(<<Push(Saved)>>
          \o FlattenSeq([i \in DOMAIN Here.kids |-> Argument(Here.kids[i], ArgumentRegister[i])])
          \o <<CallOf(Named(Here.name)), Pop(Reverse(Saved))>>
          \o FlattenSeq([i \in DOMAIN Here.results |-> Received(Here.results[i], ReturnRegister[i])]))
  /\ Call(<< >>)
  /\ UNCHANGED <<treeVars, temps, place, labels>>

(* NODE_MODULE: the frame, the arguments into their variables, the         *)
(* statements, the returned variables into registers.                      *)
FrameSize(n) == Printed(SpaceOf(owned[n]) + SpaceOf(ScopeOf(n)))
EntryIn(t, var) == table[t].entry[var.name]
Results == FlattenSeq([i \in DOMAIN Here.returns |->
  LET e == EntryIn(ScopeOf(Work.node), Here.returns[i]) IN
  IF HasBytes(e.type) THEN <<Load(ReturnRegister[i], e.offset, SizeOf[e.type.form])>> ELSE << >>])

GenModule ==
  /\ GenAt("MODULE")
  /\ Emit(<<Label(Named(Here.name)), Push(<<"rbp">>), Copy("rbp", "rsp"), Move(-FrameSize(Work.node))>>
          \o FlattenSeq([i \in DOMAIN Here.inputs |->
               LET e == EntryIn(owned[Work.node], Here.inputs[i]) IN
               IF HasBytes(e.type) THEN <<Store(e.offset, SizeOf[e.type.form], ArgumentRegister[i])>>
               ELSE << >>]))
  /\ Call(Gens(Body(Here), ScopeOf(Work.node)) \o After("leave module", 0))
  /\ UNCHANGED <<treeVars, temps, place, labels>>

(* Mutant of LeaveModule: the code runs on into what comes next.           *)
LeaveWithoutReturn ==
  /\ GenStep("leave module")
  /\ Emit(Results \o <<Move(FrameSize(Work.node)), Pop(<<"rbp">>)>>)
  /\ Call(<< >>)
  /\ UNCHANGED <<treeVars, temps, place, labels>>

LeaveModule ==
  /\ GenStep("leave module")
  /\ Emit(Results \o <<Move(FrameSize(Work.node)), Pop(<<"rbp">>), Ret>>)
  /\ Call(<< >>)
  /\ UNCHANGED <<treeVars, temps, place, labels>>

CodeGenNext ==
  \/ BeginGenerate \/ GenLiteral \/ GenNothing \/ GenArray \/ GenElement
  \/ GenOperands \/ GenOperandsOnly \/ GenArithmetic \/ GenRelation \/ GenLogic \/ GenUnary
  \/ GenAssign \/ GenStore \/ GenGetValue \/ GenPrint
  \/ GenCase \/ LeaveCase \/ GenSwitch \/ StartArm \/ EndArm \/ GenTests
  \/ GenFor \/ LeaveFor \/ GenWhile \/ GenWhileTest \/ LeaveWhile
  \/ GenUse \/ GenModule \/ LeaveModule

-----------------------------------------------------------------------------
(* The assembler takes the program: every label stands once, although the  *)
(* counter that names them is advanced in many places, and every jump and  *)
(* call has one to go to, although modules may be called before they are   *)
(* generated.                                                              *)
Assembles ==
  (phase = "generate" /\ todo = << >>) =>
    /\ \A i, j \in DOMAIN code : i # j /\ code[i].op = "label" => code[i] # code[j]
    /\ \A i \in DOMAIN code : code[i].op \in {"jump", "call"} =>
         \E j \in DOMAIN code : code[j] = Label(code[i].label)
=============================================================================
