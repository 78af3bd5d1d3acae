------------------------------- MODULE Compiler -------------------------------
(***************************************************************************)
(* The compiler behind the parser, and the run of what it prints: the      *)
(* drivers (main.c, main2.c) call the three walks one after the other, and *)
(* the user assembles and starts the program.                              *)
(***************************************************************************)
EXTENDS Machine

vars == <<compilerVars, machineVars>>

Init ==
  /\ ScopesInit
  /\ result = [n \in AllNodes |-> BornWith(Node(n).tag)]
  /\ code = << >> /\ temps = << >> /\ labels = 0
  /\ place = [n \in AllNodes |-> 0]
  /\ MachineInit

(* A compilation that has ended, and a run that has.                       *)
Over == phase \in {"accepted", "rejected", "done", "wild"}
Ended == Over /\ UNCHANGED vars

Next ==
  \/ ScopesNext /\ UNCHANGED <<result, codeVars, machineVars>>
  \/ SemanticsNext /\ UNCHANGED <<codeVars, machineVars>>
  \/ CodeGenNext /\ UNCHANGED machineVars
  \/ MachineNext
  \/ Ended

(* The program is sequential: as long as there is a step, it is taken.     *)
(* This is weak fairness of Next, with Over for where a step that changes  *)
(* something is not enabled, which is what the check for deadlock shows.   *)
Fairness == []<>Over \/ []<><<Next>>_vars

Spec == Init /\ [][Next]_vars /\ Fairness

-----------------------------------------------------------------------------
Phases == {"scopes", "semantics", "accepted", "rejected", "generate", "run", "done", "wild"}

CompilerTypeOK ==
  /\ ScopesTypeOK
  /\ phase \in Phases
  /\ \A n \in AllNodes : result[n].form \in Forms
  /\ temps = << >> \/ DOMAIN temps = DOMAIN table
  /\ \A n \in AllNodes : place[n] \in Int
  /\ labels \in Nat
  /\ DOMAIN regs = Registers /\ \A r \in Registers : regs[r] \in Int
  /\ \A a \in DOMAIN mem : mem[a].size \in {1, 2, 4, 8} /\ mem[a].value \in Int

(* What is accepted has been checked: no rule has been passed over, put    *)
(* off for good or judged by types that were not there yet, although the   *)
(* walk looks at operands, counters and returned variables only when it    *)
(* comes back to them, and an operation on something wrong is wrong        *)
(* without a report.  Both sides of every assignment have types, and they  *)
(* fit; so do those of every operation that has been given one; switches   *)
(* and calls are as the language asks; counters stay and results are set.  *)
Known(type) == type.form \notin {"UNDEFINED", "ERROR"}
LeftType(n)  == TypeOf(Node(n).kids[1])
RightType(n) == TypeOf(Node(n).kids[2])

AssignmentFits(n) == Known(LeftType(n)) /\ Known(RightType(n)) /\ Equivalent(LeftType(n), RightType(n))
OperationFits(n) ==
  /\ Known(LeftType(n)) /\ Known(RightType(n)) /\ Known(result[n])
  /\ result[n] = BinaryType(Node(n).op, LeftType(n).form, RightType(n).form)
SwitchFits(n) ==
  /\ note[n].type.form \in {"INTEGER", "BOOLEAN"}
  /\ Node(n).default <=> note[n].type.form = "INTEGER"
  /\ \A i \in DOMAIN CasesOf(Node(n)) : Equivalent(Node(CasesOf(Node(n))[i]).type, note[n].type)
CounterStays(n) == ~table[owned[n]].entry[Node(n).name].assigned
ResultsSet(n) == \A i \in DOMAIN Node(n).returns : Lookup(ScopeOf(n), Node(n).returns[i].name).assigned
ListFits(actual, expected) ==
  /\ Len(actual) = Len(expected)
  /\ \A i \in DOMAIN actual : actual[i] # Undefined /\ Equivalent(actual[i], expected[i])
CallFits(n) ==
  /\ Node(n).name \in DOMAIN table[GlobalTable].entry
  /\ LET callee == table[GlobalTable].entry[Node(n).name].type IN
       ListFits(note[n].type.inputs, callee.inputs) /\ ListFits(note[n].type.returns, callee.returns)

NodeFits(n) ==
  CASE Node(n).tag = "ASSIGN" -> AssignmentFits(n)
    [] Node(n).tag = "BINARY" -> result[n] # Undefined => OperationFits(n)
    [] Node(n).tag = "SWITCH" -> SwitchFits(n)
    [] Node(n).tag = "FOR"    -> CounterStays(n)
    [] Node(n).tag = "MODULE" -> ResultsSet(n)
    [] Node(n).tag = "USE"    -> CallFits(n)
    [] OTHER                  -> TRUE

AcceptedIsChecked == phase \in {"accepted", "generate"} => \A n \in AllNodes : NodeFits(n)

(* A program that gets code runs to its end: loops stop, since nothing in  *)
(* a loop can assign to its counter.                                       *)
RunEnds == phase = "generate" ~> phase = "done"
=============================================================================
