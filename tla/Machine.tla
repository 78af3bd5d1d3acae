------------------------------- MODULE Machine -------------------------------
(***************************************************************************)
(* The processor and the C library that the printed program runs on, as    *)
(* far as the generated code needs them.  Memory is a set of cells that    *)
(* instructions have written; a cell that is overwritten in part is gone,  *)
(* and so is everything below rsp when the C library is called.  What      *)
(* cannot be read back is Garbage.                                         *)
(***************************************************************************)
EXTENDS CodeGen

CONSTANT
  Inputs      \* what the user may type

VARIABLES
  pc,         \* the instruction that comes next
  regs,       \* the registers, and the flags as the difference compared
  mem,        \* cells: address |-> [size, value, isReturn]
  out,        \* what has been printed, [form, value]
  given,      \* history: what has been typed
  frames      \* history: rsp and rbp where each call in progress was made

machineVars == <<pc, regs, mem, out, given, frames>>
compilerVars == <<treeVars, todo, codeVars>>

Garbage == 2^24           \* no value of the programs is that large
StackTop == 4096
Registers == {"rsp", "rbp", "rax", "rbx", "rcx", "rdx", "rsi", "rdi", "flags",
              "r8", "r9", "r10", "r11", "r12", "r13", "r14", "r15"}
(* What a C function may change.                                           *)
Scratch == {"rax", "rcx", "rdx", "rsi", "rdi", "r8", "r9", "r10", "r11", "flags"}

(* The value held by `size' bytes, signed.                                 *)
Signed(v, size) ==
  LET m == 2^(8 * size) IN
  IF v = Garbage \/ size = 8 THEN v ELSE ((v + (m \div 2)) % m) - (m \div 2)

Overlaps(a, m, b, n) == a < b + n /\ b < a + m
Written(cells, a, size, v, isReturn) ==
  LET kept == {b \in DOMAIN cells : ~Overlaps(b, cells[b].size, a, size)} IN
  [b \in kept \cup {a} |-> IF b = a THEN [size |-> size, value |-> Signed(v, size), isReturn |-> isReturn]
                           ELSE cells[b]]
Reads(a, size) ==
  IF a \in DOMAIN mem /\ mem[a].size = size THEN mem[a].value ELSE Garbage
Above(cells, a) == [b \in {b \in DOMAIN cells : b >= a} |-> cells[b]]

Running == phase = "run"
Instr == code[pc]
Does(op) == Running /\ Instr.op = op
Frame(off) == regs["rbp"] - off
Advance == pc' = pc + 1 /\ UNCHANGED compilerVars
SetReg(r, v) == regs' = [regs EXCEPT ![r] = v]
Write(a, size, v) == mem' = Written(mem, a, size, v, FALSE)

Apply(fn, a, b) ==
  IF a = Garbage \/ b = Garbage THEN Garbage
  ELSE CASE fn = "add"  -> a + b
         [] fn = "sub"  -> a - b
         [] fn = "imul" -> a * b
         [] fn = "neg"  -> -a
         [] fn = "or"   -> IF a = 0 /\ b = 0 THEN 0 ELSE 1
         [] fn = "scale" -> 2 * (a + 1) + b

Holds(on, flags) ==
  CASE on = "always" -> TRUE
    [] on = "z"  -> flags = 0
    [] on = "l"  -> flags < 0
    [] on = "le" -> flags <= 0
    [] on = "g"  -> flags > 0
    [] on = "ge" -> flags >= 0
(* Flags that came from garbage may be either way.                         *)
MayHold(on, flags) == IF flags = Garbage /\ on # "always" THEN BOOLEAN ELSE {Holds(on, flags)}

PlaceOf(label) == CHOOSE i \in DOMAIN code : code[i] = Label(label)

MachineInit ==
  /\ pc = 1 /\ mem = << >> /\ out = << >> /\ given = << >> /\ frames = << >>
  /\ regs = [r \in Registers |->
               IF r = "rsp" THEN StackTop ELSE Garbage]

(* The user runs what was printed.                                         *)
BeginRun ==
  /\ phase = "generate" /\ todo = << >>
  /\ phase' = "run"
  /\ UNCHANGED <<prog, todo, table, note, owned, errors, declared, result, codeVars, machineVars>>

Compute ==
  /\ Running
  /\ \/ Instr.op = "move"    /\ SetReg("rsp", regs["rsp"] + Instr.by)
     \/ Instr.op = "copy"    /\ SetReg(Instr.reg, regs[Instr.from])
     \/ Instr.op = "align"   /\ SetReg("rsp", regs["rsp"] - (regs["rsp"] % 16))
     \/ Instr.op = "set"     /\ SetReg(Instr.reg, Instr.value)
     \/ Instr.op = "alu"     /\ regs' = [regs EXCEPT
            ![Instr.reg] = Apply(Instr.fn, @, regs[Instr.from]),
            !["flags"]   = Apply(Instr.fn, regs[Instr.reg], regs[Instr.from])]
     \/ Instr.op = "scale"   /\ SetReg("r8", Apply("scale", Apply("sub", regs["r8"], Instr.low), Instr.base))
     \/ Instr.op = "label"   /\ UNCHANGED regs
  /\ Advance
  /\ UNCHANGED <<mem, out, given, frames>>

CompareValues ==
  /\ Running
  /\ \/ Instr.op = "compare"      /\ SetReg("flags", Apply("sub", regs[Instr.reg], regs[Instr.from]))
     \/ Instr.op = "compare with" /\ SetReg("flags", Apply("sub", regs[Instr.reg], Instr.value))
     \/ Instr.op = "compare word" /\ SetReg("flags",
            Apply("sub", Reads(Frame(Instr.off), 2), Signed(Instr.value, 2)))
  /\ Advance
  /\ UNCHANGED <<mem, out, given, frames>>

(* Loads and stores, relative to rbp.                                      *)
Access ==
  /\ Running
  /\ \/ /\ Instr.op = "load" /\ SetReg(Instr.reg, Reads(Frame(Instr.off), Instr.size))
        /\ UNCHANGED mem
     \/ /\ Instr.op = "load by"
        /\ regs' = [regs EXCEPT !["r12"] = Frame(regs[Instr.by]),
                                ![Instr.reg] = Reads(Frame(regs[Instr.by]), 2)]
        /\ UNCHANGED mem
     \/ /\ Instr.op = "store" /\ Write(Frame(Instr.off), Instr.size, regs[Instr.reg])
        /\ UNCHANGED regs
     \/ /\ Instr.op = "store by" /\ Write(Frame(regs[Instr.by]), 2, regs[Instr.reg])
        /\ SetReg("r11", Frame(regs[Instr.by]))
     \/ /\ Instr.op = "put by" /\ Write(Frame(regs[Instr.by]), 2, Instr.value)
        /\ SetReg("r11", Frame(regs[Instr.by]))
     \/ /\ Instr.op = "put" /\ Write(Frame(Instr.off), Instr.size, Instr.value)
        /\ UNCHANGED regs
     \/ /\ Instr.op = "increment"
        /\ Write(Frame(Instr.off), 2, Apply("add", Reads(Frame(Instr.off), 2), 1))
        /\ UNCHANGED regs
  /\ Advance
  /\ UNCHANGED <<out, given, frames>>

(* Registers pushed one below the other, and popped from there.            *)
Pushed(cells, sp, rs) ==
  LET slots == {sp - 8 * i : i \in DOMAIN rs}
      kept  == {b \in DOMAIN cells : ~Overlaps(b, cells[b].size, sp - 8 * Len(rs), 8 * Len(rs))} IN
  [b \in kept \cup slots |->
     IF b \in slots THEN [size |-> 8, value |-> regs[rs[(sp - b) \div 8]], isReturn |-> FALSE]
     ELSE cells[b]]

PushRegs ==
  /\ Does("push")
  /\ mem' = Pushed(mem, regs["rsp"], Instr.regs)
  /\ SetReg("rsp", regs["rsp"] - 8 * Len(Instr.regs))
  /\ Advance
  /\ UNCHANGED <<out, given, frames>>

PopRegs ==
  /\ Does("pop")
  /\ LET from(r) == regs["rsp"] + 8 * (CHOOSE i \in DOMAIN Instr.regs : Instr.regs[i] = r) - 8 IN
       regs' = [r \in Registers |->
                  IF r = "rsp" THEN regs["rsp"] + 8 * Len(Instr.regs)
                  ELSE IF r \in ToSet(Instr.regs) THEN Reads(from(r), 8) ELSE regs[r]]
  /\ Advance
  /\ UNCHANGED <<mem, out, given, frames>>

Branch ==
  /\ Does("jump")
  /\ \E taken \in MayHold(Instr.on, regs["flags"]) :
       pc' = IF taken THEN PlaceOf(Instr.label) ELSE pc + 1
  /\ UNCHANGED <<compilerVars, regs, mem, out, given, frames>>

CallModule ==
  /\ Does("call")
  /\ pc' = PlaceOf(Instr.label)
  /\ mem' = Written(mem, regs["rsp"] - 8, 8, pc + 1, TRUE)
  /\ SetReg("rsp", regs["rsp"] - 8)
  /\ frames' = Append(frames, [rsp |-> regs["rsp"], rbp |-> regs["rbp"]])
  /\ UNCHANGED <<compilerVars, out, given>>

(* ret goes to what rsp points at; unless that is a return address, there  *)
(* is no telling where.                                                    *)
AtReturnAddress == regs["rsp"] \in DOMAIN mem /\ mem[regs["rsp"]].isReturn

Return ==
  /\ Does("ret")
  /\ IF AtReturnAddress
     THEN /\ pc' = mem[regs["rsp"]].value /\ UNCHANGED compilerVars
          /\ frames' = Front(frames)
     ELSE /\ phase' = "wild" /\ UNCHANGED <<pc, frames>>
          /\ UNCHANGED <<prog, todo, table, note, owned, errors, declared, result, codeVars>>
  /\ SetReg("rsp", regs["rsp"] + 8)
  /\ UNCHANGED <<mem, out, given>>

(* The C library: what a function leaves of the registers and the memory.  *)
Leaves(rs) == [r \in Registers |-> IF r \in rs THEN Garbage ELSE regs[r]]

(* printf(), also by way of _print_integer_id and _print_boolean_id, which *)
(* use r12.                                                                *)
PrintValue ==
  /\ Does("print")
  /\ out' = Append(out, [form |-> Instr.form, value |->
       CASE Instr.form = "BOUNDS" -> 0
         [] Instr.form = "BOOLEAN" /\ regs[Instr.reg] \notin {0, Garbage} -> 1
         [] OTHER -> regs[Instr.reg]])
  /\ regs' = Leaves(IF Instr.reg = "rax" THEN Scratch \cup {"r12"} ELSE Scratch)
  /\ mem' = Above(mem, regs["rsp"])
  /\ Advance
  /\ UNCHANGED <<given, frames>>

(* scanf() into a variable.                                                *)
ScanValue ==
  /\ Does("scan")
  /\ \E v \in Inputs :
       /\ given' = Append(given, v)
       /\ mem' = Written(Above(mem, regs["rsp"]), Frame(Instr.off), Instr.size, v, FALSE)
  /\ regs' = Leaves(Scratch)
  /\ Advance
  /\ UNCHANGED <<out, frames>>

Stop ==
  /\ Does("exit")
  /\ phase' = "done"
  /\ UNCHANGED <<prog, todo, table, note, owned, errors, declared, result, codeVars, machineVars>>

MachineNext ==
  \/ BeginRun \/ Compute \/ CompareValues \/ Access \/ PushRegs \/ PopRegs
  \/ Branch \/ CallModule \/ Return \/ PrintValue \/ ScanValue \/ Stop

-----------------------------------------------------------------------------
(* A module returns to the instruction after its call, with rsp and rbp as *)
(* the caller left them: the space that constructs take and give back in   *)
(* separate places, on every path and in every turn of a loop, balances.   *)
ReturnsToCaller ==
  /\ phase # "wild"
  /\ Does("ret") => /\ AtReturnAddress
                    /\ regs["rsp"] + 8 = Last(frames).rsp
                    /\ regs["rbp"] = Last(frames).rbp

(* The processor never leaves the code that was printed: it does not run   *)
(* past the last line, every jump and call finds its label, and wherever   *)
(* on the stack a return address lies, under pushed registers, saved rbps  *)
(* and variables, it is that of the instruction after a call.              *)
StaysInCode ==
  Running =>
    /\ pc \in DOMAIN code
    /\ \A a \in DOMAIN mem : mem[a].isReturn =>
         mem[a].value \in DOMAIN code /\ code[mem[a].value - 1].op = "call"

(* What is read or written in the frame lies at or above rsp, where no     *)
(* call and no push can overwrite it: the offsets given out by one pass    *)
(* stay within the space another pass asks for.                            *)
AccessAllocated ==
  Running =>
    /\ Instr.op \in {"load", "store", "put", "scan", "compare word", "increment"} =>
         Frame(Instr.off) >= regs["rsp"]
    /\ Instr.op \in {"load by", "store by", "put by"} => Frame(regs[Instr.by]) >= regs["rsp"]
=============================================================================
