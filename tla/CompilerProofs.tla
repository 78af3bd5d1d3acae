---------------------------- MODULE CompilerProofs ----------------------------
(***************************************************************************)
(* Proofs about the passes together, for every sequence of well-formed     *)
(* programs: what the first pass has established stays true while the      *)
(* others run, and errors keep code from being made.                       *)
(***************************************************************************)
EXTENDS Compiler, ScopesProofs

(* The phases in which code is printed or run.                             *)
CodePhases == {"generate", "run", "done", "wild"}

(* Code is made for programs without errors only.                          *)
NoCodeAfterErrors == phase \in CodePhases => errors = {}

CompilerInv ==
  /\ phase = "scopes" => IInv
  /\ StorageDisjoint
  /\ NoCodeAfterErrors

(* What StorageDisjoint speaks of.                                         *)
Storage == <<prog, table, declared>>

LEMMA StorageKept ==
  ASSUME StorageDisjoint, UNCHANGED Storage
  PROVE  StorageDisjoint'
<1>1. prog' = prog /\ table' = table /\ declared' = declared
  BY DEF Storage
<1> QED
  BY <1>1, BoundsKept DEF StorageDisjoint

-----------------------------------------------------------------------------
(* The steps of the passes.                                                *)
LEMMA ScopesStep ==
  ASSUME ScopesNext
  PROVE  phase = "scopes" /\ phase' = phase /\ errors \subseteq errors'
<1>1. CASE DeclareModules \/ EnterModule \/ OpenScope \/ Declare \/ WalkDeclare
  BY <1>1 DEF DeclareModules, EnterModule, OpenScope, Declare, WalkDeclare,
              Declaring, WalkAt, At, Busy
<1>2. CASE DefineModule \/ Redeclare
  BY <1>2 DEF DefineModule, Redeclare, Report, Declaring, At, Busy
<1>3. CASE EnterFor \/ EnterWhile \/ EnterCase
  BY <1>3 DEF EnterFor, EnterWhile, EnterCase, WalkAt, At, Busy
<1>4. CASE WalkSwitch \/ WalkId \/ WalkArray \/ WalkGetValue
  BY <1>4 DEF WalkSwitch, WalkId, WalkArray, WalkGetValue, Resolve, Report, WalkAt, At, Busy
<1>5. CASE WalkExpression \/ WalkPrint \/ WalkAssign \/ MarkAssigned \/ WalkUse
  BY <1>5 DEF WalkExpression, WalkPrint, WalkAssign, MarkAssigned, WalkUse, WalkAt, At, Busy
<1> QED
  BY <1>1, <1>2, <1>3, <1>4, <1>5 DEF ScopesNext

LEMMA SemanticsStep ==
  ASSUME SemanticsNext
  PROVE  phase' = "semantics" /\ UNCHANGED Storage /\ errors \subseteq errors'
<1>1. CASE BeginSemantics
  BY <1>1 DEF BeginSemantics, Storage
<1>2. CASE CheckModule \/ CheckNothing \/ CheckLiteral \/ CheckBody \/ CheckFor
             \/ CheckOperands \/ CheckUnary \/ CheckSides
  BY <1>2 DEF CheckModule, CheckNothing, CheckLiteral, CheckBody, CheckFor, CheckOperands,
              CheckUnary, CheckSides, CheckAt, CheckStep, Checking, Storage
<1>3. CASE CheckReturned \/ CheckCounter \/ CheckAssign \/ CheckBinary
  BY <1>3 DEF CheckReturned, CheckCounter, CheckAssign, CheckBinary, CheckAt, CheckStep, Checking,
              ReportIf, Report, Storage
<1>4. CASE CheckArray
  <2>1. errors \subseteq errors'
    BY <1>4 DEF CheckArray, ReportIf, Report
  <2> QED
    BY <1>4, <2>1 DEF CheckArray, CheckAt, CheckStep, Checking, Storage
<1>5. CASE CheckSwitch
  <2>1. errors \subseteq errors'
    BY <1>5 DEF CheckSwitch, Report
  <2> QED
    BY <1>5, <2>1 DEF CheckSwitch, CheckAt, CheckStep, Checking, Storage
<1>6. CASE CheckUse
  BY <1>6 DEF CheckUse, CheckAt, CheckStep, Checking, Storage
<1> QED
  BY <1>1, <1>2, <1>3, <1>4, <1>5, <1>6 DEF SemanticsNext

LEMMA GeneratorStep ==
  ASSUME CodeGenNext
  PROVE  /\ UNCHANGED Storage /\ errors' = errors /\ phase' # "scopes"
         /\ phase' \in CodePhases => errors = {} \/ phase \in CodePhases
<1>1. CASE BeginGenerate
  <2>1. CASE prog.request = "code" /\ errors = {}
    BY <1>1, <2>1 DEF BeginGenerate, Storage
  <2>2. CASE ~(prog.request = "code" /\ errors = {})
    <3>1. phase' \in {"accepted", "rejected"}
      BY <1>1, <2>2 DEF BeginGenerate
    <3> QED
      BY <1>1, <3>1 DEF BeginGenerate, Storage, CodePhases
  <2> QED
    BY <2>1, <2>2
<1>2. ASSUME UNCHANGED treeVars, phase = "generate"
      PROVE  /\ UNCHANGED Storage /\ errors' = errors /\ phase' # "scopes"
             /\ phase' \in CodePhases => errors = {} \/ phase \in CodePhases
  BY <1>2 DEF treeVars, Storage, CodePhases
<1>3. CASE GenLiteral \/ GenNothing \/ GenArray \/ GenElement \/ GenOperands \/ GenOperandsOnly
  BY <1>2, <1>3 DEF GenLiteral, GenNothing, GenArray, GenElement, GenOperands, GenOperandsOnly,
                    GenAt, GenStep, Generating
<1>4. CASE GenArithmetic \/ GenRelation \/ GenLogic \/ GenUnary \/ GenAssign \/ GenStore
  BY <1>2, <1>4 DEF GenArithmetic, GenRelation, GenLogic, GenUnary, GenAssign, GenStore,
                    GenAt, GenStep, Generating
<1>5. CASE GenGetValue \/ GenPrint \/ GenCase \/ LeaveCase \/ GenSwitch \/ StartArm \/ EndArm
  BY <1>2, <1>5 DEF GenGetValue, GenPrint, GenCase, LeaveCase, GenSwitch, StartArm, EndArm,
                    GenAt, GenStep, Generating
<1>6. CASE GenTests \/ GenFor \/ LeaveFor \/ GenWhile \/ GenWhileTest \/ LeaveWhile
  BY <1>2, <1>6 DEF GenTests, GenFor, LeaveFor, GenWhile, GenWhileTest, LeaveWhile,
                    GenAt, GenStep, Generating
<1>7. CASE GenUse \/ GenModule \/ LeaveModule
  BY <1>2, <1>7 DEF GenUse, GenModule, LeaveModule, GenAt, GenStep, Generating
<1> QED
  BY <1>1, <1>3, <1>4, <1>5, <1>6, <1>7 DEF CodeGenNext

LEMMA MachineStep ==
  ASSUME MachineNext
  PROVE  /\ UNCHANGED Storage /\ errors' = errors
         /\ phase \in CodePhases /\ phase' \in CodePhases
<1>1. CASE BeginRun
  BY <1>1 DEF BeginRun, Storage, CodePhases
<1>2. CASE Stop
  BY <1>2 DEF Stop, Does, Running, Storage, CodePhases
<1>3. ASSUME UNCHANGED compilerVars, phase = "run"
      PROVE  /\ UNCHANGED Storage /\ errors' = errors
             /\ phase \in CodePhases /\ phase' \in CodePhases
  BY <1>3 DEF compilerVars, treeVars, Storage, CodePhases
<1>4. CASE Compute \/ CompareValues \/ Access
  BY <1>3, <1>4 DEF Compute, CompareValues, Access, Advance, Running
<1>5. CASE PushRegs \/ PopRegs \/ PrintValue \/ ScanValue
  BY <1>3, <1>5 DEF PushRegs, PopRegs, PrintValue, ScanValue, Advance, Does, Running
<1>6. CASE Branch \/ CallModule
  BY <1>3, <1>6 DEF Branch, CallModule, Does, Running
<1>7. CASE Return
  <2>1. CASE AtReturnAddress
    BY <1>3, <1>7, <2>1 DEF Return, Does, Running
  <2>2. CASE ~AtReturnAddress
    BY <1>7, <2>2 DEF Return, Does, Running, Storage, CodePhases
  <2> QED
    BY <2>1, <2>2
<1> QED
  BY <1>1, <1>2, <1>4, <1>5, <1>6, <1>7 DEF MachineNext

-----------------------------------------------------------------------------
LEMMA CompilerInductive ==
  ASSUME CompilerInv, [Next]_vars
  PROVE  CompilerInv'
<1>1. CASE ScopesNext
  <2>1. phase = "scopes" /\ phase' = "scopes"
    BY <1>1, ScopesStep
  <2>2. IInv'
    BY <1>1, <2>1, Inductive DEF CompilerInv
  <2>3. StorageDisjoint'
    <3>1. ~BoundsOrdered' => StorageDisjoint'
      BY DEF StorageDisjoint
    <3> QED
      BY <2>2, <3>1 DEF IInv, StorageInv
  <2> QED
    BY <2>1, <2>2, <2>3 DEF CompilerInv, NoCodeAfterErrors, CodePhases
<1>2. CASE SemanticsNext
  BY <1>2, SemanticsStep, StorageKept DEF CompilerInv, NoCodeAfterErrors, CodePhases
<1>3. CASE CodeGenNext
  BY <1>3, GeneratorStep, StorageKept DEF CompilerInv, NoCodeAfterErrors
<1>4. CASE MachineNext
  <2>1. phase' # "scopes"
    BY <1>4, MachineStep DEF CodePhases
  <2> QED
    BY <1>4, <2>1, MachineStep, StorageKept DEF CompilerInv, NoCodeAfterErrors
<1>5. CASE UNCHANGED vars
  <2>1. UNCHANGED scopeVars /\ UNCHANGED Storage /\ phase' = phase /\ errors' = errors
    BY <1>5 DEF vars, compilerVars, treeVars, scopeVars, Storage
  <2>2. phase = "scopes" => IInv'
    BY <2>1, Inductive DEF CompilerInv
  <2> QED
    BY <2>1, <2>2, StorageKept DEF CompilerInv, NoCodeAfterErrors
<1> QED
  BY <1>1, <1>2, <1>3, <1>4, <1>5 DEF Next, Ended

LEMMA CompilerInitially ==
  ASSUME Init
  PROVE  CompilerInv
<1>1. IInv /\ phase = "scopes"
  BY Initially DEF Init, ScopesInit
<1>2. StorageDisjoint
  <2>1. ~BoundsOrdered => StorageDisjoint
    BY DEF StorageDisjoint
  <2> QED
    BY <1>1, <2>1 DEF IInv, StorageInv
<1> QED
  BY <1>1, <1>2 DEF CompilerInv, NoCodeAfterErrors, CodePhases

THEOREM CompilerInvariant == Spec => []CompilerInv
BY CompilerInitially, CompilerInductive, PTL DEF Spec

(* From the first declaration to the end of the run, no two variables that *)
(* see each other share bytes of the frame, for any program whose arrays   *)
(* have their bounds in order: the passes behind                           *)
(* construct_symbol_table() rely on its offsets and give out none of their *)
(* own to variables.                                                       *)
THEOREM CompilerStorage == Spec => []StorageDisjoint
<1>1. CompilerInv => StorageDisjoint
  BY DEF CompilerInv
<1> QED
  BY <1>1, CompilerInvariant, PTL

(* No walk takes back what another has reported: GOT_SEMANTIC_ERROR_GLOBAL *)
(* stays up.                                                               *)
THEOREM ErrorsStay == Spec => [][errors \subseteq errors']_vars
<1>1. ASSUME Next PROVE errors \subseteq errors'
  <2>1. CASE UNCHANGED vars
    BY <2>1 DEF vars, compilerVars, treeVars
  <2> QED
    BY <1>1, <2>1, ScopesStep, SemanticsStep, GeneratorStep, MachineStep DEF Next, Ended
<1>2. [Next]_vars => [errors \subseteq errors']_vars
  BY <1>1
<1> QED
  BY <1>2, PTL DEF Spec

(* A program with a fault that either walk has reported gets no code,      *)
(* whatever is reported or passed over after it.                           *)
THEOREM FaultyGetsNoCode == Spec => []NoCodeAfterErrors
<1>1. CompilerInv => NoCodeAfterErrors
  BY DEF CompilerInv
<1> QED
  BY <1>1, CompilerInvariant, PTL
=============================================================================
