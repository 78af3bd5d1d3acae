---------------------------- MODULE ParserProofs ----------------------------
(***************************************************************************)
(* What the parser guarantees on every source: its error reports go down   *)
(* the source, its recovery always finds a list of statements, what it     *)
(* accepts is a sentence of the grammar, and it is stuck only on a token   *)
(* that no program has there.                                              *)
(***************************************************************************)
EXTENDS Parser, SequenceTheorems, WellFoundedInduction, TLAPS

InputType == [lead : Seq(Tokens), free : Nat, alphabet : SUBSET Tokens, lines : Nat,
              tail : Seq(Tokens), line : Nat, ended : BOOLEAN]

WellFormed(in)  == in \in InputType /\ in.line \in 1 .. in.lines
Placed(t, in)   == t = NoToken \/ (t \in [type : Tokens, line : Nat] /\ t.line = in.line)

-----------------------------------------------------------------------------
(* The lexer keeps to the source: lines only go up, and a token is on the  *)
(* line that has been reached.                                             *)
LEMMA TokensHaveNoNull == "NULL" \notin Terminals /\ "NULL" \notin Tokens
BY DEF Terminals, Tokens

LEMMA SpecialTokens ==
  "DOLLAR" \in Tokens /\ "SEMICOLON" \in Tokens /\ KeywordTokens \subseteq Tokens
BY DEF Terminals, Tokens, KeywordTokens

LEMMA ReadsKeep ==
  ASSUME NEW in, WellFormed(in), NEW r \in Reads(in)
  PROVE  /\ WellFormed(r.left) /\ r.left.lines = in.lines
         /\ in.line <= r.left.line
         /\ Placed(r.token, r.left)
<1>0. /\ in \in InputType /\ in.line \in Nat /\ in.lines \in Nat /\ in.free \in Nat
      /\ in.alphabet \subseteq Tokens /\ in.lead \in Seq(Tokens) /\ in.tail \in Seq(Tokens)
      /\ in.line <= in.lines /\ 1 <= in.line
  BY DEF WellFormed, InputType
<1>1. CASE in.lead # << >>
  <2> DEFINE left == [in EXCEPT !.lead = Tail(in.lead)]
  <2>1. r = [token |-> Tok(Head(in.lead), in.line), left |-> left]
    BY <1>1 DEF Reads
  <2>2. Head(in.lead) \in Tokens /\ Tail(in.lead) \in Seq(Tokens)
    BY <1>0, <1>1, HeadTailProperties
  <2>3. left \in InputType /\ left.line = in.line /\ left.lines = in.lines
    BY <1>0, <2>2 DEF InputType
  <2>4. r.left = left /\ r.token = [type |-> Head(in.lead), line |-> in.line]
    BY <2>1 DEF Tok
  <2> HIDE DEF left
  <2> QED BY <1>0, <2>2, <2>3, <2>4 DEF WellFormed, Placed
<1>2. CASE \E t \in in.alphabet, l \in in.line .. in.lines :
             in.free > 0 /\ r = ReadFree(in, t, l)
  <2>1. PICK t \in in.alphabet, l \in in.line .. in.lines :
          in.free > 0 /\ r = ReadFree(in, t, l)
    BY <1>2
  <2>2. PICK n \in Nat : n = in.free - 1
    BY <1>0, <2>1
  <2> DEFINE left == [in EXCEPT !.free = n, !.line = l]
  <2>3. t \in Tokens /\ l \in Nat /\ l <= in.lines /\ in.line <= l
    BY <1>0, <2>1
  <2>4. left \in InputType /\ left.line = l /\ left.lines = in.lines
    BY <1>0, <2>2, <2>3 DEF InputType
  <2>5. r.left = left /\ r.token = [type |-> t, line |-> l]
    BY <2>1, <2>2 DEF ReadFree, Tok
  <2> HIDE DEF left
  <2> QED BY <1>0, <2>3, <2>4, <2>5 DEF WellFormed, Placed
<1>3. CASE r = ReadTail(in)
  <2>1. CASE in.tail # << >>
    <3> DEFINE left == [in EXCEPT !.free = 0, !.tail = Tail(in.tail)]
    <3>1. Head(in.tail) \in Tokens /\ Tail(in.tail) \in Seq(Tokens)
      BY <1>0, <2>1, HeadTailProperties
    <3>2. left \in InputType /\ left.line = in.line /\ left.lines = in.lines
      BY <1>0, <3>1 DEF InputType
    <3>3. r.left = left /\ r.token = [type |-> Head(in.tail), line |-> in.line]
      BY <1>3, <2>1 DEF ReadTail, Tok
    <3> HIDE DEF left
    <3> QED BY <1>0, <3>1, <3>2, <3>3 DEF WellFormed, Placed
  <2>2. CASE in.tail = << >> /\ ~in.ended
    <3> DEFINE left == [in EXCEPT !.free = 0, !.ended = TRUE]
    <3>1. left \in InputType /\ left.line = in.line /\ left.lines = in.lines
      BY <1>0 DEF InputType
    <3>2. r.left = left /\ r.token = [type |-> "DOLLAR", line |-> in.line]
      BY <1>3, <2>2 DEF ReadTail, Tok
    <3> HIDE DEF left
    <3> QED BY <1>0, <3>1, <3>2, SpecialTokens DEF WellFormed, Placed
  <2>3. CASE in.tail = << >> /\ in.ended
    <3>1. r.left = in /\ r.token = NoToken
      BY <1>3, <2>3 DEF ReadTail
    <3> QED BY <1>0, <3>1 DEF WellFormed, Placed
  <2> QED BY <2>1, <2>2, <2>3
<1> QED BY <1>1, <1>2, <1>3 DEF Reads

-----------------------------------------------------------------------------
(* The stack: the symbols still expected, DOLLAR under them, and after a   *)
(* symbol that is only expected inside of a statement the statements that  *)
(* follow it.                                                              *)
StatementsAfter(s, k) == \E j \in k + 1 .. Len(s) : s[j] = "statements"

Anchored(s) ==
  /\ s \in Seq(Symbols) /\ s # << >>
  /\ s[Len(s)] = "DOLLAR"
  /\ \A k \in 1 .. Len(s) - 1 : s[k] # "DOLLAR"
  /\ \A k \in 1 .. Len(s) : s[k] \in WithinStatement => StatementsAfter(s, k)

LEMMA AnchoredFacts ==
  ASSUME NEW s, Anchored(s)
  PROVE  Len(s) \in Nat /\ Len(s) >= 1 /\ Head(s) = s[1] /\ s[1] \in Symbols
         /\ \A k \in 1 .. Len(s) : s[k] \in Symbols
BY DEF Anchored

LEMMA SuffixAnchored ==
  ASSUME NEW s, Anchored(s), NEW n \in 1 .. Len(s)
  PROVE  Anchored(SubSeq(s, n, Len(s))) /\ SubSeq(s, n, Len(s))[1] = s[n]
<1> DEFINE t == SubSeq(s, n, Len(s))
<1>1. /\ Len(s) \in Nat /\ s \in Seq(Symbols) /\ n \in Nat
      /\ t \in Seq(Symbols) /\ Len(t) = Len(s) - n + 1
      /\ \A k \in 1 .. Len(t) : t[k] = s[n + k - 1]
  BY AnchoredFacts, SubSeqProperties DEF Anchored
<1> HIDE DEF t
<1>2. t # << >> /\ t[Len(t)] = "DOLLAR" /\ t[1] = s[n]
  <2>1. Len(t) >= 1 /\ Len(t) \in 1 .. Len(t) /\ 1 \in 1 .. Len(t) /\ s[Len(s)] = "DOLLAR"
    BY <1>1 DEF Anchored
  <2>2. t[Len(t)] = s[n + Len(t) - 1] /\ n + Len(t) - 1 = Len(s) /\ t[1] = s[n]
    BY <1>1, <2>1
  <2> QED BY <2>1, <2>2
<1>3. ASSUME NEW k \in 1 .. Len(t) - 1 PROVE t[k] # "DOLLAR"
  BY SMTT(30), <1>1 DEF Anchored
<1>4. ASSUME NEW k \in 1 .. Len(t), t[k] \in WithinStatement PROVE StatementsAfter(t, k)
  <2>0. t[k] = s[n + k - 1] /\ k \in Int /\ n + k - 1 \in 1 .. Len(s)
    BY <1>1
  <2>1. s[n + k - 1] \in WithinStatement
    BY <1>4, <2>0
  <2>2. StatementsAfter(s, n + k - 1)
    BY <2>0, <2>1 DEF Anchored
  <2>3. PICK j \in n + k - 1 + 1 .. Len(s) : s[j] = "statements"
    BY <2>2 DEF StatementsAfter
  <2>4. /\ j - n + 1 \in k + 1 .. Len(t) /\ j - n + 1 \in 1 .. Len(t)
        /\ n + (j - n + 1) - 1 = j
    BY <1>1, <2>0, <2>3
  <2>5. t[j - n + 1] = "statements"
    BY <1>1, <2>3, <2>4
  <2> QED BY <2>4, <2>5 DEF StatementsAfter
<1> QED BY <1>1, <1>2, <1>3, <1>4 DEF Anchored, t

LEMMA TailAnchored ==
  ASSUME NEW s, Anchored(s), s[1] # "DOLLAR"
  PROVE  Anchored(Tail(s)) /\ Len(Tail(s)) = Len(s) - 1
         /\ \A k \in 1 .. Len(Tail(s)) : Tail(s)[k] = s[k + 1]
<1>1. s \in Seq(Symbols) /\ s # << >> /\ Len(s) \in Nat /\ Len(s) >= 2
  BY AnchoredFacts DEF Anchored
<1>2. Tail(s) = SubSeq(s, 2, Len(s)) /\ 2 \in 1 .. Len(s)
  BY <1>1
<1>3. Anchored(Tail(s))
  BY <1>2, SuffixAnchored
<1> QED BY <1>1, <1>3, HeadTailProperties

LEMMA ExpansionFacts ==
  ASSUME NEW p \in ProductionSet
  PROVE  /\ Expansion(p) \in Seq(Symbols \ {"DOLLAR"})
         /\ \A k \in 1 .. Len(Expansion(p)) : Expansion(p)[k] \in WithinStatement =>
              p.lhs \in WithinStatement \/ StatementsAfter(Expansion(p), k)
<1>1. /\ p.rhs \in Seq(Symbols \ {"DOLLAR"}) /\ p.rhs # << >>
      /\ \A k \in DOMAIN p.rhs : p.rhs[k] \in WithinStatement =>
           p.lhs \in WithinStatement \/ \E j \in k + 1 .. Len(p.rhs) : p.rhs[j] = "statements"
      /\ DOMAIN p.rhs = 1 .. Len(p.rhs) /\ Len(p.rhs) \in Nat
  BY GrammarAssumption
<1>2. CASE Head(p.rhs) # "EPSILON"
  BY <1>1, <1>2 DEF Expansion, StatementsAfter
<1>3. CASE Head(p.rhs) = "EPSILON"
  <2> DEFINE e == Tail(p.rhs)
  <2>1. /\ Expansion(p) = e /\ e \in Seq(Symbols \ {"DOLLAR"}) /\ Len(e) = Len(p.rhs) - 1
        /\ \A k \in 1 .. Len(e) : e[k] = p.rhs[k + 1]
    BY <1>1, <1>3, HeadTailProperties DEF Expansion
  <2> HIDE DEF e
  <2>2. ASSUME NEW k \in 1 .. Len(e), e[k] \in WithinStatement, p.lhs \notin WithinStatement
        PROVE  StatementsAfter(e, k)
    <3>1. k \in Int /\ k + 1 \in 1 .. Len(p.rhs) /\ p.rhs[k + 1] \in WithinStatement
      BY <1>1, <2>1, <2>2
    <3>2. PICK j \in k + 2 .. Len(p.rhs) : p.rhs[j] = "statements"
      BY <1>1, <2>2, <3>1
    <3>3. j - 1 \in k + 1 .. Len(e) /\ e[j - 1] = "statements"
      BY <1>1, <2>1, <3>1, <3>2
    <3> QED BY <3>3 DEF StatementsAfter
  <2> QED BY <2>1, <2>2
<1> QED BY <1>2, <1>3

LEMMA ExpansionAnchored ==
  ASSUME NEW s, Anchored(s), NEW p \in ProductionSet, p.lhs = s[1], s[1] # "DOLLAR"
  PROVE  Anchored(Expansion(p) \o Tail(s))
<1> DEFINE e == Expansion(p)
           t == Tail(s)
           r == e \o t
<1>1. /\ e \in Seq(Symbols \ {"DOLLAR"}) /\ Anchored(t) /\ t \in Seq(Symbols)
      /\ Len(e) \in Nat /\ Len(t) \in Nat /\ Len(t) >= 1 /\ Len(t) = Len(s) - 1 /\ Len(s) \in Nat
      /\ \A k \in 1 .. Len(t) : t[k] = s[k + 1]
  BY ExpansionFacts, TailAnchored, AnchoredFacts DEF Anchored
<1>2. /\ r \in Seq(Symbols) /\ Len(r) = Len(e) + Len(t)
      /\ \A k \in 1 .. Len(e) : r[k] = e[k]
      /\ \A k \in 1 .. Len(t) : r[Len(e) + k] = t[k]
      /\ \A k \in 1 .. Len(e) : e[k] \in Symbols \ {"DOLLAR"}
  BY <1>1, ConcatProperties
<1>3. \A k \in 1 .. Len(e) : e[k] \in WithinStatement =>
        p.lhs \in WithinStatement \/ StatementsAfter(e, k)
  BY ExpansionFacts
<1> HIDE DEF e, t, r
<1>4. ASSUME NEW k \in 1 .. Len(r)
      PROVE  \/ k \in 1 .. Len(e) /\ r[k] = e[k]
             \/ k - Len(e) \in 1 .. Len(t) /\ r[k] = t[k - Len(e)]
  <2>1. CASE k <= Len(e)
    BY <1>1, <1>2, <2>1
  <2>2. CASE k > Len(e)
    <3>1. k - Len(e) \in 1 .. Len(t) /\ k = Len(e) + (k - Len(e))
      BY <1>1, <1>2, <2>2
    <3> QED BY <1>2, <3>1
  <2> QED BY <1>1, <2>1, <2>2
<1>5. r # << >> /\ r[Len(r)] = "DOLLAR"
  <2>1. t[Len(t)] = "DOLLAR" /\ Len(t) \in 1 .. Len(t)
    BY <1>1 DEF Anchored
  <2> QED BY SMTT(30), <1>1, <1>2, <2>1
<1>6. ASSUME NEW k \in 1 .. Len(r) - 1 PROVE r[k] # "DOLLAR"
  <2>1. k \in 1 .. Len(r) /\ k \in Int
    BY <1>1, <1>2
  <2>2. CASE k \in 1 .. Len(e) /\ r[k] = e[k]
    BY <1>2, <2>2
  <2>3. CASE k - Len(e) \in 1 .. Len(t) /\ r[k] = t[k - Len(e)]
    <3>1. k - Len(e) \in 1 .. Len(t) - 1
      BY <1>1, <1>2, <2>1, <2>3
    <3> QED BY <1>1, <2>3, <3>1 DEF Anchored
  <2> QED BY <1>4, <2>1, <2>2, <2>3
<1>7. ASSUME NEW k \in 1 .. Len(r), r[k] \in WithinStatement PROVE StatementsAfter(r, k)
  <2>1. CASE k - Len(e) \in 1 .. Len(t) /\ r[k] = t[k - Len(e)]
    <3>1. PICK j \in k - Len(e) + 1 .. Len(t) : t[j] = "statements"
      BY <1>1, <1>7, <2>1 DEF Anchored, StatementsAfter
    <3>2. j \in 1 .. Len(t) /\ Len(e) + j \in k + 1 .. Len(r)
      BY <1>1, <1>2, <2>1, <3>1
    <3> QED BY <1>2, <3>1, <3>2 DEF StatementsAfter
  <2>2. CASE k \in 1 .. Len(e) /\ r[k] = e[k] /\ StatementsAfter(e, k)
    <3>1. PICK j \in k + 1 .. Len(e) : e[j] = "statements"
      BY <2>2 DEF StatementsAfter
    <3>2. j \in 1 .. Len(e) /\ j \in k + 1 .. Len(r)
      BY <1>1, <1>2, <2>2, <3>1
    <3> QED BY <1>2, <3>1, <3>2 DEF StatementsAfter
  <2>3. CASE k \in 1 .. Len(e) /\ r[k] = e[k] /\ p.lhs \in WithinStatement
    <3>1. PICK j \in 2 .. Len(s) : s[j] = "statements"
      BY <1>1, <2>3 DEF Anchored, StatementsAfter
    <3>2. /\ j - 1 \in 1 .. Len(t) /\ t[j - 1] = "statements"
          /\ Len(e) + (j - 1) \in k + 1 .. Len(r)
      BY <1>1, <1>2, <2>3, <3>1
    <3> QED BY <1>2, <3>2 DEF StatementsAfter
  <2> QED BY <1>3, <1>4, <1>7, <2>1, <2>2, <2>3
<1> QED BY <1>2, <1>5, <1>6, <1>7 DEF Anchored, r, e, t

-----------------------------------------------------------------------------
(* The loop that pops the stack down to the statements.                    *)
LEMMA LeastOf ==
  ASSUME NEW S \in SUBSET Nat, S # {}
  PROVE  Min(S) \in S
<1> DEFINE less == { ss \in Nat \X Nat : ss[1] < ss[2] }
<1>1. IsWellFoundedOn(less, Nat)
  BY NatLessThanWellFounded DEF OpToRel
<1> HIDE DEF less
<1>2. PICK x \in S : \A y \in S : <<y, x>> \notin less
  BY <1>1, WFMin
<1>3. ASSUME NEW y \in S PROVE x <= y
  <2>1. x \in Nat /\ y \in Nat /\ <<y, x>> \in Nat \X Nat /\ <<y, x>> \notin less
    BY <1>2
  <2>2. ~(<<y, x>>[1] < <<y, x>>[2])
    BY <2>1 DEF less
  <2> QED BY <2>1, <2>2
<1> QED BY <1>3 DEF Min

LEMMA StatementsFound ==
  ASSUME NEW s, Anchored(s), NEW k \in 1 .. Len(s), s[k] \in WithinStatement
  PROVE  /\ SelectInSeq(s, LAMBDA x : x = "statements") \in 1 .. Len(s)
         /\ s[SelectInSeq(s, LAMBDA x : x = "statements")] = "statements"
<1> DEFINE I == { i \in 1 .. Len(s) : s[i] = "statements" }
<1>1. I # {}
  BY AnchoredFacts DEF Anchored, StatementsAfter
<1>2. I \in SUBSET Nat
  BY AnchoredFacts
<1>3. Min(I) \in I
  BY <1>1, <1>2, LeastOf
<1>4. SelectInSeq(s, LAMBDA x : x = "statements") = Min(I)
  BY <1>1 DEF SelectInSeq
<1> QED BY <1>3, <1>4

-----------------------------------------------------------------------------
(* The inductive invariant.  Where the reader is, how far down the reports *)
(* have come, and what the stack is like.                                  *)
UpTo(s, line) == \A k \in 1 .. Len(s) : s[k] <= line
Sorted(s)     == s \in Seq(Nat) /\ \A k \in 1 .. Len(s) - 1 : s[k] <= s[k + 1]

PlaceInv ==
  /\ WellFormed(input) /\ Placed(token, input)
  /\ lastErrorLine \in 0 .. input.lines
  /\ pc \in {"parse", "skip", "scan", "done", "exited", "crashed"}
  /\ skipped \in BOOLEAN

ReportInv ==
  /\ Sorted(reports)
  /\ pc # "scan" => UpTo(reports, input.line)
  /\ pc = "scan" =>
       culprit.line \in Nat /\ culprit.line <= input.line /\ UpTo(reports, culprit.line)

StackInv ==
  /\ Anchored(stack)
  /\ pc = "skip" => stack[1] = "statements"
  /\ pc = "scan" => stack[1] \in NonTerminals

ParserInv == PlaceInv /\ ReportInv /\ StackInv

LEMMA InvImpliesTypeOK == ParserInv => TypeOK
BY DEF ParserInv, PlaceInv, StackInv, Anchored, WellFormed, Placed, InputType, TypeOK

LEMMA InvImpliesReportsInOrder == ParserInv => ReportsInOrder
BY DEF ParserInv, ReportInv, Sorted, ReportsInOrder

LEMMA InvImpliesRecovery == ParserInv => RecoveryFindsStatement
BY AnchoredFacts DEF ParserInv, StackInv, Anchored, RecoveryFindsStatement, Goal

-----------------------------------------------------------------------------
(* Appending to the reports a line no smaller than any of them.            *)
LEMMA AppendSorted ==
  ASSUME NEW s, Sorted(s), NEW b \in Nat, UpTo(s, b), NEW v \in Nat, b <= v
  PROVE  Sorted(Append(s, v)) /\ UpTo(Append(s, v), v)
<1>1. /\ s \in Seq(Nat) /\ Len(s) \in Nat /\ Append(s, v) \in Seq(Nat)
      /\ Len(Append(s, v)) = Len(s) + 1
      /\ \A k \in 1 .. Len(s) : Append(s, v)[k] = s[k] /\ s[k] \in Nat
      /\ Append(s, v)[Len(s) + 1] = v
  BY AppendProperties DEF Sorted
<1>2. \A k \in 1 .. Len(s) : s[k] <= v
  BY <1>1 DEF UpTo
<1>3. UpTo(Append(s, v), v)
  BY <1>1, <1>2 DEF UpTo
<1>4. ASSUME NEW k \in 1 .. Len(Append(s, v)) - 1
      PROVE  Append(s, v)[k] <= Append(s, v)[k + 1]
  <2>1. k \in 1 .. Len(s) /\ (k = Len(s) \/ (k \in 1 .. Len(s) - 1 /\ k + 1 \in 1 .. Len(s)))
    BY <1>1
  <2> QED BY <1>1, <1>2, <2>1 DEF Sorted
<1> QED BY <1>1, <1>3, <1>4 DEF Sorted

LEMMA UpToFurther ==
  ASSUME NEW s, Sorted(s), NEW b \in Nat, UpTo(s, b), NEW v \in Nat, b <= v
  PROVE  UpTo(s, v)
<1>1. \A k \in 1 .. Len(s) : s[k] \in Nat
  BY DEF Sorted
<1> QED BY <1>1 DEF UpTo

(* An error is reported at a line no report is below.                      *)
LEMMA ReportKeeps ==
  ASSUME NEW t, NEW l \in Nat, NEW b \in Nat, Sorted(reports), UpTo(reports, b), b <= l,
         Report(t, l)
  PROVE  Sorted(reports') /\ UpTo(reports', l) /\ lastErrorLine' = t.line
<1>1. CASE reports' = reports
  BY <1>1, UpToFurther DEF Report
<1>2. CASE reports' = Append(reports, l)
  BY <1>2, AppendSorted DEF Report
<1> QED BY <1>1, <1>2 DEF Report

LEMMA NextTokenKeeps ==
  ASSUME WellFormed(input), NextToken
  PROVE  /\ WellFormed(input') /\ Placed(token', input')
         /\ input'.lines = input.lines /\ input.line <= input'.line
         /\ input.line \in Nat /\ input'.line \in Nat
<1>1. PICK r \in Reads(input) : token' = r.token /\ input' = r.left
  BY DEF NextToken
<1>2. WellFormed(r.left) /\ r.left.lines = input.lines /\ input.line <= r.left.line
      /\ Placed(r.token, r.left)
  BY ReadsKeep
<1>3. input.line \in Nat /\ r.left.line \in Nat
  BY <1>2 DEF WellFormed, InputType
<1> QED BY <1>1, <1>2, <1>3

LEMMA InvInit == Init => ParserInv
<1> SUFFICES ASSUME Init PROVE ParserInv
  OBVIOUS
<1>1. PICK s \in Sources : \E r \in Reads(Opened(s)) : token = r.token /\ input = r.left
  BY DEF Init
<1>2. WellFormed(Opened(s))
  <2>1. /\ s.lead \in Seq(Tokens) /\ s.free \in Nat /\ s.alphabet \in SUBSET Tokens
        /\ s.lines \in Nat \ {0} /\ s.tail \in Seq(Tokens)
    BY SourcesAssumption
  <2> QED BY <2>1 DEF WellFormed, InputType, Opened
<1>3. WellFormed(input) /\ Placed(token, input) /\ input.line \in Nat /\ input.lines \in Nat
  <2>1. WellFormed(input) /\ Placed(token, input)
    BY <1>1, <1>2, ReadsKeep
  <2> QED BY <2>1 DEF WellFormed, InputType
<1>4. PlaceInv
  <2>1. skipped \in BOOLEAN
    BY Zenon DEF Init
  <2>2. lastErrorLine = 0 /\ pc = "parse"
    BY DEF Init
  <2> QED BY <1>3, <2>1, <2>2 DEF PlaceInv
<1>5. ReportInv
  BY <1>3 DEF Init, ReportInv, Sorted, UpTo
<1>6. StackInv
  <2>1. StartSymbol \in Symbols /\ StartSymbol \notin WithinStatement /\ StartSymbol # "DOLLAR"
    BY GrammarAssumption DEF Symbols, StartSymbol
  <2>2. "DOLLAR" \in Symbols /\ "DOLLAR" \notin WithinStatement
    BY SpecialTokens DEF Symbols, Tokens, WithinStatement
  <2>3. /\ stack \in Seq(Symbols) /\ Len(stack) = 2
        /\ stack[1] = StartSymbol /\ stack[2] = "DOLLAR"
    BY <2>1, <2>2 DEF Init
  <2> QED BY <2>1, <2>2, <2>3 DEF Init, StackInv, Anchored
<1> QED BY <1>4, <1>5, <1>6 DEF ParserInv

-----------------------------------------------------------------------------
(* Every step keeps the invariant.                                         *)
LEMMA Ranges ==
  ASSUME PlaceInv
  PROVE  /\ WellFormed(input) /\ input.line \in Nat /\ input.lines \in Nat
         /\ input.line <= input.lines /\ 1 <= input.line
         /\ token # NoToken => token.type \in Tokens /\ token.line = input.line
         /\ lastErrorLine \in Nat /\ lastErrorLine <= input.lines
         /\ NoToken.type = "NULL"
BY DEF PlaceInv, WellFormed, Placed, InputType, NoToken

(* The token looked at is one that the sets of a nonterminal may hold.     *)
LEMMA SyncOnTokens ==
  ASSUME PlaceInv, NEW X \in NonTerminals, token.type \in Sync(X) \cup First[X]
  PROVE  token # NoToken
<1>1. First[X] \subseteq Terminals /\ Follow[X] \subseteq Terminals
  BY TableAssumption DEF TableFits
<1> QED BY <1>1, TokensHaveNoNull, SpecialTokens DEF Sync, NoToken, Tokens

LEMMA ReadingKeepsPlace ==
  ASSUME PlaceInv, NextToken, lastErrorLine' = lastErrorLine,
         pc' \in {"parse", "skip", "scan"}, skipped' = skipped
  PROVE  PlaceInv'
<1>1. WellFormed(input)' /\ Placed(token, input)' /\ input'.lines = input.lines
  BY NextTokenKeeps DEF PlaceInv
<1>2. lastErrorLine' \in 0 .. input'.lines
  BY <1>1 DEF PlaceInv
<1>3. skipped' \in BOOLEAN
  BY DEF PlaceInv
<1> QED BY <1>1, <1>2, <1>3 DEF PlaceInv

LEMMA StandingKeepsPlace ==
  ASSUME PlaceInv, UNCHANGED <<input, token>>, lastErrorLine' \in 0 .. input.lines,
         pc' \in {"parse", "skip", "scan", "done", "exited", "crashed"},
         skipped' \in BOOLEAN
  PROVE  PlaceInv'
BY DEF PlaceInv

(* The reports stay above the token while nothing is reported.             *)
LEMMA ReadingKeepsReports ==
  ASSUME PlaceInv, ReportInv, NextToken, UNCHANGED <<reports, culprit>>,
         pc' = "scan" <=> pc = "scan"
  PROVE  ReportInv'
<1>1. PICK n \in Nat : input'.line = n /\ input.line <= n /\ input.line \in Nat
  BY NextTokenKeeps DEF PlaceInv
<1>2. CASE pc = "scan"
  <2>1. /\ culprit'.line \in Nat /\ culprit'.line <= n
        /\ UpTo(reports', culprit'.line) /\ Sorted(reports')
    BY <1>1, <1>2 DEF ReportInv
  <2> QED BY <1>1, <1>2, <2>1 DEF ReportInv
<1>3. CASE pc # "scan"
  <2>1. UpTo(reports, n) /\ Sorted(reports)
    BY <1>1, <1>3, UpToFurther DEF ReportInv
  <2> QED BY <1>1, <1>3, <2>1 DEF ReportInv
<1> QED BY <1>2, <1>3

LEMMA StandingKeepsReports ==
  ASSUME ReportInv, UNCHANGED <<input, reports, culprit>>, pc # "scan", pc' # "scan"
  PROVE  ReportInv'
BY DEF ReportInv

LEMMA StackUnchanged ==
  ASSUME StackInv, stack' = stack, pc' = pc \/ pc' \notin {"skip", "scan"}
  PROVE  StackInv'
BY DEF StackInv

LEMMA PopKeepsStack ==
  ASSUME StackInv, Goal # "DOLLAR", stack' = Tail(stack), pc' = "parse"
  PROVE  StackInv'
<1>1. Anchored(Tail(stack))
  BY TailAnchored, AnchoredFacts DEF StackInv, Goal
<1> QED BY <1>1 DEF StackInv

LEMMA InvNext == ParserInv /\ [Next]_vars => ParserInv'
<1> SUFFICES ASSUME ParserInv, [Next]_vars PROVE ParserInv'
  OBVIOUS
<1>0. PlaceInv /\ ReportInv /\ StackInv /\ skipped \in BOOLEAN
  BY DEF ParserInv, PlaceInv
<1> USE DEF ParserInv
<1>1. CASE Match
  <2>1. PlaceInv'
    BY <1>0, <1>1, ReadingKeepsPlace DEF Match, Parsing
  <2>2. ReportInv'
    BY <1>0, <1>1, ReadingKeepsReports DEF Match, Parsing
  <2>3. StackInv'
    BY <1>0, <1>1, PopKeepsStack DEF Match, Parsing
  <2> QED BY <2>1, <2>2, <2>3
<1>2. CASE Mismatch
  <2>0. /\ Parsing /\ Report(token, token.line) /\ UNCHANGED <<input, token, culprit, pc, skipped>>
        /\ stack' = Tail(stack) /\ pc = "parse" /\ token # NoToken /\ Goal # "DOLLAR"
    BY <1>2 DEF Mismatch, Parsing
  <2>1. /\ token.line = input.line /\ token.line \in Nat /\ input.line <= input.lines
        /\ UpTo(reports, input.line) /\ Sorted(reports)
    BY <1>0, <2>0, Ranges DEF ReportInv
  <2>2. Sorted(reports') /\ UpTo(reports', token.line) /\ lastErrorLine' = token.line
    BY <2>0, <2>1, ReportKeeps
  <2>3. PlaceInv'
    BY <1>0, <2>0, <2>1, <2>2, Ranges, StandingKeepsPlace
  <2>4. ReportInv'
    BY <2>0, <2>1, <2>2 DEF ReportInv
  <2>5. StackInv'
    BY <1>0, <2>0, PopKeepsStack
  <2> QED BY <2>3, <2>4, <2>5
<1>3. CASE Expand
  <2>0. /\ Parsing /\ HasCell /\ pc = "parse" /\ Goal # "DOLLAR"
        /\ UNCHANGED <<input, token, lastErrorLine, reports, culprit, pc, skipped>>
        /\ stack' = Expansion(Productions[Table[Cell]]) \o Tail(stack)
    BY <1>3 DEF Expand, Parsing
  <2>1. PlaceInv'
    BY <1>0, <2>0, StandingKeepsPlace DEF PlaceInv
  <2>2. ReportInv'
    BY <1>0, <2>0, StandingKeepsReports
  <2>3. Productions[Table[Cell]] \in ProductionSet /\ Productions[Table[Cell]].lhs = Goal
    BY <2>0, TableAssumption DEF TableFits, HasCell, Cell, ProductionSet
  <2>4. Goal = stack[1] /\ Anchored(stack)
    BY <1>0, AnchoredFacts DEF StackInv, Goal
  <2>5. Anchored(stack')
    BY <2>0, <2>3, <2>4, ExpansionAnchored
  <2>6. StackInv'
    BY <2>0, <2>5 DEF StackInv
  <2> QED BY <2>1, <2>2, <2>6
<1>4. CASE AbandonStatement
  <2> DEFINE from == SelectInSeq(stack, LAMBDA x : x = "statements")
  <2>0. /\ pc = "parse" /\ Goal = "whichAssignment" /\ skipped' = TRUE
        /\ UNCHANGED <<input, token, lastErrorLine, reports, culprit>>
        /\ stack' = IF from = 0 THEN << >> ELSE SubSeq(stack, from, Len(stack))
        /\ pc' = "skip"
    BY <1>4 DEF AbandonStatement, Parsing
  <2>1. /\ Anchored(stack) /\ 1 \in 1 .. Len(stack) /\ stack[1] \in WithinStatement
        /\ Len(stack) \in Nat
    BY <1>0, <2>0, AnchoredFacts DEF StackInv, Goal, WithinStatement
  <2>2. from \in 1 .. Len(stack) /\ stack[from] = "statements"
    BY <2>1, StatementsFound
  <2> HIDE DEF from
  <2>3. stack' = SubSeq(stack, from, Len(stack)) /\ pc' = "skip"
    BY <2>0, <2>1, <2>2
  <2>4. Anchored(stack') /\ stack'[1] = "statements"
    BY <2>1, <2>2, <2>3, SuffixAnchored
  <2>5. PlaceInv'
    <3>1. skipped' \in BOOLEAN
      BY <2>0, Zenon
    <3> QED BY <1>0, <2>0, <2>3, <3>1, StandingKeepsPlace DEF PlaceInv
  <2>6. ReportInv'
    BY <1>0, <2>0, <2>3, StandingKeepsReports
  <2>7. StackInv'
    BY <2>3, <2>4 DEF StackInv
  <2> QED BY <2>5, <2>6, <2>7
<1>5. CASE Skip
  <2>0. /\ pc = "skip" /\ NextToken /\ pc' \in {"parse", "skip"}
        /\ UNCHANGED <<stack, lastErrorLine, reports, culprit, skipped>>
    BY <1>5 DEF Skip
  <2>1. PlaceInv'
    BY <1>0, <2>0, ReadingKeepsPlace
  <2>2. ReportInv'
    BY <1>0, <2>0, ReadingKeepsReports
  <2>3. StackInv'
    BY <1>0, <2>0 DEF StackInv
  <2> QED BY <2>1, <2>2, <2>3
<1>6. CASE SkipPastEnd
  <2>0. pc = "skip" /\ pc' = "crashed"
        /\ UNCHANGED <<input, token, stack, lastErrorLine, reports, culprit, skipped>>
    BY <1>6 DEF SkipPastEnd
  <2> QED BY <1>0, <2>0, StandingKeepsPlace, StandingKeepsReports, StackUnchanged DEF PlaceInv
<1>7. CASE Resync
  <2>0. /\ pc = "parse" /\ token # NoToken /\ culprit' = token /\ pc' = "scan" /\ NextToken
        /\ Goal \in NonTerminals /\ UNCHANGED <<stack, lastErrorLine, reports, skipped>>
    BY <1>7 DEF Resync, Parsing
  <2>1. PlaceInv'
    BY <1>0, <2>0, ReadingKeepsPlace
  <2>2. PICK n \in Nat : input'.line = n /\ input.line <= n
    BY <1>0, NextTokenKeeps, <2>0 DEF PlaceInv
  <2>3. PICK m \in Nat : token.line = m /\ input.line = m /\ UpTo(reports, m) /\ Sorted(reports)
    BY <1>0, <2>0, Ranges DEF ReportInv
  <2>4. culprit'.line = m
    BY <2>0, <2>3
  <2>5. ReportInv'
    BY <2>0, <2>2, <2>3, <2>4 DEF ReportInv
  <2>6. StackInv'
    BY <1>0, <2>0, AnchoredFacts DEF StackInv, Goal
  <2> QED BY <2>1, <2>5, <2>6
<1>8. CASE ScanOn
  <2>0. /\ pc = "scan" /\ NextToken
        /\ UNCHANGED <<stack, lastErrorLine, reports, culprit, pc, skipped>>
    BY <1>8 DEF ScanOn
  <2> QED BY <1>0, <2>0, ReadingKeepsPlace, ReadingKeepsReports, StackUnchanged
<1>9. CASE ScanToFirst
  <2>0. /\ pc = "scan" /\ token.type \in First[Goal] /\ Report(token, token.line) /\ pc' = "parse"
        /\ UNCHANGED <<input, token, stack, culprit, skipped>>
    BY <1>9 DEF ScanToFirst
  <2>1. Goal \in NonTerminals /\ token # NoToken
    BY <1>0, <2>0, AnchoredFacts, SyncOnTokens DEF StackInv, Goal
  <2>2. PICK b \in Nat : b = culprit.line /\ b <= input.line /\ UpTo(reports, b) /\ Sorted(reports)
    BY <1>0, <2>0 DEF ReportInv
  <2>3. token.line = input.line /\ token.line \in Nat
    BY <1>0, <2>1, Ranges
  <2>4. Sorted(reports') /\ UpTo(reports', token.line) /\ lastErrorLine' = token.line
    BY <2>0, <2>2, <2>3, ReportKeeps
  <2>5. PlaceInv'
    BY <1>0, <2>0, <2>3, <2>4, Ranges, StandingKeepsPlace
  <2>6. ReportInv'
    BY <2>0, <2>3, <2>4 DEF ReportInv
  <2>7. StackInv'
    BY <1>0, <2>0, StackUnchanged
  <2> QED BY <2>5, <2>6, <2>7
<1>10. CASE ScanToFollow
  <2>0. /\ pc = "scan" /\ token.type \in Sync(Goal) /\ Report(token, culprit.line) /\ pc' = "parse"
        /\ stack' = Tail(stack) /\ UNCHANGED <<input, token, culprit, skipped>>
    BY <1>10 DEF ScanToFollow
  <2>1. Goal \in NonTerminals /\ token # NoToken
    BY <1>0, <2>0, AnchoredFacts, SyncOnTokens DEF StackInv, Goal
  <2>2. PICK b \in Nat : b = culprit.line /\ b <= input.line /\ UpTo(reports, b) /\ Sorted(reports)
    BY <1>0, <2>0 DEF ReportInv
  <2>3. token.line = input.line /\ token.line \in Nat
    BY <1>0, <2>1, Ranges
  <2>4. Sorted(reports') /\ UpTo(reports', b) /\ lastErrorLine' = token.line
    BY <2>0, <2>2, ReportKeeps
  <2>5. UpTo(reports', input.line)
    BY <2>2, <2>3, <2>4, UpToFurther
  <2>6. PlaceInv'
    BY <1>0, <2>0, <2>3, <2>4, Ranges, StandingKeepsPlace
  <2>7. ReportInv'
    BY <2>0, <2>4, <2>5 DEF ReportInv
  <2>8. StackInv'
    BY <1>0, <2>0, <2>1, GrammarAssumption, SpecialTokens, PopKeepsStack DEF Tokens
  <2> QED BY <2>6, <2>7, <2>8
<1>11. CASE ScanToEnd
  <2>0. /\ pc = "scan" /\ reports' = Append(reports, culprit.line) /\ pc' = "parse"
        /\ UNCHANGED <<input, token, stack, lastErrorLine, culprit, skipped>>
    BY <1>11 DEF ScanToEnd
  <2>1. PICK b \in Nat : b = culprit.line /\ b <= input.line /\ UpTo(reports, b) /\ Sorted(reports)
    BY <1>0, <2>0 DEF ReportInv
  <2>2. Sorted(reports') /\ UpTo(reports', b)
    BY <2>0, <2>1, AppendSorted
  <2>3. UpTo(reports', input.line)
    BY <1>0, <2>1, <2>2, Ranges, UpToFurther
  <2>4. PlaceInv'
    BY <1>0, <2>0, StandingKeepsPlace DEF PlaceInv
  <2>5. ReportInv'
    BY <2>0, <2>2, <2>3 DEF ReportInv
  <2>6. StackInv'
    BY <1>0, <2>0, StackUnchanged
  <2> QED BY <2>4, <2>5, <2>6
<1>12. CASE RunAction
  <2>0. /\ pc = "parse" /\ Goal # "DOLLAR" /\ stack' = Tail(stack)
        /\ UNCHANGED <<input, token, lastErrorLine, reports, culprit, pc, skipped>>
    BY <1>12 DEF RunAction, Parsing
  <2> QED BY <1>0, <2>0, StandingKeepsPlace, StandingKeepsReports, PopKeepsStack DEF PlaceInv
<1>13. CASE CrashInAction \/ Exit \/ Finish
  <2>0. /\ pc = "parse" /\ pc' \in {"crashed", "exited", "done"}
        /\ UNCHANGED <<input, token, stack, lastErrorLine, reports, culprit, skipped>>
    BY <1>13 DEF CrashInAction, Exit, Finish, Parsing
  <2> QED BY <1>0, <2>0, StandingKeepsPlace, StandingKeepsReports, StackUnchanged DEF PlaceInv
<1>14. CASE UNCHANGED vars
  BY <1>14, <1>0 DEF vars, PlaceInv, ReportInv, StackInv
<1> QED
  BY <1>1, <1>2, <1>3, <1>4, <1>5, <1>6, <1>7, <1>8, <1>9, <1>10, <1>11, <1>12, <1>13, <1>14
  DEF Next, Recover

(* On every source the parser keeps to the inductive invariant.            *)
THEOREM ParserInvariant == Spec => []ParserInv
<1>1. Init => ParserInv
  BY InvInit
<1>2. ParserInv /\ [Next]_vars => ParserInv'
  BY InvNext
<1> QED BY <1>1, <1>2, PTL DEF Spec

(* The types of the parser's state: the token is on a line of the source,  *)
(* and the stack holds symbols of the grammar.                             *)
THEOREM ParserTypeCorrect == Spec => []TypeOK
<1>1. ParserInv => TypeOK
  BY InvImpliesTypeOK
<1> QED BY <1>1, ParserInvariant, PTL

(* Errors are reported from the top of the source down, however many of    *)
(* them the recovery goes through (the reports of parse_tree.c).        *)
THEOREM ErrorsGoDownTheSource == Spec => []ReportsInOrder
<1>1. ParserInv => ReportsInOrder
  BY InvImpliesReportsInOrder
<1> QED BY <1>1, ParserInvariant, PTL

(* The loop that pops the stack after a bad assignment always meets a list *)
(* of statements, and the stack never runs empty.                          *)
THEOREM StatementsAlwaysFound == Spec => []RecoveryFindsStatement
<1>1. ParserInv => RecoveryFindsStatement
  BY InvImpliesRecovery
<1> QED BY <1>1, ParserInvariant, PTL

-----------------------------------------------------------------------------
(* What the grammar derives.  A sentential form is a sequence of symbols;  *)
(* a step replaces a nonterminal by a right-hand side of one of its        *)
(* productions, or carries out a semantic action, which leaves nothing.    *)
(* A form is derived if it is in every set that has the first form and is  *)
(* closed under these steps.                                               *)
Forms == Seq(Symbols)
Closed(D) ==
  /\ \A u, v \in Forms, p \in ProductionSet :
       u \o (<<p.lhs>> \o v) \in D => u \o (Expansion(p) \o v) \in D
  /\ \A u, v \in Forms, a \in Actions : u \o (<<a>> \o v) \in D => u \o v \in D
Derived(s) == \A D \in SUBSET Forms : Closed(D) /\ <<StartSymbol, "DOLLAR">> \in D => s \in D

(* The sentences, a sequence of tokens before the end of the source.       *)
Sentence(s) == s \in Seq(Terminals) /\ Derived(s \o <<"DOLLAR">>)

(* As long as nothing went wrong, the tokens matched and the symbols still *)
(* expected make up a form that the grammar derives.                       *)
Matching == seen \in Seq(Terminals) /\ (~GotError /\ ~skipped => Derived(seen \o stack))

AcceptsSentences ==
  pc = "done" /\ Goal = "DOLLAR" /\ ~GotError /\ ~skipped => Sentence(seen)

LEMMA DerivedExpands ==
  ASSUME NEW u \in Forms, NEW v \in Forms, NEW p \in ProductionSet, Derived(u \o (<<p.lhs>> \o v))
  PROVE  Derived(u \o (Expansion(p) \o v))
BY DEF Derived, Closed

LEMMA DerivedActs ==
  ASSUME NEW u \in Forms, NEW v \in Forms, NEW a \in Actions, Derived(u \o (<<a>> \o v))
  PROVE  Derived(u \o v)
BY DEF Derived, Closed

LEMMA HeadAndTail ==
  ASSUME NEW s \in Forms, s # << >>
  PROVE  s = <<Head(s)>> \o Tail(s) /\ Tail(s) \in Forms /\ Head(s) \in Symbols
<1>1. Tail(s) \in Forms /\ Head(s) \in Symbols /\ <<Head(s)>> \in Forms
  BY HeadTailProperties DEF Forms
<1> DEFINE t == <<Head(s)>> \o Tail(s)
<1>2. /\ Len(s) \in Nat /\ Len(s) >= 1 /\ Len(Tail(s)) = Len(s) - 1 /\ Head(s) = s[1]
      /\ \A k \in 1 .. Len(Tail(s)) : Tail(s)[k] = s[k + 1]
  BY HeadTailProperties, EmptySeq DEF Forms
<1>3. /\ t \in Forms /\ Len(t) = 1 + Len(Tail(s)) /\ t[1] = Head(s)
      /\ \A k \in 2 .. Len(t) : t[k] = Tail(s)[k - 1]
  BY <1>1, <1>2, ConcatProperties DEF Forms
<1>4. \A k \in 1 .. Len(s) : s[k] = t[k]
  BY <1>2, <1>3
<1> QED BY <1>1, <1>2, <1>3, <1>4, SeqEqual DEF Forms

LEMMA StackIsForm ==
  ASSUME StackInv
  PROVE  /\ stack \in Forms /\ Tail(stack) \in Forms /\ Goal \in Symbols
         /\ stack = <<Goal>> \o Tail(stack)
BY HeadAndTail DEF StackInv, Anchored, Forms, Goal

LEMMA SeenIsForm ==
  ASSUME seen \in Seq(Terminals)
  PROVE  seen \in Forms
BY SeqMonotonic DEF Forms, Symbols

(* Nothing was matched or expected anew.                                   *)
LEMMA MatchingUnchanged ==
  ASSUME Matching, UNCHANGED <<seen, stack>>, skipped => skipped', GotError => GotError'
  PROVE  Matching'
BY DEF Matching

LEMMA MatchingInit == Init => Matching
<1> SUFFICES ASSUME Init PROVE Matching
  OBVIOUS
<1>1. StartSymbol \in Symbols /\ "DOLLAR" \in Symbols
  BY GrammarAssumption, SpecialTokens DEF Symbols, Tokens
<1>2. stack \in Forms /\ seen = << >> /\ stack = <<StartSymbol, "DOLLAR">>
  BY <1>1 DEF Init, Forms
<1>3. seen \o stack = stack
  BY <1>2, ConcatEmptySeq DEF Forms
<1> QED BY <1>2, <1>3 DEF Matching, Derived

LEMMA MatchingNext == ParserInv /\ Matching /\ [Next]_vars => Matching'
<1> SUFFICES ASSUME ParserInv, Matching, [Next]_vars PROVE Matching'
  OBVIOUS
<1>0. PlaceInv /\ StackInv /\ seen \in Seq(Terminals) /\ seen \in Forms
  BY SeenIsForm DEF ParserInv, Matching
<1>1. CASE Match
  <2>0. /\ Goal \in Terminals /\ Goal = token.type /\ stack' = Tail(stack)
        /\ seen' = Append(seen, Goal) /\ UNCHANGED <<lastErrorLine, skipped>>
    BY <1>1 DEF Match
  <2>1. /\ seen' \in Seq(Terminals) /\ seen' = seen \o <<Goal>>
        /\ <<Goal>> \in Forms
    BY <1>0, <2>0, AppendProperties, AppendIsConcat DEF Forms, Symbols
  <2>2. seen' \o stack' = seen \o stack
    BY <1>0, <2>0, <2>1, StackIsForm, ConcatAssociative DEF Forms
  <2> QED BY <2>0, <2>1, <2>2 DEF Matching, GotError
<1>2. CASE Expand
  <2>0. /\ HasCell /\ stack' = Expansion(Productions[Table[Cell]]) \o Tail(stack)
        /\ UNCHANGED <<seen, lastErrorLine, skipped>>
    BY <1>2 DEF Expand
  <2>1. PICK p \in ProductionSet : p.lhs = Goal /\ stack' = Expansion(p) \o Tail(stack)
    BY <2>0, TableAssumption DEF TableFits, HasCell, Cell, ProductionSet
  <2>2. Derived(seen \o (<<p.lhs>> \o Tail(stack))) => Derived(seen \o stack')
    BY <1>0, <2>1, StackIsForm, DerivedExpands
  <2>3. Derived(seen \o stack) => Derived(seen \o stack')
    BY <1>0, <2>1, <2>2, StackIsForm
  <2> QED BY <1>0, <2>0, <2>3 DEF Matching, GotError
<1>3. CASE RunAction
  <2>0. /\ Goal \in Actions /\ stack' = Tail(stack)
        /\ UNCHANGED <<seen, lastErrorLine, skipped>>
    BY <1>3 DEF RunAction
  <2>1. Derived(seen \o stack) => Derived(seen \o stack')
    BY <1>0, <2>0, StackIsForm, DerivedActs
  <2> QED BY <1>0, <2>0, <2>1 DEF Matching, GotError
<1>4. CASE Mismatch \/ ScanToFirst \/ ScanToFollow
  <2>1. CASE Mismatch
    BY <1>0, <2>1, Ranges DEF Mismatch, Parsing, Report, Matching, GotError
  <2>2. CASE ScanToFirst \/ ScanToFollow
    <3>1. pc = "scan" /\ Goal \in NonTerminals /\ token.type \in Sync(Goal) \cup First[Goal]
      BY <1>0, <2>2, AnchoredFacts DEF ScanToFirst, ScanToFollow, StackInv, Goal
    <3>2. token # NoToken
      BY <1>0, <3>1, SyncOnTokens
    <3>3. lastErrorLine' = token.line /\ UNCHANGED seen
      BY <2>2 DEF ScanToFirst, ScanToFollow, Report
    <3> QED BY <1>0, <3>2, <3>3, Ranges DEF Matching, GotError
  <2> QED BY <1>4, <2>1, <2>2
<1>5. CASE AbandonStatement
  BY <1>0, <1>5 DEF AbandonStatement, Matching
<1>6. CASE Skip \/ SkipPastEnd \/ Resync \/ ScanOn \/ ScanToEnd
  BY <1>6, MatchingUnchanged DEF Skip, SkipPastEnd, Resync, ScanOn, ScanToEnd, GotError
<1>7. CASE CrashInAction \/ Exit \/ Finish \/ UNCHANGED vars
  BY <1>7, MatchingUnchanged DEF CrashInAction, Exit, Finish, vars, GotError
<1> QED BY <1>1, <1>2, <1>3, <1>4, <1>5, <1>6, <1>7 DEF Next, Recover

LEMMA MatchingAccepts == ParserInv /\ Matching => AcceptsSentences
<1> SUFFICES ASSUME ParserInv, Matching, Goal = "DOLLAR", ~GotError, ~skipped
             PROVE  Sentence(seen)
  BY DEF AcceptsSentences
<1>1. Anchored(stack) /\ stack[1] = "DOLLAR" /\ Len(stack) \in Nat /\ Len(stack) >= 1
  BY AnchoredFacts DEF ParserInv, StackInv, Goal
<1>2. Len(stack) = 1
  <2>1. 1 \notin 1 .. Len(stack) - 1
    BY <1>1 DEF Anchored
  <2> QED BY <1>1, <2>1
<1>3. stack = <<"DOLLAR">>
  BY <1>1, <1>2, SeqEqual DEF Anchored
<1> QED BY <1>3 DEF Sentence, Matching

(* The parser accepts only programs: when its loop ends at the DOLLAR of   *)
(* the stack, with no error met and no statement dropped, the tokens it    *)
(* has matched are a sentence of the grammar, whatever cells the parse     *)
(* table leaves empty (construct_parse_tree() in parse_tree.c).            *)
THEOREM AcceptedIsSentence == Spec => []AcceptsSentences
<1>1. Init => Matching
  BY MatchingInit
<1>2. ParserInv /\ Matching /\ [Next]_vars => Matching'
  BY MatchingNext
<1>3. ParserInv /\ Matching => AcceptsSentences
  BY MatchingAccepts
<1> QED BY <1>1, <1>2, <1>3, ParserInvariant, PTL DEF Spec

-----------------------------------------------------------------------------
(* What a sentence can go on with, position by position: sequences that    *)
(* agree from some place on are continued in the same way from there on.   *)
LEMMA ContinuesMember ==
  ASSUME NEW s, NEW k, NEW t
  PROVE  t \in ContinuesFrom(s, k) <=>
           \E m \in k .. Len(s) : MayVanish(s, k, m - 1) /\ t \in Starting(s[m])
BY DEF ContinuesFrom

AgreeFrom(u, s, d, k) ==
  /\ Len(s) \in Nat /\ Len(u) \in Nat /\ d \in Int /\ k \in Nat
  /\ Len(s) = Len(u) + d
  /\ \A j \in k .. Len(u) : u[j] = s[j + d]

LEMMA ContinuesShifted ==
  ASSUME NEW u, NEW s, NEW d, NEW k, AgreeFrom(u, s, d, k)
  PROVE  ContinuesFrom(u, k) \subseteq ContinuesFrom(s, k + d)
<1> SUFFICES ASSUME NEW t \in ContinuesFrom(u, k) PROVE t \in ContinuesFrom(s, k + d)
  OBVIOUS
<1>0. Len(s) \in Nat /\ Len(u) \in Nat /\ d \in Int /\ k \in Nat /\ Len(s) = Len(u) + d
  BY DEF AgreeFrom
<1>1. PICK m \in k .. Len(u) : MayVanish(u, k, m - 1) /\ t \in Starting(u[m])
  BY ContinuesMember
<1>2. m \in Int /\ m + d \in k + d .. Len(s) /\ u[m] = s[m + d]
  BY <1>0, <1>1 DEF AgreeFrom
<1>3. ASSUME NEW j \in k + d .. (m + d) - 1 PROVE "EPSILON" \in Starting(s[j])
  <2>1. j \in Int /\ j - d \in k .. m - 1 /\ j - d \in k .. Len(u) /\ (j - d) + d = j
    BY <1>0, <1>2
  <2>2. u[j - d] = s[j]
    BY <2>1 DEF AgreeFrom
  <2> QED BY <1>1, <2>1, <2>2 DEF MayVanish
<1>4. MayVanish(s, k + d, (m + d) - 1)
  BY <1>3 DEF MayVanish
<1> QED BY <1>1, <1>2, <1>4, ContinuesMember

LEMMA ContinuesNext ==
  ASSUME NEW s, Len(s) \in Nat, NEW k \in 1 .. Len(s), NEW t \in ContinuesFrom(s, k)
  PROVE  t \in Starting(s[k]) \/ ("EPSILON" \in Starting(s[k]) /\ t \in ContinuesFrom(s, k + 1))
<1>1. PICK m \in k .. Len(s) : MayVanish(s, k, m - 1) /\ t \in Starting(s[m])
  BY ContinuesMember
<1>2. CASE m = k
  BY <1>1, <1>2
<1>3. CASE m # k
  <2>1. k \in k .. m - 1 /\ m \in k + 1 .. Len(s) /\ \A j \in k + 1 .. m - 1 : j \in k .. m - 1
    BY <1>1, <1>3
  <2>2. "EPSILON" \in Starting(s[k]) /\ MayVanish(s, k + 1, m - 1)
    BY <1>1, <2>1 DEF MayVanish
  <2> QED BY <1>1, <2>1, <2>2, ContinuesMember
<1> QED BY <1>2, <1>3

(* A sequence that goes on with another.                                   *)
LEMMA ContinuesJoined ==
  ASSUME NEW e \in Seq(Symbols), NEW r \in Seq(Symbols), NEW k \in 1 .. Len(e) + 1,
         NEW t \in ContinuesFrom(e \o r, k)
  PROVE  \/ t \in ContinuesFrom(e, k)
         \/ MayVanish(e, k, Len(e)) /\ t \in ContinuesFrom(r, 1)
<1> DEFINE u == e \o r
<1>0. /\ Len(e) \in Nat /\ Len(r) \in Nat /\ Len(u) = Len(e) + Len(r) /\ k \in Nat
      /\ \A j \in 1 .. Len(e) : u[j] = e[j]
      /\ \A j \in 1 .. Len(r) : u[Len(e) + j] = r[j]
  BY ConcatProperties
<1>1. t \in ContinuesFrom(u, k)
  OBVIOUS
<1> HIDE DEF u
<1>2. PICK m \in k .. Len(u) : MayVanish(u, k, m - 1) /\ t \in Starting(u[m])
  BY <1>1, ContinuesMember
<1>3. CASE m <= Len(e)
  <2>1. m \in k .. Len(e) /\ u[m] = e[m] /\ \A j \in k .. m - 1 : j \in 1 .. Len(e)
    BY <1>0, <1>2, <1>3
  <2>2. MayVanish(e, k, m - 1)
    BY <1>0, <1>2, <2>1 DEF MayVanish
  <2> QED BY <1>2, <2>1, <2>2, ContinuesMember
<1>4. CASE m > Len(e)
  <2>1. m \in Int /\ m - Len(e) \in 1 .. Len(r) /\ Len(e) + (m - Len(e)) = m
    BY <1>0, <1>2, <1>4
  <2>2. u[m] = r[m - Len(e)]
    BY <1>0, <2>1
  <2>3. ASSUME NEW j \in 1 .. (m - Len(e)) - 1 PROVE "EPSILON" \in Starting(r[j])
    <3>1. j \in 1 .. Len(r) /\ Len(e) + j \in k .. m - 1
      BY <1>0, <2>1
    <3> QED BY <1>0, <1>2, <3>1 DEF MayVanish
  <2>4. ASSUME NEW j \in k .. Len(e) PROVE "EPSILON" \in Starting(e[j])
    <3>1. j \in 1 .. Len(e) /\ j \in k .. m - 1
      BY <1>0, <1>2, <1>4
    <3> QED BY <1>0, <1>2, <3>1 DEF MayVanish
  <2>5. MayVanish(e, k, Len(e)) /\ MayVanish(r, 1, (m - Len(e)) - 1)
    BY <2>3, <2>4 DEF MayVanish
  <2> QED BY <1>2, <2>1, <2>2, <2>5, ContinuesMember
<1> QED BY <1>0, <1>2, <1>3, <1>4

-----------------------------------------------------------------------------
(* The strengthening of FirstErrorIsReal.  What can come after a           *)
(* nonterminal of the stack is in its FOLLOW set, which knows nothing of   *)
(* the stack: so a nonterminal that may be empty has a cell for whatever   *)
(* the symbols under it begin with.                                        *)
FollowedBy(s, k) == ContinuesFrom(s, k + 1) \ {"EPSILON"} \subseteq Follow[s[k]]
Predictable(s) ==
  \A k \in 1 .. Len(s) : s[k] # "EPSILON" /\ (s[k] \in NonTerminals => FollowedBy(s, k))

Guided == pc = "parse" /\ token # NoToken /\ ~GotError /\ ~skipped => Predictable(stack)

LEMMA SymbolsApart ==
  /\ "EPSILON" \notin Tokens /\ "DOLLAR" \in Tokens /\ Tokens \subseteq Terminals
  /\ "EPSILON" \notin NonTerminals /\ "DOLLAR" \notin NonTerminals
BY GrammarAssumption DEF Tokens, Terminals

LEMMA InitPredictable == Predictable(<<StartSymbol, "DOLLAR">>)
<1> DEFINE s == <<StartSymbol, "DOLLAR">>
<1>1. Len(s) = 2 /\ s[1] = StartSymbol /\ s[2] = "DOLLAR"
  OBVIOUS
<1> HIDE DEF s
<1>2. ASSUME NEW t \in ContinuesFrom(s, 2) PROVE t \in Follow[StartSymbol]
  <2>1. PICK m \in 2 .. 2 : t \in Starting(s[m])
    BY <1>1, ContinuesMember
  <2>2. t \in Starting("DOLLAR")
    BY <1>1, <2>1
  <2> QED BY <2>2, SymbolsApart, PredictAssumption, GrammarAssumption DEF Predictive, Starting
<1>3. StartSymbol # "EPSILON"
  BY SymbolsApart, GrammarAssumption
<1> QED
  BY <1>1, <1>2, <1>3, SymbolsApart DEF Predictable, FollowedBy, s

LEMMA TailPredictable ==
  ASSUME NEW s \in Seq(Symbols), s # << >>, Predictable(s)
  PROVE  Predictable(Tail(s))
<1> DEFINE r == Tail(s)
<1>1. /\ Len(s) \in Nat /\ Len(s) >= 1 /\ Len(r) = Len(s) - 1 /\ Len(r) \in Nat
      /\ \A k \in 1 .. Len(r) : r[k] = s[k + 1]
  BY HeadTailProperties, EmptySeq
<1> HIDE DEF r
<1>2. ASSUME NEW k \in 1 .. Len(r)
      PROVE  r[k] # "EPSILON" /\ (r[k] \in NonTerminals => FollowedBy(r, k))
  <2>1. k \in Nat /\ k + 1 \in 1 .. Len(s) /\ r[k] = s[k + 1]
    BY <1>1
  <2>2. AgreeFrom(r, s, 1, k + 1)
    BY <1>1, <2>1 DEF AgreeFrom
  <2>3. ContinuesFrom(r, k + 1) \subseteq ContinuesFrom(s, (k + 1) + 1)
    BY <2>2, ContinuesShifted
  <2> QED BY <2>1, <2>3 DEF Predictable, FollowedBy
<1> QED BY <1>2 DEF Predictable, r

LEMMA ExpansionPredictable ==
  ASSUME NEW s \in Seq(Symbols), s # << >>, Predictable(s),
         NEW p \in ProductionSet, p.lhs = s[1], s[1] \in NonTerminals
  PROVE  Predictable(Expansion(p) \o Tail(s))
<1> DEFINE e == Expansion(p)
           r == Tail(s)
           u == e \o r
<1>1. /\ Len(s) \in Nat /\ Len(s) >= 1 /\ Len(r) = Len(s) - 1 /\ Len(r) \in Nat
      /\ \A k \in 1 .. Len(r) : r[k] = s[k + 1]
      /\ r \in Seq(Symbols) /\ e \in Seq(Symbols) /\ Len(e) \in Nat
  BY HeadTailProperties, EmptySeq, ExpansionFacts, SeqMonotonic
<1>2. /\ u \in Seq(Symbols) /\ Len(u) = Len(e) + Len(r)
      /\ \A j \in 1 .. Len(e) : u[j] = e[j]
      /\ \A j \in 1 .. Len(r) : u[Len(e) + j] = r[j]
  BY <1>1, ConcatProperties
<1>3. \A k \in 1 .. Len(e) :
        /\ e[k] # "EPSILON"
        /\ e[k] \in NonTerminals =>
             /\ ContinuesFrom(e, k + 1) \ {"EPSILON"} \subseteq Follow[e[k]]
             /\ MayVanish(e, k + 1, Len(e)) => Follow[p.lhs] \subseteq Follow[e[k]]
  BY <1>1, PredictAssumption DEF Predictive
<1>4. Predictable(r)
  BY TailPredictable
<1>5. ContinuesFrom(r, 1) \ {"EPSILON"} \subseteq Follow[p.lhs]
  <2>1. AgreeFrom(r, s, 1, 1)
    BY <1>1 DEF AgreeFrom
  <2>2. ContinuesFrom(r, 1) \subseteq ContinuesFrom(s, 1 + 1)
    BY <2>1, ContinuesShifted
  <2>3. 1 \in 1 .. Len(s)
    BY <1>1
  <2> QED BY <2>2, <2>3 DEF Predictable, FollowedBy
<1>6. \A k \in 1 .. Len(e) + 1 : \A t \in ContinuesFrom(u, k) :
        t \in ContinuesFrom(e, k) \/ (MayVanish(e, k, Len(e)) /\ t \in ContinuesFrom(r, 1))
  BY <1>1, ContinuesJoined
<1> HIDE DEF e, r, u
<1>7. ASSUME NEW k \in 1 .. Len(u), k <= Len(e)
      PROVE  u[k] # "EPSILON" /\ (u[k] \in NonTerminals => FollowedBy(u, k))
  <2>1. k \in 1 .. Len(e) /\ k + 1 \in 1 .. Len(e) + 1 /\ u[k] = e[k]
    BY <1>1, <1>2, <1>7
  <2> QED BY <1>3, <1>5, <1>6, <2>1 DEF FollowedBy
<1>8. ASSUME NEW k \in 1 .. Len(u), k > Len(e)
      PROVE  u[k] # "EPSILON" /\ (u[k] \in NonTerminals => FollowedBy(u, k))
  <2>1. PICK d \in Int : d = 0 - Len(e)
    BY <1>1
  <2>2. k \in Nat /\ k + d \in 1 .. Len(r) /\ u[k] = r[k + d]
    <3>1. k - Len(e) \in 1 .. Len(r) /\ Len(e) + (k - Len(e)) = k
      BY <1>1, <1>2, <1>8
    <3>2. u[k] = r[k - Len(e)] /\ k + d = k - Len(e)
      BY <1>2, <2>1, <3>1
    <3> QED BY <1>1, <1>2, <3>1, <3>2
  <2>3. ASSUME NEW j \in k + 1 .. Len(u) PROVE u[j] = r[j + d]
    <3>1. j - Len(e) \in 1 .. Len(r) /\ Len(e) + (j - Len(e)) = j /\ j + d = j - Len(e)
      BY <1>1, <1>2, <1>8, <2>1
    <3>2. u[Len(e) + (j - Len(e))] = r[j - Len(e)]
      BY <1>2, <3>1
    <3> QED BY <3>1, <3>2
  <2>4. AgreeFrom(u, r, d, k + 1)
    <3>1. Len(e) \in Nat /\ Len(r) \in Nat /\ Len(u) = Len(e) + Len(r)
      BY <1>1, <1>2
    <3>2. Len(u) \in Nat /\ Len(r) = Len(u) + d
      BY <2>1, <3>1
    <3>3. k + 1 \in Nat
      BY <2>2
    <3> QED BY <2>3, <3>1, <3>2, <3>3 DEF AgreeFrom
  <2>5. ContinuesFrom(u, k + 1) \subseteq ContinuesFrom(r, (k + d) + 1)
    <3>1. (k + 1) + d = (k + d) + 1
      BY <2>1, <2>2
    <3> QED BY <2>4, <3>1, ContinuesShifted
  <2> QED BY <1>4, <2>2, <2>5 DEF Predictable, FollowedBy
<1>9. \A k \in 1 .. Len(u) : k <= Len(e) \/ k > Len(e)
  BY <1>1, <1>2
<1> QED BY <1>7, <1>8, <1>9 DEF Predictable, u, e, r

-----------------------------------------------------------------------------
LEMMA GuidedInit == Init => Guided
BY InitPredictable DEF Init, Guided

(* After a step that reports, skips or scans nothing is claimed.           *)
LEMMA GuidedVacuous ==
  ASSUME \/ pc' # "parse" \/ token' = NoToken
         \/ lastErrorLine' # 0 \/ skipped' = TRUE
  PROVE  Guided'
BY DEF Guided, GotError

(* Tokens are only skipped after a statement was dropped.                  *)
SkipsStatement == pc = "skip" => skipped = TRUE

LEMMA SkipsStatementNext == SkipsStatement /\ [Next]_vars => SkipsStatement'
BY DEF SkipsStatement, Next, Recover, vars, Match, Mismatch, Expand, AbandonStatement, Skip,
       SkipPastEnd, Resync, ScanOn, ScanToFirst, ScanToFollow, ScanToEnd, RunAction,
       CrashInAction, Exit, Finish, Parsing

LEMMA GuidedNext == ParserInv /\ SkipsStatement /\ Guided /\ [Next]_vars => Guided'
<1> SUFFICES ASSUME ParserInv, SkipsStatement, Guided, [Next]_vars PROVE Guided'
  OBVIOUS
<1>0. PlaceInv /\ StackInv /\ stack \in Seq(Symbols) /\ stack # << >> /\ Goal = stack[1]
  BY AnchoredFacts DEF ParserInv, StackInv, Anchored, Goal
<1>1. CASE Match \/ RunAction
  <2>1. /\ pc = "parse" /\ token # NoToken /\ stack' = Tail(stack)
        /\ UNCHANGED <<lastErrorLine, skipped>>
    BY <1>1 DEF Match, RunAction, Parsing
  <2>2. Predictable(stack) => Predictable(stack')
    BY <1>0, <2>1, TailPredictable
  <2> QED BY <2>1, <2>2 DEF Guided, GotError
<1>2. CASE Expand
  <2>1. /\ pc = "parse" /\ token # NoToken /\ Goal \in NonTerminals /\ HasCell
        /\ stack' = Expansion(Productions[Table[Cell]]) \o Tail(stack)
        /\ UNCHANGED <<lastErrorLine, skipped>>
    BY <1>2 DEF Expand, Parsing
  <2>2. PICK p \in ProductionSet : p.lhs = Goal /\ stack' = Expansion(p) \o Tail(stack)
    BY <2>1, TableAssumption DEF TableFits, HasCell, Cell, ProductionSet
  <2>3. Predictable(stack) => Predictable(stack')
    BY <1>0, <2>1, <2>2, ExpansionPredictable
  <2> QED BY <2>1, <2>3 DEF Guided, GotError
<1>3. CASE Mismatch
  <2>1. lastErrorLine' = token.line /\ token # NoToken
    BY <1>3 DEF Mismatch, Report, Parsing
  <2>2. lastErrorLine' # 0
    BY <1>0, <2>1, Ranges
  <2> QED BY <2>2, GuidedVacuous
<1>4. CASE ScanToFirst \/ ScanToFollow
  <2>1. pc = "scan" /\ Goal \in NonTerminals /\ token.type \in Sync(Goal) \cup First[Goal]
    BY <1>0, <1>4 DEF ScanToFirst, ScanToFollow, StackInv
  <2>2. token # NoToken
    BY <1>0, <2>1, SyncOnTokens
  <2>3. lastErrorLine' = token.line
    BY <1>4 DEF ScanToFirst, ScanToFollow, Report
  <2>4. lastErrorLine' # 0
    BY <1>0, <2>2, <2>3, Ranges
  <2> QED BY <2>4, GuidedVacuous
<1>5. CASE AbandonStatement
  BY <1>5, GuidedVacuous DEF AbandonStatement
<1>6. CASE Skip \/ ScanToEnd
  <2>1. CASE Skip
    BY <2>1, GuidedVacuous DEF Skip, SkipsStatement
  <2>2. CASE ScanToEnd
    BY <2>2, GuidedVacuous DEF ScanToEnd
  <2> QED BY <1>6, <2>1, <2>2
<1>7. CASE SkipPastEnd \/ Resync \/ ScanOn \/ CrashInAction \/ Exit \/ Finish
  BY <1>7, GuidedVacuous DEF SkipPastEnd, Resync, ScanOn, CrashInAction, Exit, Finish
<1>8. CASE UNCHANGED vars
  BY <1>8 DEF vars, Guided, GotError
<1> QED BY <1>1, <1>2, <1>3, <1>4, <1>5, <1>6, <1>7, <1>8 DEF Next, Recover

LEMMA GuidedImpliesReal == ParserInv /\ Guided => FirstErrorIsReal
<1> SUFFICES ASSUME ParserInv, Guided, Parsing, Sound,
                    Goal \in Terminals => Goal # token.type,
                    Goal \notin Terminals => Goal \in NonTerminals /\ ~HasCell,
                    token.type \in ContinuesFrom(stack, 1)
             PROVE  FALSE
  BY DEF FirstErrorIsReal
<1>1. /\ stack \in Seq(Symbols) /\ Len(stack) \in Nat /\ 1 \in 1 .. Len(stack)
      /\ Goal = stack[1] /\ token.type \in Tokens /\ token.type # "EPSILON"
  BY AnchoredFacts, Ranges, SymbolsApart DEF ParserInv, StackInv, Anchored, Goal, Parsing, PlaceInv, Placed
<1>2. Goal # "EPSILON" /\ (Goal \in NonTerminals => FollowedBy(stack, 1))
  BY <1>1 DEF Guided, Sound, Parsing, Predictable
<1>3. \/ token.type \in Starting(Goal)
      \/ "EPSILON" \in Starting(Goal) /\ token.type \in ContinuesFrom(stack, 1 + 1)
  BY <1>1, ContinuesNext
<1>4. CASE Goal \in Terminals
  <2>1. Starting(Goal) = {Goal}
    BY <1>4, GrammarAssumption DEF Starting
  <2> QED BY <1>2, <1>3, <1>4, <2>1
<1>5. CASE Goal \notin Terminals
  <2>1. Goal \in NonTerminals /\ Starting(Goal) = First[Goal] /\ ~HasCell
    BY <1>5, GrammarAssumption DEF Starting
  <2>2. token.type \in Follow[Goal] \/ token.type \in First[Goal]
    BY <1>1, <1>2, <1>3, <2>1 DEF FollowedBy
  <2>3. <<Goal, token.type>> \in DOMAIN Table
    BY <1>1, <1>2, <1>3, <2>1, PredictAssumption DEF Predictive, FollowedBy
  <2> QED BY <2>1, <2>3 DEF HasCell, Cell
<1> QED BY <1>4, <1>5

(* The first error the parser meets is a real one: with FOLLOW sets closed *)
(* under the productions and a cell wherever FIRST and FOLLOW ask for one, *)
(* it is never stuck on a token that a program could go on with, on any    *)
(* source (the tests before a report in handle_terminal_on_top() and       *)
(* handle_non_terminal_on_top(), parse_tree.c).                            *)
THEOREM FirstErrorOnlyOnFaults == Spec => []FirstErrorIsReal
<1>1. Init => SkipsStatement /\ Guided
  BY GuidedInit DEF Init, SkipsStatement
<1>2. ParserInv /\ SkipsStatement /\ Guided /\ [Next]_vars => SkipsStatement' /\ Guided'
  BY GuidedNext, SkipsStatementNext
<1>3. ParserInv /\ Guided => FirstErrorIsReal
  BY GuidedImpliesReal
<1> QED BY <1>1, <1>2, <1>3, ParserInvariant, PTL DEF Spec
=============================================================================
