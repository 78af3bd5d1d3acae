---------------------------- MODULE LexerProofs ----------------------------
(***************************************************************************)
(* Proofs about the scanner, for every size of the buffers, every length   *)
(* limit and every set of keywords: first what holds of any file, then     *)
(* what holds of the plain ones, and last that what the automaton accepts  *)
(* in them is what TokenStream promises.                                   *)
(***************************************************************************)
EXTENDS TokenRefinement, FiniteSetTheorems, SequenceTheorems, WellFoundedInduction, TLAPS

(* The scanner reads on: neither has the file been closed nor DOLLAR found. *)
Live == fileOpen /\ ~returnedDollar

(* A sentinel is ahead in the buffer, so that the scan pointer stays inside *)
(* it; a retraction by two may put it one byte before.                      *)
SentinelAhead == Live => \E i \in 0 .. BufferSize - 1 :
                           forward <= i /\ buffers[bufferNumber][i] = Sentinel

(* Where the calls are.                                                     *)
Calls ==
  /\ Scanning => Live
  /\ pc = "refilled" => forward = 0
  /\ pc \in {"unwind", "crashed"} => eofFrames > 0
  /\ Scanning /\ forward = -1 => state = Start

(* The lexeme is empty in the start state only, and has two characters when *)
(* the second dot of a range may follow.                                    *)
LexemeOfState ==
  Scanning =>
    /\ state = Start <=> lexeme = <<>>
    /\ state = 5 => Len(lexeme) >= 2
    /\ Len(lexeme) < allowed /\ allowed <= capacity

(* No DOLLAR was returned but the one that ends the scan.                   *)
NoDollarIn(s) == \A i \in 1 .. Len(s) : s[i].type # "DOLLAR"
DollarAtEnd ==
  IF pc = "call" /\ returnedDollar
  THEN /\ eofFrames = 0
       /\ \E s \in Seq(Tokens), t \in Tokens :
            out = Append(s, t) /\ NoDollarIn(s) /\ t.type = "DOLLAR"
  ELSE NoDollarIn(out)

ScanInv == TypeOK /\ SentinelAhead /\ Calls /\ LexemeOfState /\ DollarAtEnd

-----------------------------------------------------------------------------
(* What holds of plain sources.                                             *)

(* The buffer holds the block of the source that starts at base, with its   *)
(* newlines blanked as they are read, and the sentinel after it.            *)
BufferHoldsBlock == Live =>
  /\ 0 <= base /\ base <= filePos /\ filePos - base <= BufferSize - 1
  /\ 0 <= forward /\ forward <= filePos - base
  /\ \A i \in 0 .. filePos - base - 1 :
       buffers[bufferNumber][i] # Sentinel /\ Same(buffers[bufferNumber][i], src[base + i + 1])
  /\ buffers[bufferNumber][filePos - base] = Sentinel
  /\ filePos % (BufferSize - 1) = 0 \/ filePos = Len(src)
  /\ base % (BufferSize - 1) = 0 \/ base = Len(src)
  /\ pc = "refilled" /\ filePos = base => filePos = Len(src)

(* What was read is what the lexemes cover.                                 *)
LexemeIsSource == Live =>
  /\ pc = "call" => base + forward = covered
  /\ Scanning =>
       /\ base + forward = covered + Len(lexeme)
       /\ \A i \in 1 .. Len(lexeme) : Same(lexeme[i], src[covered + i])
       /\ state = 3 => lexeme[Len(lexeme)] \in Digit
       /\ state = 5 => lexeme[Len(lexeme)] = "." /\ lexeme[Len(lexeme) - 1] \in Digit

(* After the end of the file nothing is left to cut.                        *)
AllRead == eofFrames > 0 \/ ~Live => filePos = Len(src) /\ covered = Len(src)

(* The newlines behind the scan pointer are blanked, those ahead and those  *)
(* not yet in the buffer are not counted.                                   *)
BufferNewlines == { i \in 0 .. BufferSize - 1 :
                      base + i < filePos /\ buffers[bufferNumber][i] = "nl" }
SourceNewlines(n) == { j \in n + 1 .. Len(src) : src[j] = "nl" }
NewlinesBehind == \A i \in BufferNewlines : i >= forward
NewlinesCounted ==
  (currentLine - 1) + Cardinality(BufferNewlines) + Cardinality(SourceNewlines(filePos))
    = Cardinality(SourceNewlines(0))

PlainInv == BufferHoldsBlock /\ LexemeIsSource /\ AllRead /\ NewlinesBehind /\ NewlinesCounted

-----------------------------------------------------------------------------
(* The automaton.                                                           *)
LEMMA EdgeTypes ==
  /\ \A e \in Edges : e[3] \in 1 .. 48
  /\ \A o \in Others : o[2] \in 1 .. 48
BY DEF Edges, Others

(* Where a step of the automaton leads: along an edge, to the "other" state *)
(* or to the error state.                                                   *)
LEMMA InvokeCases ==
  ASSUME NEW q \in States, NEW c \in Chars
  PROVE  \/ \E e \in Edges : e[1] = q /\ c \in e[2] /\ Invoke[q][c] = e[3]
         \/ /\ Matching(q, c) = {}
            /\ \/ \E o \in Others : o[1] = q /\ Invoke[q][c] = o[2]
               \/ Invoke[q][c] = ErrorState
<1>1. Invoke[q][c] = IF Matching(q, c) # {} THEN (CHOOSE e \in Matching(q, c) : TRUE)[3]
                     ELSE IF OtherOf(q) # {} THEN (CHOOSE o \in OtherOf(q) : TRUE)[2]
                     ELSE ErrorState
  BY DEF Invoke
<1>2. CASE Matching(q, c) # {}
  <2> DEFINE e == CHOOSE e \in Matching(q, c) : TRUE
  <2>1. e \in Matching(q, c)
    BY <1>2
  <2>2. Invoke[q][c] = e[3]
    BY <1>1, <1>2
  <2> HIDE DEF e
  <2> QED
    BY <2>1, <2>2 DEF Matching
<1>3. CASE Matching(q, c) = {} /\ OtherOf(q) # {}
  <2> DEFINE o == CHOOSE o \in OtherOf(q) : TRUE
  <2>1. o \in OtherOf(q)
    BY <1>3
  <2>2. Invoke[q][c] = o[2]
    BY <1>1, <1>3
  <2> HIDE DEF o
  <2> QED
    BY <2>1, <2>2, <1>3 DEF OtherOf
<1>4. CASE Matching(q, c) = {} /\ OtherOf(q) = {}
  BY <1>1, <1>4
<1> QED
  BY <1>2, <1>3, <1>4

LEMMA InvokeType ==
  ASSUME NEW q \in States, NEW c \in Chars
  PROVE  Invoke[q][c] \in States /\ Invoke[q][c] # Start
<1>1. Invoke[q][c] \in 1 .. 48
  BY InvokeCases, EdgeTypes DEF ErrorState
<1> QED
  BY <1>1 DEF States, Start

(* The edges into the states that the scanner's bookkeeping depends on.     *)
LEMMA EdgesInto ==
  /\ \A e \in Edges : e[3] = 3 => e[2] = Digit
  /\ \A e \in Edges : e[3] = 5 => e[1] = 3 /\ e[2] = {"."}
  /\ \A e \in Edges : e[3] = 8 => e[1] = 5 /\ e[2] = {"."}
  /\ \A e \in Edges : e[1] = 0 => e[3] # 48 /\ e[3] \notin RetractOne \cup RetractTwo
  /\ \A o \in Others : o[2] \notin {3, 5, 8} /\ o[1] # 0
BY DEF Edges, Others, RetractOne, RetractTwo

LEMMA InvokeInto ==
  ASSUME NEW q \in States, NEW c \in Chars
  PROVE  /\ Invoke[q][c] = 3 => c \in Digit
         /\ Invoke[q][c] = 5 => q = 3 /\ c = "."
         /\ Invoke[q][c] = 8 => q = 5 /\ c = "."
BY InvokeCases, EdgesInto DEF ErrorState

(* The first character of a lexeme is never given back.                     *)
LEMMA InvokeAtStart ==
  ASSUME NEW c \in Chars
  PROVE  /\ Invoke[Start][c] \notin RetractOne \cup RetractTwo
         /\ Invoke[Start][c] = ErrorState => ~InAlphabet(c)
<1>1. Start \in States
  BY DEF Start, States
<1>2. ErrorState \notin RetractOne \cup RetractTwo
  BY DEF ErrorState, RetractOne, RetractTwo
<1> QED
  BY <1>1, <1>2, InvokeCases, EdgesInto DEF Start, ErrorState, InAlphabet

LEMMA TokenOfType ==
  ASSUME NEW q \in States, TokenOf[q] # "INVALID"
  PROVE  TokenOf[q] \in TokenTypes /\ TokenOf[q] # "DOLLAR"
<1>1. \A r \in TokenTable : r[2] # "DOLLAR"
  BY DEF TokenTable
<1>2. TokenOf[q] = IF \E r \in TokenTable : r[1] = q
                   THEN (CHOOSE r \in TokenTable : r[1] = q)[2] ELSE "INVALID"
  BY DEF TokenOf
<1>3. CASE \E r \in TokenTable : r[1] = q
  <2> DEFINE r == CHOOSE r \in TokenTable : r[1] = q
  <2>1. r \in TokenTable
    BY <1>3
  <2>2. TokenOf[q] = r[2]
    BY <1>2, <1>3
  <2> HIDE DEF r
  <2> QED
    BY <2>1, <2>2, <1>1 DEF TokenTypes
<1> QED
  BY <1>2, <1>3
-----------------------------------------------------------------------------
(* The pieces of the steps.                                                 *)
LEMMA CharTypes ==
  /\ Sentinel \in Chars /\ " " \in Chars /\ "NUL" \in Chars /\ "nl" \in Chars
  /\ Sentinel # "nl" /\ Sentinel # " "
BY DEF Chars, Sentinel, Blank

LEMMA ScannedType ==
  ASSUME lexeme \in Seq(Chars), NEW c \in Chars
  PROVE  /\ Scanned(c) \in Seq(Chars) /\ Len(Scanned(c)) = Len(lexeme) + 1
         /\ Scanned(c) # <<>>
         /\ \A i \in 1 .. Len(lexeme) : Scanned(c)[i] = lexeme[i]
         /\ Scanned(c)[Len(lexeme) + 1] = c
BY DEF Scanned

LEMMA KeptType ==
  ASSUME lexeme \in Seq(Chars), NEW c \in Chars, NEW n \in Nat
  PROVE  Kept(c, n) \in Seq(Chars)
<1>1. Len(Scanned(c)) - n \in Int
  BY ScannedType
<1>2. \A i \in 1 .. Len(Scanned(c)) - n : Scanned(c)[i] \in Chars
  BY ScannedType
<1> QED
  BY <1>1, <1>2, SubSeqProperties DEF Kept

LEMMA RetractType ==
  ASSUME NEW q \in States
  PROVE  /\ RetractBy(q) \in 0 .. 2
         /\ RetractBy(q) = 2 => q = 8
         /\ RetractBy(q) # 0 => q \in RetractOne \cup RetractTwo
BY DEF RetractBy, RetractTwo

(* Taking a character leaves the sentinels of the buffer where they are.    *)
LEMMA TakeCharStep ==
  ASSUME TypeOK, NEW c \in Chars, TakeChar(c)
  PROVE  /\ buffers' \in [{1, 2} -> [0 .. BufferSize - 1 -> Chars]]
         /\ currentLine' \in Nat
         /\ Scanning /\ c # Sentinel
         /\ \A i \in 0 .. BufferSize - 1 :
              buffers[bufferNumber][i] = Sentinel => buffers'[bufferNumber][i] = Sentinel
         /\ forward >= 0 => c = buffers[bufferNumber][forward]
<1>1. bufferNumber \in {1, 2} /\ forward \in -1 .. BufferSize /\ BufferSize \in Nat
  BY BufferAssumption DEF TypeOK
<1>2. buffers \in [{1, 2} -> [0 .. BufferSize - 1 -> Chars]]
  BY DEF TypeOK
<1>3. forward >= 0 => c = buffers[bufferNumber][forward]
  BY DEF TakeChar, NextChars
<1>4. c # Sentinel /\ Scanning
  BY DEF TakeChar, Scanning
<1>7. currentLine' \in Nat
  <2>1. currentLine \in Nat
    BY DEF TypeOK
  <2>2. currentLine' = IF c = "nl" THEN currentLine + 1 ELSE currentLine
    BY DEF TakeChar
  <2> QED
    BY <2>1, <2>2
<1>5. CASE c = "nl" /\ forward >= 0
  <2>1. buffers' = [buffers EXCEPT ![bufferNumber][forward] = " "]
    BY <1>5 DEF TakeChar
  <2>2. buffers' \in [{1, 2} -> [0 .. BufferSize - 1 -> Chars]]
    BY <2>1, <1>1, <1>2, CharTypes
  <2>3. \A i \in 0 .. BufferSize - 1 :
          buffers'[bufferNumber][i] = IF i = forward THEN " " ELSE buffers[bufferNumber][i]
    BY <2>1, <1>1, <1>2
  <2>4. \A i \in 0 .. BufferSize - 1 :
          buffers[bufferNumber][i] = Sentinel => buffers'[bufferNumber][i] = Sentinel
    BY <2>3, <1>3, <1>5, CharTypes
  <2> QED
    BY <2>2, <2>4, <1>3, <1>4, <1>7
<1>6. CASE ~(c = "nl" /\ forward >= 0)
  <2>1. buffers' = buffers
    BY <1>6 DEF TakeChar
  <2> QED
    BY <2>1, <1>2, <1>3, <1>4, <1>7
<1> QED
  BY <1>5, <1>6

(* The scan pointer never passes the sentinel.                              *)
LEMMA TakeCharInside ==
  ASSUME TypeOK, SentinelAhead, Calls, NEW c \in Chars, TakeChar(c)
  PROVE  \E i \in 0 .. BufferSize - 1 :
           forward + 1 <= i /\ buffers'[bufferNumber][i] = Sentinel
<1>1. PICK i \in 0 .. BufferSize - 1 : forward <= i /\ buffers[bufferNumber][i] = Sentinel
  BY TakeCharStep DEF SentinelAhead, Calls
<1>2. forward # i
  BY <1>1, TakeCharStep
<1>3. forward \in Int
  BY BufferAssumption DEF TypeOK
<1> QED
  BY <1>1, <1>2, <1>3, TakeCharStep

LEMMA GrowLexemeStep ==
  ASSUME TypeOK, LexemeOfState, Scanning, NEW c \in Chars, GrowLexeme(c)
  PROVE  /\ allowed' \in Nat /\ capacity' \in Nat
         /\ Len(lexeme) + 1 < allowed' /\ allowed' <= capacity'
<1>1. Len(lexeme) \in Nat /\ allowed \in Nat /\ capacity \in Nat
  BY DEF TypeOK
<1>2. Len(Scanned(c)) = Len(lexeme) + 1
  BY ScannedType DEF TypeOK
<1> QED
  BY <1>1, <1>2 DEF LexemeOfState, GrowLexeme

LEMMA TokenType ==
  ASSUME NEW type \in TokenTypes, NEW lex \in Seq(Chars), NEW line \in Nat
  PROVE  Token(type, lex, line) \in Tokens /\ Token(type, lex, line).type = type
BY DEF Token, Tokens

LEMMA DollarType ==
  ASSUME NEW line \in Nat
  PROVE  Dollar(line) \in Tokens /\ Dollar(line).type = "DOLLAR"
<1>1. "$" \in Chars /\ "DOLLAR" \in TokenTypes
  BY CharTypes DEF Sentinel, TokenTypes
<1>2. <<"$">> \in Seq(Chars)
  BY <1>1
<1> QED
  BY <1>1, <1>2, TokenType DEF Dollar

(* Errors are no tokens.                                                    *)
LEMMA ErrorsType ==
  ASSUME NEW lexs \in Seq(Seq(Chars)), NEW line \in Nat
  PROVE  Errors(lexs, line) \in Seq(Tokens) /\ NoDollarIn(Errors(lexs, line))
<1>1. DOMAIN lexs = 1 .. Len(lexs) /\ Len(lexs) \in Nat
  OBVIOUS
<1>2. \A i \in 1 .. Len(lexs) : /\ Token("ERROR", lexs[i], line) \in Tokens
                                /\ Token("ERROR", lexs[i], line).type = "ERROR"
  BY TokenType DEF TokenTypes
<1>3. Errors(lexs, line) = [i \in 1 .. Len(lexs) |-> Token("ERROR", lexs[i], line)]
  BY <1>1 DEF Errors
<1>4. Errors(lexs, line) \in Seq(Tokens) /\ Len(Errors(lexs, line)) = Len(lexs)
  BY <1>1, <1>2, <1>3
<1> QED
  BY <1>2, <1>3, <1>4 DEF NoDollarIn

LEMMA NoDollarJoin ==
  ASSUME NEW s \in Seq(Tokens), NEW t \in Seq(Tokens), NoDollarIn(s), NoDollarIn(t)
  PROVE  s \o t \in Seq(Tokens) /\ NoDollarIn(s \o t)
<1>1. /\ s \o t \in Seq(Tokens) /\ Len(s \o t) = Len(s) + Len(t)
      /\ \A i \in 1 .. Len(s) + Len(t) : (s \o t)[i] = IF i <= Len(s) THEN s[i]
                                                       ELSE t[i - Len(s)]
  BY ConcatProperties
<1>2. Len(s) \in Nat /\ Len(t) \in Nat
  OBVIOUS
<1>3. ASSUME NEW i \in 1 .. Len(s) + Len(t)
      PROVE  (s \o t)[i].type # "DOLLAR"
  <2>1. CASE i <= Len(s)
    BY <2>1, <1>1, <1>2 DEF NoDollarIn
  <2>2. CASE i > Len(s)
    <3>1. i - Len(s) \in 1 .. Len(t)
      BY <2>2, <1>2
    <3> QED
      BY <3>1, <2>2, <1>1, <1>2 DEF NoDollarIn
  <2> QED
    BY <2>1, <2>2, <1>2
<1> QED
  BY <1>1, <1>3 DEF NoDollarIn

LEMMA OneToken ==
  ASSUME NEW tok \in Tokens
  PROVE  <<tok>> \in Seq(Tokens) /\ (tok.type # "DOLLAR" => NoDollarIn(<<tok>>))
BY DEF NoDollarIn

(* A token that is not DOLLAR is returned, to the client or to be dropped.  *)
LEMMA ReturnToken ==
  ASSUME NEW tok \in Tokens, NEW log \in Seq(Tokens), NoDollarIn(log),
         tok.type # "DOLLAR", eofFrames \in Nat, returnedDollar' = FALSE, Return(tok, log)
  PROVE  /\ out' \in Seq(Tokens) /\ DollarAtEnd'
         /\ pc' \in {"call", "unwind"} /\ (pc' = "unwind" => eofFrames > 0)
<1>1. CASE eofFrames = 0
  BY <1>1, NoDollarJoin, OneToken DEF Return, DollarAtEnd
<1>2. CASE eofFrames > 0
  BY <1>2 DEF Return, DollarAtEnd
<1> QED
  BY <1>1, <1>2

(* DOLLAR is returned.                                                      *)
LEMMA ReturnOfDollar ==
  ASSUME NEW tok \in Tokens, NEW log \in Seq(Tokens), NoDollarIn(log), eofFrames \in Nat,
         tok.type = "DOLLAR", returnedDollar' = TRUE, eofFrames' = eofFrames, Return(tok, log)
  PROVE  /\ out' \in Seq(Tokens) /\ DollarAtEnd'
         /\ pc' \in {"call", "unwind"} /\ (pc' = "unwind" => eofFrames > 0)
<1>1. CASE eofFrames = 0
  <2>1. out' = Append(log, tok) /\ pc' = "call"
    BY <1>1 DEF Return
  <2> QED
    BY <2>1, <1>1 DEF DollarAtEnd
<1>2. CASE eofFrames > 0
  BY <1>2 DEF Return, DollarAtEnd
<1> QED
  BY <1>1, <1>2
-----------------------------------------------------------------------------
(* The steps, on any file.                                                  *)
LEMMA ScanInit == Init => ScanInv
<1> SUFFICES ASSUME Init PROVE ScanInv
  OBVIOUS
<1>1. src \in Seq(Chars) /\ BufferSize \in Nat /\ BufferSize >= 2
  BY SourcesAssumption, BufferAssumption DEF Init
<1>2. buffers \in [{1, 2} -> [0 .. BufferSize - 1 -> Chars]] /\ buffers[1][0] = Sentinel
  <2> DEFINE empty == [i \in 0 .. BufferSize - 1 |-> IF i = 0 THEN Sentinel ELSE "NUL"]
  <2>1. empty \in [0 .. BufferSize - 1 -> Chars] /\ empty[0] = Sentinel
    <3>1. \A i \in 0 .. BufferSize - 1 : (IF i = 0 THEN Sentinel ELSE "NUL") \in Chars
      BY CharTypes
    <3>2. 0 \in 0 .. BufferSize - 1
      BY <1>1
    <3> QED
      BY <3>1, <3>2
  <2>2. buffers = [b \in {1, 2} |-> empty]
    BY DEF Init
  <2> HIDE DEF empty
  <2> QED
    BY <2>1, <2>2
<1>3. currentToken \in Tokens
  <2>1. "NONE" \in TokenTypes /\ <<>> \in Seq(Chars)
    BY DEF TokenTypes
  <2> QED
    BY <2>1, TokenType DEF Init, NoToken
<1>4. TypeOK
  <2>1. lexeme \in Seq(Chars) /\ out \in Seq(Tokens)
    BY DEF Init
  <2>2. allowed \in Nat /\ capacity \in Nat /\ forward \in -1 .. BufferSize
    BY <1>1, LexemeAssumption DEF Init
  <2>3. filePos \in 0 .. Len(src) /\ base \in 0 .. Len(src)
    BY <1>1 DEF Init
  <2>4. /\ src \in Sources /\ fileOpen \in BOOLEAN /\ returnedDollar \in BOOLEAN
        /\ covered \in Nat /\ bufferNumber \in {1, 2} /\ currentLine \in Nat
        /\ startLine \in Nat /\ eofFrames \in Nat /\ pc = "call"
    BY DEF Init
  <2>5. state \in States
    BY DEF Init, States, Start
  <2> QED
    BY <1>2, <1>3, <2>1, <2>2, <2>3, <2>4, <2>5 DEF TypeOK
<1>5. SentinelAhead
  BY SMTT(30), <1>1, <1>2 DEF Init, SentinelAhead
<1>6. Calls /\ LexemeOfState /\ DollarAtEnd
  BY DEF Init, Calls, LexemeOfState, DollarAtEnd, NoDollarIn, Scanning
<1> QED
  BY <1>4, <1>5, <1>6 DEF ScanInv

LEMMA ReturnDollarStep ==
  ASSUME ScanInv, ReturnDollar
  PROVE  ScanInv'
<1>1. TypeOK /\ NoDollarIn(out) /\ out \in Seq(Tokens) /\ eofFrames \in Nat
      /\ currentLine \in Nat
  BY DEF ScanInv, TypeOK, DollarAtEnd, ReturnDollar
<1>2. /\ out' \in Seq(Tokens) /\ DollarAtEnd'
      /\ pc' \in {"call", "unwind"} /\ (pc' = "unwind" => eofFrames > 0)
  BY <1>1, DollarType, ReturnOfDollar DEF ReturnDollar
<1>3. TypeOK'
  BY <1>1, <1>2 DEF TypeOK, ReturnDollar, fileVars, scanVars
<1>4. SentinelAhead' /\ Calls' /\ LexemeOfState'
  BY <1>2 DEF ReturnDollar, SentinelAhead, Calls, LexemeOfState, Live, Scanning
<1> QED
  BY <1>2, <1>3, <1>4 DEF ScanInv

LEMMA BeginLexemeStep ==
  ASSUME ScanInv, BeginLexeme
  PROVE  ScanInv'
<1>1. TypeOK'
  BY LexemeAssumption DEF ScanInv, TypeOK, BeginLexeme, fileVars, States, Start
<1>2. SentinelAhead' /\ Calls'
  BY DEF ScanInv, BeginLexeme, SentinelAhead, Calls, Live, Scanning, fileVars
<1>3. LexemeOfState' /\ DollarAtEnd'
  BY LexemeAssumption DEF ScanInv, BeginLexeme, LexemeOfState, DollarAtEnd, Scanning, Start,
     NoDollarIn
<1> QED
  BY <1>1, <1>2, <1>3 DEF ScanInv

(* A block is read into the other buffer, with the sentinel after it.       *)
LEMMA ReloadStep ==
  ASSUME TypeOK, Reload, UNCHANGED src
  PROVE  /\ base' = filePos /\ forward' = 0 /\ bufferNumber' \in {1, 2}
         /\ buffers' \in [{1, 2} -> [0 .. BufferSize - 1 -> Chars]]
         /\ \E read \in 0 .. BufferSize - 1 :
              /\ filePos' = filePos + read /\ filePos + read \in 0 .. Len(src)
              /\ filePos + read = Len(src) \/ read = BufferSize - 1
              /\ \A i \in 0 .. read - 1 : buffers'[bufferNumber'][i] = src[filePos + i + 1]
              /\ buffers'[bufferNumber'][read] = Sentinel
<1> DEFINE other == 3 - bufferNumber
           left  == Len(src) - filePos
           read  == IF left < BufferSize - 1 THEN left ELSE BufferSize - 1
<1>1. /\ src \in Seq(Chars) /\ BufferSize \in Nat /\ BufferSize >= 2
      /\ filePos \in 0 .. Len(src) /\ Len(src) \in Nat
      /\ buffers \in [{1, 2} -> [0 .. BufferSize - 1 -> Chars]]
  BY SourcesAssumption, BufferAssumption DEF TypeOK
<1>2. other \in {1, 2}
  BY DEF TypeOK
<1>3. read \in 0 .. BufferSize - 1 /\ filePos + read \in 0 .. Len(src)
      /\ (filePos + read = Len(src) \/ read = BufferSize - 1)
  BY <1>1
<1>4. /\ bufferNumber' = other /\ filePos' = filePos + read /\ base' = filePos /\ forward' = 0
      /\ buffers' = [buffers EXCEPT ![other] = [i \in 0 .. BufferSize - 1 |->
                       IF i < read THEN src[filePos + i + 1]
                       ELSE IF i = read THEN Sentinel ELSE @[i]]]
  BY DEF Reload
<1> HIDE DEF other, read
<1>5. \A i \in 0 .. BufferSize - 1 : i < read => src[filePos + i + 1] \in Chars
  BY <1>1, <1>3
<1>6. /\ buffers' \in [{1, 2} -> [0 .. BufferSize - 1 -> Chars]]
      /\ \A i \in 0 .. BufferSize - 1 :
           buffers'[other][i] = IF i < read THEN src[filePos + i + 1]
                                ELSE IF i = read THEN Sentinel ELSE buffers[other][i]
  BY <1>1, <1>2, <1>4, <1>5, CharTypes
<1>7. /\ \A i \in 0 .. read - 1 : buffers'[other][i] = src[filePos + i + 1]
      /\ buffers'[other][read] = Sentinel
  BY <1>1, <1>3, <1>6
<1> QED
  BY <1>2, <1>3, <1>4, <1>6, <1>7

LEMMA RefillStep ==
  ASSUME ScanInv, Refill
  PROVE  ScanInv'
<1>1. TypeOK /\ UNCHANGED src /\ Reload /\ pc = "scan" /\ pc' = "refilled"
  BY DEF ScanInv, Refill
<1>2. PICK read \in 0 .. BufferSize - 1 :
        /\ filePos' = filePos + read /\ filePos + read \in 0 .. Len(src)
        /\ buffers'[bufferNumber'][read] = Sentinel
  BY <1>1, ReloadStep
<1>3. TypeOK'
  <2>1. forward' \in -1 .. BufferSize
    BY <1>1, ReloadStep, BufferAssumption
  <2> QED
    BY <1>1, <1>2, <2>1, ReloadStep DEF TypeOK, Refill, scanVars
<1>4. SentinelAhead'
  <2>1. forward' = 0 /\ 0 <= read
    BY <1>1, BufferAssumption, ReloadStep
  <2> QED
    BY <2>1, <1>2 DEF SentinelAhead
<1>5. Calls' /\ LexemeOfState' /\ DollarAtEnd'
  BY <1>1, ReloadStep DEF ScanInv, Refill, Calls, LexemeOfState, DollarAtEnd, Scanning, Live,
     scanVars
<1> QED
  BY <1>3, <1>4, <1>5 DEF ScanInv

LEMMA ReadOnStep ==
  ASSUME ScanInv, NEW c \in Chars, ReadOn(c)
  PROVE  ScanInv'
<1>1. /\ TypeOK /\ LexemeOfState /\ TakeChar(c) /\ GrowLexeme(c) /\ Scanning /\ Live
      /\ NoDollarIn(out)
  BY TakeCharStep DEF ScanInv, ReadOn, Calls, DollarAtEnd, Scanning, Live
<1>2. state \in States /\ lexeme \in Seq(Chars) /\ Len(lexeme) \in Nat /\ BufferSize \in Nat
  BY <1>1, BufferAssumption DEF TypeOK
<1>3. Entered(c) \in States /\ Entered(c) # Start
  BY <1>2, InvokeType DEF Entered
<1>4. \E i \in 0 .. BufferSize - 1 :
        forward + 1 <= i /\ buffers'[bufferNumber][i] = Sentinel
  BY TakeCharInside DEF ScanInv, ReadOn
<1>5. forward + 1 \in 0 .. BufferSize
  BY <1>1, <1>2, <1>4 DEF TypeOK
<1>6. TypeOK'
  BY <1>1, <1>2, <1>3, <1>5, ScannedType, TakeCharStep, GrowLexemeStep
  DEF TypeOK, ReadOn, fileVars
<1>7. SentinelAhead'
  BY <1>4 DEF SentinelAhead, ReadOn
<1>8. Calls'
  BY <1>1, <1>5 DEF Calls, ReadOn, Scanning, Live, fileVars
<1>9. LexemeOfState'
  <2>1. Entered(c) = 5 => Len(lexeme) >= 1
    <3>1. Entered(c) = 5 => state = 3
      BY <1>2, InvokeInto DEF Entered
    <3>2. state = 3 => lexeme # <<>>
      BY <1>1 DEF LexemeOfState, Start
    <3> QED
      BY <3>1, <3>2, <1>2
  <2>2. state' = Entered(c) /\ lexeme' = Scanned(c)
    BY DEF ReadOn
  <2>3. Len(lexeme') = Len(lexeme) + 1 /\ lexeme' # <<>>
    BY <2>2, <1>2, ScannedType
  <2>4. Len(lexeme') < allowed' /\ allowed' <= capacity'
    BY <1>1, <2>3, GrowLexemeStep
  <2> QED
    BY <1>2, <1>3, <2>1, <2>2, <2>3, <2>4 DEF LexemeOfState
<1>10. DollarAtEnd'
  BY <1>1 DEF DollarAtEnd, ReadOn, NoDollarIn
<1> QED
  BY <1>6, <1>7, <1>8, <1>9, <1>10 DEF ScanInv
(* What a lexeme's end does, whatever the lexeme is: the pointer goes back   *)
(* by at most two, never over a character of the lexeme before.             *)
LEMMA AcceptBounds ==
  ASSUME ScanInv, NEW c \in Chars, TakeChar(c), Entered(c) \in Accepting
  PROVE  /\ RetractBy(Entered(c)) \in 0 .. 2
         /\ RetractBy(Entered(c)) <= Len(lexeme) + 1
         /\ forward + 1 - RetractBy(Entered(c)) \in -1 .. BufferSize - 1
<1>1. /\ TypeOK /\ LexemeOfState /\ Calls /\ SentinelAhead /\ Scanning
      /\ state \in States /\ Len(lexeme) \in Nat /\ lexeme \in Seq(Chars)
      /\ BufferSize \in Nat /\ forward \in -1 .. BufferSize
  BY TakeCharStep, BufferAssumption DEF ScanInv, TypeOK
<1>2. Entered(c) \in States
  BY <1>1, InvokeType DEF Entered
<1> DEFINE r == RetractBy(Entered(c))
<1>3. r \in 0 .. 2 /\ (r = 2 => state = 5) /\ (r # 0 => state # Start)
  BY <1>1, <1>2, RetractType, InvokeInto, InvokeAtStart DEF Entered
<1>4. forward + 1 \in 0 .. BufferSize - 1
  <2>1. PICK i \in 0 .. BufferSize - 1 : forward + 1 <= i
    BY <1>1, TakeCharInside
  <2> QED
    BY <2>1, <1>1
<1>5. forward = -1 => r = 0
  BY <1>1, <1>3 DEF Calls
<1>6. r = 2 => Len(lexeme) >= 2
  BY <1>1, <1>3 DEF LexemeOfState
<1> HIDE DEF r
<1>7. r <= Len(lexeme) + 1 /\ forward + 1 - r \in -1 .. BufferSize - 1
  BY <1>1, <1>3, <1>4, <1>5, <1>6
<1> QED
  BY <1>3, <1>7 DEF r

(* What AcceptToken and DropLexeme share.                                   *)
LEMMA AcceptStep ==
  ASSUME ScanInv, NEW c \in Chars, Accept(c)
  PROVE  /\ Scanning /\ Live /\ Entered(c) \in States
         /\ Kept(c, RetractBy(Entered(c))) \in Seq(Chars)
         /\ currentLine' \in Nat /\ startLine' \in Nat /\ eofFrames' = eofFrames
         /\ SentinelAhead'
         /\ (currentToken' \in Tokens /\ out' \in Seq(Tokens) /\ pc' \in {"call", "unwind"})
              => TypeOK'
<1>1. /\ TypeOK /\ LexemeOfState /\ Calls /\ Scanning /\ TakeChar(c) /\ GrowLexeme(c)
      /\ state \in States /\ Len(lexeme) \in Nat /\ lexeme \in Seq(Chars)
      /\ BufferSize \in Nat /\ forward \in -1 .. BufferSize /\ covered \in Nat
  BY TakeCharStep, BufferAssumption DEF ScanInv, TypeOK, Accept
<1>2. Entered(c) \in States /\ Live
  BY <1>1, InvokeType DEF Entered, Calls
<1> DEFINE r == RetractBy(Entered(c))
<1>3. r \in 0 .. 2 /\ r <= Len(lexeme) + 1 /\ forward + 1 - r \in -1 .. BufferSize - 1
  BY <1>1, AcceptBounds DEF Accept
<1>4. /\ forward' = forward + 1 - r /\ lexeme' = Kept(c, r) /\ state' = Entered(c)
      /\ covered' = covered + Len(Scanned(c)) - r
      /\ UNCHANGED <<fileVars, bufferNumber, returnedDollar, startLine, eofFrames>>
  BY DEF Accept
<1> HIDE DEF r
<1>5. Kept(c, r) \in Seq(Chars)
  BY SMTT(30), <1>1, <1>3, KeptType
<1>6. covered' \in Nat
  <2>1. Len(Scanned(c)) = Len(lexeme) + 1
    BY <1>1, ScannedType
  <2> QED
    BY <1>1, <1>3, <1>4, <2>1
<1>7. SentinelAhead'
  <2>1. PICK i \in 0 .. BufferSize - 1 :
          forward + 1 <= i /\ buffers'[bufferNumber][i] = Sentinel
    BY <1>1, TakeCharInside DEF ScanInv
  <2>2. forward' <= i
    BY <2>1, <1>1, <1>3, <1>4
  <2> QED
    BY <2>1, <2>2, <1>4 DEF SentinelAhead
<1>8. forward' \in -1 .. BufferSize
  BY <1>1, <1>3, <1>4
<1>9. allowed' \in Nat /\ capacity' \in Nat
  BY <1>1, GrowLexemeStep
<1>10. currentLine' \in Nat /\ startLine' \in Nat
       /\ buffers' \in [{1, 2} -> [0 .. BufferSize - 1 -> Chars]]
  BY <1>1, <1>4, TakeCharStep DEF TypeOK
<1>11. ASSUME currentToken' \in Tokens, out' \in Seq(Tokens), pc' \in {"call", "unwind"}
       PROVE  TypeOK'
  BY <1>1, <1>2, <1>4, <1>5, <1>6, <1>8, <1>9, <1>10, <1>11 DEF TypeOK, fileVars
<1> QED
  BY <1>1, <1>2, <1>4, <1>5, <1>7, <1>10, <1>11 DEF r

(* Between two lexemes the invariant asks nothing of the lexeme.            *)
LEMMA AfterLexeme ==
  ASSUME pc' \in {"call", "unwind"}, pc' = "unwind" => eofFrames' > 0
  PROVE  Calls' /\ LexemeOfState'
BY DEF Calls, LexemeOfState, Scanning

LEMMA AcceptTokenStep ==
  ASSUME ScanInv, NEW c \in Chars, AcceptToken(c)
  PROVE  ScanInv'
<1>1. /\ Accept(c) /\ Live /\ NoDollarIn(out) /\ out \in Seq(Tokens) /\ eofFrames \in Nat
      /\ startLine \in Nat /\ currentLine' \in Nat /\ Entered(c) \in States
      /\ TokenOf[Entered(c)] # "INVALID"
  BY AcceptStep DEF AcceptToken, ScanInv, TypeOK, DollarAtEnd, Live
<1> DEFINE lex  == Kept(c, RetractBy(Entered(c)))
           long == Entered(c) = IdentifierState /\ Len(lex) > MaxLexeme
           type == IF Entered(c) = IdentifierState /\ ~long THEN Lookup(lex)
                   ELSE TokenOf[Entered(c)]
           log  == IF long THEN out \o Errors(<<lex>>, currentLine') ELSE out
<1>2. lex \in Seq(Chars)
  BY <1>1, AcceptStep
<1>3. type \in TokenTypes /\ type # "DOLLAR"
  BY SMTT(30), <1>1, TokenOfType DEF Lookup, TokenTypes, TokenTable
<1>4. log \in Seq(Tokens) /\ NoDollarIn(log)
  <2>1. <<lex>> \in Seq(Seq(Chars))
    BY <1>2
  <2>2. /\ Errors(<<lex>>, currentLine') \in Seq(Tokens)
        /\ NoDollarIn(Errors(<<lex>>, currentLine'))
    BY <1>1, <2>1, ErrorsType
  <2> QED
    BY <1>1, <2>2, NoDollarJoin
<1>5. /\ currentToken' = Token(type, lex, startLine)
      /\ Return(Token(type, lex, startLine), log)
      /\ returnedDollar' = FALSE /\ eofFrames' = eofFrames
  BY <1>1 DEF AcceptToken, Accept, Live, TypeOK, ScanInv
<1> HIDE DEF lex, type, log, long
<1>6. /\ Token(type, lex, startLine) \in Tokens
      /\ Token(type, lex, startLine).type # "DOLLAR"
  BY <1>1, <1>2, <1>3, TokenType
<1>7. /\ out' \in Seq(Tokens) /\ DollarAtEnd'
      /\ pc' \in {"call", "unwind"} /\ (pc' = "unwind" => eofFrames > 0)
  BY <1>1, <1>4, <1>5, <1>6, ReturnToken
<1>8. TypeOK' /\ SentinelAhead'
  BY <1>1, <1>5, <1>6, <1>7, AcceptStep
<1>9. Calls' /\ LexemeOfState'
  BY <1>5, <1>7, AfterLexeme
<1> QED
  BY <1>7, <1>8, <1>9 DEF ScanInv

LEMMA DropLexemeStep ==
  ASSUME ScanInv, NEW c \in Chars, DropLexeme(c)
  PROVE  ScanInv'
<1>1. /\ Accept(c) /\ pc' = "call" /\ out' = out /\ currentToken' = currentToken
      /\ Live /\ NoDollarIn(out) /\ out \in Seq(Tokens) /\ currentToken \in Tokens
  BY AcceptStep DEF DropLexeme, ScanInv, TypeOK, DollarAtEnd, Live
<1>2. TypeOK' /\ SentinelAhead'
  BY <1>1, AcceptStep
<1>3. Calls' /\ LexemeOfState'
  BY <1>1, AfterLexeme
<1>4. DollarAtEnd'
  <2>1. returnedDollar' = FALSE
    BY <1>1 DEF Accept, Live, ScanInv, TypeOK
  <2> QED
    BY <1>1, <2>1 DEF DollarAtEnd, NoDollarIn
<1> QED
  BY <1>2, <1>3, <1>4 DEF ScanInv

LEMMA LexicalErrorStep ==
  ASSUME ScanInv, NEW c \in Chars, LexicalError(c)
  PROVE  ScanInv'
<1>1. /\ TypeOK /\ LexemeOfState /\ Calls /\ Scanning /\ TakeChar(c) /\ GrowLexeme(c)
      /\ Live /\ NoDollarIn(out) /\ out \in Seq(Tokens) /\ currentToken \in Tokens
      /\ Len(lexeme) \in Nat /\ lexeme \in Seq(Chars) /\ state \in States
      /\ BufferSize \in Nat /\ forward \in -1 .. BufferSize /\ covered \in Nat
  BY TakeCharStep, BufferAssumption
  DEF LexicalError, ScanInv, TypeOK, Calls, DollarAtEnd, Live, Scanning
<1> DEFINE back == IF InAlphabet(c) THEN 1 ELSE 0
           text == IF InAlphabet(c) \/ lexeme = <<>> THEN <<>> ELSE <<lexeme>>
           rest == IF InAlphabet(c) THEN <<lexeme>> ELSE <<<<c>>>>
<1>2. /\ forward' = forward + 1 - back /\ lexeme' = Kept(c, 1) /\ state' = ErrorState
      /\ covered' = covered + Len(Scanned(c)) - back
      /\ out' = out \o Errors(text \o rest, currentLine') /\ pc' = "call"
      /\ UNCHANGED <<fileVars, bufferNumber, returnedDollar, currentToken, startLine,
                     eofFrames>>
  BY DEF LexicalError
<1>3. back \in 0 .. 1 /\ (forward = -1 => back = 0)
  <2>1. forward = -1 => Invoke[Start][c] = ErrorState
    BY <1>1 DEF Calls, LexicalError, Entered
  <2> QED
    BY <2>1, InvokeAtStart
<1>4. text \o rest \in Seq(Seq(Chars))
  <2>1. <<c>> \in Seq(Chars) /\ <<>> \in Seq(Seq(Chars))
    OBVIOUS
  <2>2. text \in Seq(Seq(Chars)) /\ rest \in Seq(Seq(Chars))
    BY <2>1, <1>1
  <2> QED
    BY <2>2, ConcatProperties
<1> HIDE DEF back, text, rest
<1>5. currentLine' \in Nat /\ buffers' \in [{1, 2} -> [0 .. BufferSize - 1 -> Chars]]
  BY <1>1, TakeCharStep
<1>6. out' \in Seq(Tokens) /\ NoDollarIn(out')
  BY <1>1, <1>2, <1>4, <1>5, ErrorsType, NoDollarJoin
<1>7. SentinelAhead' /\ forward' \in -1 .. BufferSize
  <2>1. PICK i \in 0 .. BufferSize - 1 :
          forward + 1 <= i /\ buffers'[bufferNumber][i] = Sentinel
    BY <1>1, TakeCharInside DEF ScanInv
  <2>2. forward' <= i /\ forward' \in -1 .. BufferSize
    BY <2>1, <1>1, <1>2, <1>3
  <2> QED
    BY <2>1, <2>2, <1>2 DEF SentinelAhead
<1>8. covered' \in Nat
  <2>1. Len(Scanned(c)) = Len(lexeme) + 1
    BY <1>1, ScannedType
  <2> QED
    BY <1>1, <1>2, <1>3, <2>1
<1>9. lexeme' \in Seq(Chars) /\ allowed' \in Nat /\ capacity' \in Nat /\ state' \in States
  BY <1>1, <1>2, KeptType, GrowLexemeStep DEF States, ErrorState
<1>10. TypeOK'
  BY <1>1, <1>2, <1>5, <1>6, <1>7, <1>8, <1>9 DEF TypeOK, fileVars
<1>11. Calls' /\ LexemeOfState'
  BY <1>2, AfterLexeme
<1>12. DollarAtEnd'
  BY <1>1, <1>2, <1>6 DEF DollarAtEnd, Live
<1> QED
  BY <1>7, <1>10, <1>11, <1>12 DEF ScanInv
(* At the end of the file the scan pointer is at the start of a buffer.      *)
LEMMA AtEofStep ==
  ASSUME ScanInv, AtEof
  PROVE  /\ TypeOK /\ Scanning /\ Live /\ forward = 0
         /\ BufferSize \in Nat /\ BufferSize >= 2
         /\ state \in States /\ Invoke[state][Sentinel] \in States
         /\ lexeme \in Seq(Chars) /\ Len(lexeme) \in Nat
         /\ currentLine \in Nat /\ covered \in Nat /\ eofFrames \in Nat
         /\ out \in Seq(Tokens) /\ NoDollarIn(out) /\ currentToken \in Tokens
         /\ Errors(<<lexeme>>, currentLine) \in Seq(Tokens)
         /\ NoDollarIn(Errors(<<lexeme>>, currentLine))
<1>1. /\ TypeOK /\ Scanning /\ Live /\ forward = 0 /\ NoDollarIn(out)
      /\ state \in States /\ lexeme \in Seq(Chars) /\ Len(lexeme) \in Nat
      /\ currentLine \in Nat /\ covered \in Nat /\ eofFrames \in Nat
      /\ out \in Seq(Tokens) /\ currentToken \in Tokens
  BY DEF ScanInv, TypeOK, AtEof, Scanning, Calls, DollarAtEnd, Live
<1>2. Invoke[state][Sentinel] \in States
  BY <1>1, CharTypes, InvokeType
<1>3. <<lexeme>> \in Seq(Seq(Chars))
  BY <1>1
<1> QED
  BY <1>1, <1>2, <1>3, ErrorsType, BufferAssumption

LEMMA EofAtStartStep ==
  ASSUME ScanInv, EofAtStart
  PROVE  ScanInv'
<1>1. AtEof /\ forward' = 1 /\ returnedDollar' = TRUE /\ eofFrames' = eofFrames
  BY AtEofStep DEF EofAtStart
<1>2. /\ out' \in Seq(Tokens) /\ DollarAtEnd'
      /\ pc' \in {"call", "unwind"} /\ (pc' = "unwind" => eofFrames > 0)
  BY <1>1, AtEofStep, DollarType, ReturnOfDollar DEF EofAtStart
<1>3. currentToken' \in Tokens
  BY <1>1, AtEofStep, DollarType DEF EofAtStart
<1>4. TypeOK'
  BY SMTT(30), <1>1, <1>2, <1>3, AtEofStep DEF TypeOK, EofAtStart, fileVars, scanVars
<1>5. SentinelAhead' /\ Calls' /\ LexemeOfState'
  BY <1>1, <1>2, AfterLexeme DEF SentinelAhead, Live
<1> QED
  BY <1>2, <1>4, <1>5 DEF ScanInv

LEMMA EofErrorStep ==
  ASSUME ScanInv, EofError
  PROVE  ScanInv'
<1>1. /\ AtEof /\ pc' = "call" /\ covered' = covered + Len(lexeme) /\ state' = ErrorState
      /\ eofFrames' = eofFrames + 1 /\ out' = out \o Errors(<<lexeme>>, currentLine)
      /\ UNCHANGED <<fileVars, buffers, bufferNumber, forward, currentLine, returnedDollar,
                     currentToken, lexeme, allowed, capacity, startLine>>
  BY DEF EofError
<1>2. out' \in Seq(Tokens) /\ NoDollarIn(out')
  BY <1>1, AtEofStep, NoDollarJoin
<1>3. covered' \in Nat /\ eofFrames' \in Nat /\ state' \in States
  BY <1>1, AtEofStep DEF States, ErrorState
<1>4. TypeOK'
  BY <1>1, <1>2, <1>3, AtEofStep DEF TypeOK, fileVars
<1>5. SentinelAhead'
  BY <1>1 DEF ScanInv, SentinelAhead, Live, fileVars
<1>6. Calls' /\ LexemeOfState'
  BY <1>1, AfterLexeme
<1>7. DollarAtEnd'
  BY <1>1, <1>2, AtEofStep DEF DollarAtEnd, Live
<1> QED
  BY <1>4, <1>5, <1>6, <1>7 DEF ScanInv

LEMMA UnwindStep ==
  ASSUME ScanInv, Unwind
  PROVE  ScanInv'
<1>1. /\ pc = "unwind" /\ TypeOK /\ eofFrames \in Nat /\ eofFrames > 0 /\ NoDollarIn(out)
      /\ out \in Seq(Tokens) /\ currentLine \in Nat
      /\ Dollar(currentLine) \in Tokens /\ Dollar(currentLine).type = "DOLLAR"
      /\ UNCHANGED <<src, filePos, base, covered, buffers, bufferNumber, forward, currentLine,
                     scanVars>>
  BY DollarType DEF Unwind, ScanInv, TypeOK, Calls, DollarAtEnd
<1>2. CASE fileOpen
  <2>1. /\ eofFrames' = eofFrames - 1 /\ fileOpen' = FALSE /\ returnedDollar' = TRUE
        /\ currentToken' = Dollar(currentLine)
    BY <1>2 DEF Unwind
  <2>2. IF eofFrames = 1 THEN out' = Append(out, Dollar(currentLine)) /\ pc' = "call"
        ELSE UNCHANGED <<out, pc>>
    BY <1>2 DEF Unwind
  <2>3. out' \in Seq(Tokens) /\ pc' \in {"call", "unwind"}
    BY <2>2, <1>1
  <2>4. TypeOK'
    <3>1. eofFrames' \in Nat /\ currentToken' \in Tokens
      BY <2>1, <1>1
    <3>2. fileOpen' \in BOOLEAN /\ returnedDollar' \in BOOLEAN
      BY <2>1, Zenon
    <3> QED
      BY <3>1, <3>2, <2>3, <1>1 DEF TypeOK, scanVars
  <2>5. pc' = "unwind" => eofFrames' > 0
    BY <2>1, <2>2, <1>1
  <2>6. SentinelAhead' /\ Calls' /\ LexemeOfState'
    BY <2>1, <2>3, <2>5, AfterLexeme DEF SentinelAhead, Live
  <2>7. DollarAtEnd'
    <3>1. CASE eofFrames = 1
      <4>1. pc' = "call" /\ returnedDollar' /\ eofFrames' = 0
            /\ out' = Append(out, Dollar(currentLine))
        BY <3>1, <2>1, <2>2
      <4> QED
        BY <4>1, <1>1 DEF DollarAtEnd
    <3>2. CASE eofFrames # 1
      BY <3>2, <2>2, <1>1 DEF DollarAtEnd
    <3> QED
      BY <3>1, <3>2
  <2> QED
    BY <2>4, <2>6, <2>7 DEF ScanInv
<1>3. CASE ~fileOpen
  <2>1. pc' = "crashed" /\ UNCHANGED <<eofFrames, fileOpen, returnedDollar, currentToken, out>>
    BY <1>3 DEF Unwind
  <2>2. TypeOK'
    BY <2>1, <1>1 DEF TypeOK, scanVars
  <2> QED
    BY <2>1, <2>2, <1>1, <1>3
    DEF ScanInv, SentinelAhead, Calls, LexemeOfState, DollarAtEnd, Live, Scanning
<1> QED
  BY <1>2, <1>3

LEMMA EofTokenStep ==
  ASSUME ScanInv, EofToken
  PROVE  ScanInv'
<1> DEFINE q    == Invoke[state][Sentinel]
           long == q = IdentifierState /\ Len(lexeme) >= MaxLexeme
           type == IF q = IdentifierState /\ ~long THEN Lookup(lexeme) ELSE TokenOf[q]
           log  == IF long THEN out \o Errors(<<lexeme>>, currentLine) ELSE out
<1>1. /\ AtEof /\ TokenOf[q] # "INVALID" /\ forward' = 1
      /\ covered' = covered + Len(lexeme) /\ state' = q /\ fileOpen' = FALSE
      /\ currentToken' = Token(type, lexeme, currentLine)
      /\ Return(Token(type, lexeme, currentLine), log)
      /\ UNCHANGED <<src, filePos, base, buffers, bufferNumber, currentLine, returnedDollar,
                     lexeme, allowed, capacity, startLine, eofFrames>>
  BY AtEofStep DEF EofToken
<1>2. type \in TokenTypes /\ type # "DOLLAR"
  BY ZenonT(40), <1>1, AtEofStep, TokenOfType DEF Lookup, TokenTypes, TokenTable
<1>3. log \in Seq(Tokens) /\ NoDollarIn(log)
  BY <1>1, AtEofStep, NoDollarJoin
<1>4. q \in States
  BY <1>1, AtEofStep
<1> HIDE DEF q, type, log, long
<1>5. /\ Token(type, lexeme, currentLine) \in Tokens
      /\ Token(type, lexeme, currentLine).type # "DOLLAR"
  BY <1>1, <1>2, AtEofStep, TokenType
<1>6. returnedDollar' = FALSE
  BY <1>1, AtEofStep DEF Live, TypeOK
<1>7. /\ out' \in Seq(Tokens) /\ DollarAtEnd'
      /\ pc' \in {"call", "unwind"} /\ (pc' = "unwind" => eofFrames > 0)
  BY <1>1, <1>3, <1>5, <1>6, AtEofStep, ReturnToken
<1>8. TypeOK /\ covered' \in Nat /\ forward' \in -1 .. BufferSize
      /\ state' \in States /\ currentToken' \in Tokens
  BY <1>1, <1>4, <1>5, AtEofStep
<1>9. TypeOK'
  <2>1. fileOpen' \in BOOLEAN
    BY <1>1, Zenon
  <2> QED
    BY <2>1, <1>1, <1>7, <1>8 DEF TypeOK
<1>10. SentinelAhead' /\ Calls' /\ LexemeOfState'
  BY <1>1, <1>7, AfterLexeme DEF SentinelAhead, Live
<1> QED
  BY <1>7, <1>9, <1>10 DEF ScanInv

LEMMA EofDropStep ==
  ASSUME ScanInv, EofDrop
  PROVE  ScanInv'
<1>1. /\ AtEof /\ forward' = 1 /\ returnedDollar' = TRUE
      /\ covered' = covered + Len(lexeme) /\ state' = Invoke[state][Sentinel]
      /\ fileOpen' = FALSE /\ currentToken' = Dollar(currentLine)
      /\ Return(Dollar(currentLine), out)
      /\ UNCHANGED <<src, filePos, base, buffers, bufferNumber, currentLine,
                     lexeme, allowed, capacity, startLine, eofFrames>>
  BY AtEofStep DEF EofDrop
<1>2. /\ out' \in Seq(Tokens) /\ DollarAtEnd'
      /\ pc' \in {"call", "unwind"} /\ (pc' = "unwind" => eofFrames > 0)
  BY <1>1, AtEofStep, DollarType, ReturnOfDollar
<1>3. TypeOK /\ covered' \in Nat /\ forward' \in -1 .. BufferSize
      /\ state' \in States /\ currentToken' \in Tokens
  BY <1>1, AtEofStep, DollarType
<1>4. TypeOK'
  <2>1. fileOpen' \in BOOLEAN /\ returnedDollar' \in BOOLEAN
    BY <1>1, Zenon
  <2> QED
    BY <2>1, <1>1, <1>2, <1>3 DEF TypeOK
<1>5. SentinelAhead' /\ Calls' /\ LexemeOfState'
  BY <1>1, <1>2, AfterLexeme DEF SentinelAhead, Live
<1> QED
  BY <1>2, <1>4, <1>5 DEF ScanInv

LEMMA ScanStutter ==
  ASSUME ScanInv, UNCHANGED vars
  PROVE  ScanInv'
<1>1. TypeOK'
  BY DEF ScanInv, TypeOK, vars, fileVars, scanVars
<1>2. SentinelAhead' /\ Calls' /\ LexemeOfState'
  BY DEF ScanInv, SentinelAhead, Calls, LexemeOfState, Live, Scanning, vars, fileVars, scanVars
<1>3. DollarAtEnd'
  BY DEF ScanInv, DollarAtEnd, vars, NoDollarIn
<1> QED
  BY <1>1, <1>2, <1>3 DEF ScanInv

(* The invariant, on any source.                                            *)
THEOREM ScanInvariant == Spec => []ScanInv
<1>1. ASSUME ScanInv, [Next]_vars
      PROVE  ScanInv'
  <2>1. CASE ReturnDollar
    BY <1>1, <2>1, ReturnDollarStep
  <2>2. CASE BeginLexeme
    BY <1>1, <2>2, BeginLexemeStep
  <2>3. CASE Refill
    BY <1>1, <2>3, RefillStep
  <2>4. ASSUME NEW c \in Chars, ReadOn(c) \/ AcceptToken(c) \/ DropLexeme(c) \/ LexicalError(c)
        PROVE  ScanInv'
    BY <1>1, <2>4, ReadOnStep, AcceptTokenStep, DropLexemeStep, LexicalErrorStep
  <2>5. CASE EofAtStart
    BY <1>1, <2>5, EofAtStartStep
  <2>6. CASE EofError
    BY <1>1, <2>6, EofErrorStep
  <2>7. CASE Unwind
    BY <1>1, <2>7, UnwindStep
  <2>8. CASE EofToken
    BY <1>1, <2>8, EofTokenStep
  <2>9. CASE EofDrop
    BY <1>1, <2>9, EofDropStep
  <2>10. CASE UNCHANGED vars
    BY <1>1, <2>10, ScanStutter
  <2> QED
    BY <1>1, <2>1, <2>2, <2>3, <2>4, <2>5, <2>6, <2>7, <2>8, <2>9, <2>10 DEF Next
<1> QED
  BY <1>1, ScanInit, PTL DEF Spec

(* The scan pointer never leaves its buffer by more than the byte before    *)
(* it, on any source, and every variable keeps its type.                    *)
THEOREM LexerTypeCorrect == Spec => []TypeOK
<1>1. ScanInv => TypeOK
  BY DEF ScanInv
<1> QED
  BY <1>1, ScanInvariant, PTL

(* The realloc() of get_next_token() comes in time: on any source, however  *)
(* long its lexemes, the array has room for the next character or the zero. *)
THEOREM LexemeAlwaysFits == Spec => []LexemeFits
<1>1. ScanInv => LexemeFits
  BY DEF ScanInv, TypeOK, LexemeOfState, LexemeFits
<1> QED
  BY <1>1, ScanInvariant, PTL

(* get_next_token(): whatever frames of handle_eof() are open, the client   *)
(* is given DOLLAR once, last, and exactly when the lexer says so.          *)
THEOREM DollarComesLast == Spec => []DollarIsLast
<1>1. ASSUME ScanInv
      PROVE  DollarIsLast
  <2>1. CASE pc = "call" /\ returnedDollar
    <3>1. PICK s \in Seq(Tokens), t \in Tokens :
            out = Append(s, t) /\ NoDollarIn(s) /\ t.type = "DOLLAR"
      BY <1>1, <2>1 DEF ScanInv, DollarAtEnd
    <3>2. /\ Len(out) = Len(s) + 1 /\ out # <<>> /\ out[Len(out)] = t
          /\ \A i \in 1 .. Len(s) : out[i] = s[i]
      BY <3>1
    <3> QED
      BY <2>1, <3>1, <3>2 DEF DollarIsLast, NoDollarIn
  <2>2. CASE ~(pc = "call" /\ returnedDollar)
    <3>1. NoDollarIn(out) /\ out \in Seq(Tokens)
      BY <1>1, <2>2 DEF ScanInv, DollarAtEnd, TypeOK
    <3>2. out # <<>> => out[Len(out)].type # "DOLLAR"
      BY <3>1 DEF NoDollarIn
    <3> QED
      BY <2>2, <3>1, <3>2 DEF DollarIsLast, NoDollarIn
  <2> QED
    BY <2>1, <2>2
<1> QED
  BY <1>1, ScanInvariant, PTL
-----------------------------------------------------------------------------
(* Plain sources.                                                           *)
AllPlain == \A s \in Sources : Plain(s)

LEMMA SourceFacts ==
  ASSUME AllPlain, TypeOK
  PROVE  /\ src \in Seq(Chars) /\ Len(src) \in Nat
         /\ \A i \in 1 .. Len(src) : src[i] # Sentinel
         /\ ~Straddles(src)
         /\ BufferSize \in Nat /\ BufferSize >= 2
         /\ filePos \in 0 .. Len(src) /\ base \in 0 .. Len(src) /\ covered \in Nat
         /\ bufferNumber \in {1, 2} /\ forward \in -1 .. BufferSize
         /\ buffers \in [{1, 2} -> [0 .. BufferSize - 1 -> Chars]]
         /\ lexeme \in Seq(Chars) /\ Len(lexeme) \in Nat /\ eofFrames \in Nat
         /\ state \in States /\ currentLine \in Nat
BY SourcesAssumption, BufferAssumption DEF AllPlain, Plain, TypeOK

LEMMA SameFacts ==
  /\ \A c : Same(c, c)
  /\ \A d : Same("nl", d) => Same(" ", d)
  /\ \A d : Same(".", d) => d = "."
  /\ \A c \in Digit : \A d : Same(c, d) => d \in Digit
BY DEF Same, Blanked, Digit

LEMMA NewlinesFinite ==
  ASSUME AllPlain, TypeOK
  PROVE  /\ IsFiniteSet(BufferNewlines) /\ Cardinality(BufferNewlines) \in Nat
         /\ \A n \in Nat : /\ IsFiniteSet(SourceNewlines(n))
                           /\ Cardinality(SourceNewlines(n)) \in Nat
<1>1. /\ IsFiniteSet(0 .. BufferSize - 1)
      /\ \A n \in Nat : IsFiniteSet(n + 1 .. Len(src))
  <2>1. 0 \in Int /\ BufferSize - 1 \in Int /\ Len(src) \in Int
    BY SourceFacts
  <2>2. \A n \in Nat : n + 1 \in Int
    OBVIOUS
  <2> QED
    BY <2>1, <2>2, FS_Interval
<1>2. /\ BufferNewlines \in SUBSET (0 .. BufferSize - 1)
      /\ \A n \in Nat : SourceNewlines(n) \in SUBSET (n + 1 .. Len(src))
  BY DEF BufferNewlines, SourceNewlines
<1> QED
  BY <1>1, <1>2, FS_Subset, FS_CardinalityType

(* A multiple of m stays one when m is added.                               *)
LEMMA NextMultiple ==
  ASSUME NEW a \in Nat, NEW m \in Nat, m >= 1, a % m = 0
  PROVE  (a + m) % m = 0
<1>1. a = m * (a \div m) + (a % m) /\ a \div m \in Int
  OBVIOUS
<1>2. PICK k \in Int : a = m * k
  BY <1>1
<1>3. a + m = m * (k + 1)
  BY <1>2
<1>4. (a + m) = m * ((a + m) \div m) + ((a + m) % m)
      /\ (a + m) \div m \in Int /\ (a + m) % m \in 0 .. m - 1
  OBVIOUS
<1>5. PICK d \in Int, r \in 0 .. m - 1 : m * (k + 1) = m * d + r /\ r = (a + m) % m
  BY <1>3, <1>4
<1>6. r = m * (k + 1 - d)
  BY <1>5
<1>7. PICK e \in Int : e = k + 1 - d
  BY <1>5
<1>8. r = m * e
  BY <1>6, <1>7
<1>9. CASE e >= 1
  <2>1. m * e >= m
    BY <1>9
  <2> QED
    BY <2>1, <1>8
<1>10. CASE e <= -1
  <2>1. m * e <= -m
    BY <1>10
  <2> QED
    BY <2>1, <1>8
<1> QED
  BY <1>5, <1>8, <1>9, <1>10

LEMMA PlainInit ==
  ASSUME AllPlain, Init
  PROVE  PlainInv
<1>1. TypeOK /\ buffers[1][0] = Sentinel
  <2>1. TypeOK
    BY ScanInit DEF ScanInv
  <2>2. 0 \in 0 .. BufferSize - 1
    BY BufferAssumption
  <2> QED
    BY <2>1, <2>2 DEF Init
<1>2. 0 % (BufferSize - 1) = 0
  BY BufferAssumption
<1>3. BufferHoldsBlock
  BY <1>1, <1>2, SourceFacts DEF Init, BufferHoldsBlock
<1>4. LexemeIsSource /\ AllRead
  BY DEF Init, LexemeIsSource, AllRead, Live, Scanning
<1>5. BufferNewlines = {}
  BY DEF Init, BufferNewlines
<1>6. NewlinesBehind /\ NewlinesCounted
  BY <1>1, <1>5, FS_EmptySet, NewlinesFinite DEF Init, NewlinesBehind, NewlinesCounted
<1> QED
  BY <1>3, <1>4, <1>6 DEF PlainInv

(* The character taken is the source's next, and the lexer has not come to  *)
(* the end of the file before.                                              *)
LEMMA TakeCharPlain ==
  ASSUME AllPlain, ScanInv, PlainInv, NEW c \in Chars, TakeChar(c)
  PROVE  /\ Live /\ Scanning /\ eofFrames = 0
         /\ forward \in 0 .. filePos - base - 1 /\ filePos - base <= BufferSize - 1
         /\ c = buffers[bufferNumber][forward]
         /\ Same(c, src[base + forward + 1]) /\ c # Sentinel
         /\ base + forward = covered + Len(lexeme)
<1>1. Live /\ Scanning /\ TypeOK /\ c # Sentinel
  BY TakeCharStep DEF ScanInv, Calls
<1>2. /\ 0 <= forward /\ forward <= filePos - base /\ filePos - base <= BufferSize - 1
      /\ buffers[bufferNumber][filePos - base] = Sentinel
      /\ base + forward = covered + Len(lexeme)
  BY <1>1 DEF PlainInv, BufferHoldsBlock, LexemeIsSource
<1>3. c = buffers[bufferNumber][forward]
  BY <1>1, <1>2, TakeCharStep
<1>4. forward \in 0 .. filePos - base - 1
  BY SMTT(30), <1>1, <1>2, <1>3, SourceFacts
<1>5. Same(c, src[base + forward + 1])
  BY <1>1, <1>3, <1>4 DEF PlainInv, BufferHoldsBlock
<1>6. eofFrames = 0
  <2>1. covered < Len(src)
    BY <1>1, <1>2, <1>4, SourceFacts
  <2> QED
    BY <1>1, <2>1, SourceFacts DEF PlainInv, AllRead
<1> QED
  BY <1>1, <1>2, <1>3, <1>4, <1>5, <1>6
(* What taking a character leaves of the block: every newline ahead is      *)
(* still there, and the one taken is blanked and counted.                   *)
LEMMA BlockAfterChar ==
  ASSUME AllPlain, ScanInv, PlainInv, NEW c \in Chars, TakeChar(c),
         UNCHANGED <<fileVars, bufferNumber, returnedDollar, eofFrames>>,
         forward' \in 0 .. forward + 1, pc' # "refilled"
  PROVE  BufferHoldsBlock' /\ AllRead' /\ NewlinesBehind' /\ NewlinesCounted'
<1>1. /\ Live /\ Scanning /\ eofFrames = 0 /\ TypeOK
      /\ forward \in 0 .. filePos - base - 1 /\ filePos - base <= BufferSize - 1
      /\ c = buffers[bufferNumber][forward]
      /\ Same(c, src[base + forward + 1]) /\ c # Sentinel
  BY TakeCharPlain DEF ScanInv
<1>2. /\ BufferSize \in Nat /\ filePos \in Nat /\ base \in Nat /\ Len(src) \in Nat
      /\ bufferNumber \in {1, 2} /\ currentLine \in Nat
      /\ buffers \in [{1, 2} -> [0 .. BufferSize - 1 -> Chars]]
  <2>1. filePos \in 0 .. Len(src) /\ base \in 0 .. Len(src) /\ Len(src) \in Nat
    BY <1>1, SourceFacts
  <2>2. filePos \in Nat /\ base \in Nat
    BY <2>1
  <2> QED
    BY <1>1, <2>1, <2>2, SourceFacts
<1>3. /\ \A i \in 0 .. BufferSize - 1 :
           buffers'[bufferNumber][i] = IF i = forward /\ c = "nl" THEN " "
                                       ELSE buffers[bufferNumber][i]
      /\ currentLine' = IF c = "nl" THEN currentLine + 1 ELSE currentLine
  <2>1. CASE c = "nl"
    <3>1. forward \in 0 .. BufferSize - 1
      BY <1>1, <1>2
    <3>2. c = "nl" /\ forward >= 0
      BY <2>1, <3>1
    <3>3. buffers' = [buffers EXCEPT ![bufferNumber][forward] = " "]
      BY <3>2 DEF TakeChar
    <3> QED
      BY <2>1, <3>1, <3>3, <1>2 DEF TakeChar
  <2>2. CASE c # "nl"
    BY <2>2 DEF TakeChar
  <2> QED
    BY <2>1, <2>2
<1>4. UNCHANGED <<src, fileOpen, filePos, base, bufferNumber, returnedDollar, eofFrames>>
  BY DEF fileVars
<1>5. BufferHoldsBlock'
  <2>1. /\ 0 <= base /\ base <= filePos
        /\ \A i \in 0 .. filePos - base - 1 :
             /\ buffers[bufferNumber][i] # Sentinel
             /\ Same(buffers[bufferNumber][i], src[base + i + 1])
        /\ buffers[bufferNumber][filePos - base] = Sentinel
        /\ filePos % (BufferSize - 1) = 0 \/ filePos = Len(src)
        /\ base % (BufferSize - 1) = 0 \/ base = Len(src)
    BY <1>1 DEF PlainInv, BufferHoldsBlock
  <2>2. ASSUME NEW i \in 0 .. filePos - base - 1
        PROVE  /\ buffers'[bufferNumber][i] # Sentinel
               /\ Same(buffers'[bufferNumber][i], src[base + i + 1])
    <3>1. i \in 0 .. BufferSize - 1 /\ buffers[bufferNumber][i] \in Chars
      BY <1>1, <1>2
    <3>2. CASE i = forward /\ c = "nl"
      <4>1. buffers'[bufferNumber][i] = " " /\ Same("nl", src[base + i + 1])
        BY <3>1, <3>2, <1>1, <1>3
      <4> QED
        BY <4>1, SameFacts, CharTypes
    <3>3. CASE ~(i = forward /\ c = "nl")
      <4>1. buffers'[bufferNumber][i] = buffers[bufferNumber][i]
        BY <3>1, <3>3, <1>3
      <4> QED
        BY <4>1, <2>1
    <3> QED
      BY <3>2, <3>3
  <2>3. buffers'[bufferNumber][filePos - base] = Sentinel
    <3>1. filePos - base \in 0 .. BufferSize - 1 /\ filePos - base # forward
      BY <1>1, <1>2, <2>1
    <3> QED
      BY <3>1, <1>3, <2>1
  <2>4. 0 <= forward' /\ forward' <= filePos - base
    BY <1>1, <1>2
  <2> QED
    BY <1>1, <1>4, <2>1, <2>2, <2>3, <2>4 DEF BufferHoldsBlock
<1>6. BufferNewlines' = IF c = "nl" THEN BufferNewlines \ {forward} ELSE BufferNewlines
  <2>1. BufferNewlines' = { i \in 0 .. BufferSize - 1 :
                              base + i < filePos /\ buffers'[bufferNumber][i] = "nl" }
    BY <1>4 DEF BufferNewlines
  <2> QED
    BY <2>1, <1>1, <1>3 DEF BufferNewlines
<1>7. forward \in BufferNewlines <=> c = "nl"
  BY <1>1, <1>2 DEF BufferNewlines
<1>8. NewlinesBehind'
  <2>1. \A i \in BufferNewlines : i >= forward /\ i \in Nat
    BY DEF PlainInv, NewlinesBehind, BufferNewlines
  <2>2. \A i \in BufferNewlines' : i >= forward + 1
    BY <2>1, <1>1, <1>6, <1>7
  <2>3. \A i \in BufferNewlines' : i \in Nat
    BY <2>1, <1>6
  <2> QED
    BY <2>2, <2>3, <1>1 DEF NewlinesBehind
<1>9. NewlinesCounted'
  <2>1. SourceNewlines(filePos)' = SourceNewlines(filePos)
        /\ SourceNewlines(0)' = SourceNewlines(0)
    BY <1>4 DEF SourceNewlines
  <2>2. Cardinality(BufferNewlines') = IF c = "nl" THEN Cardinality(BufferNewlines) - 1
                                       ELSE Cardinality(BufferNewlines)
    BY <1>1, <1>6, <1>7, NewlinesFinite, FS_RemoveElement
  <2>3. /\ Cardinality(BufferNewlines) \in Nat /\ Cardinality(SourceNewlines(filePos)) \in Nat
        /\ (currentLine - 1) + Cardinality(BufferNewlines)
             + Cardinality(SourceNewlines(filePos)) = Cardinality(SourceNewlines(0))
    BY <1>1, <1>2, NewlinesFinite DEF PlainInv, NewlinesCounted
  <2>4. (currentLine' - 1) + Cardinality(BufferNewlines')
          + Cardinality(SourceNewlines(filePos)) = Cardinality(SourceNewlines(0))
    <3>1. CASE c = "nl"
      <4>1. /\ Cardinality(BufferNewlines') = Cardinality(BufferNewlines) - 1
            /\ currentLine' = currentLine + 1
        BY <3>1, <2>2, <1>3
      <4> QED
        BY <4>1, <2>3, <1>2
    <3>2. CASE c # "nl"
      BY <3>2, <2>2, <2>3, <1>2, <1>3
    <3> QED
      BY <3>1, <3>2
  <2> QED
    BY <2>1, <2>4 DEF NewlinesCounted
<1>10. AllRead'
  BY <1>1, <1>4 DEF AllRead, Live
<1> QED
  BY <1>5, <1>8, <1>9, <1>10

LEMMA ReadOnPlain ==
  ASSUME AllPlain, ScanInv, PlainInv, NEW c \in Chars, ReadOn(c)
  PROVE  PlainInv'
<1>1. /\ TakeChar(c) /\ forward' = forward + 1 /\ lexeme' = Scanned(c)
      /\ state' = Invoke[state][c] /\ pc' = "scan"
      /\ UNCHANGED <<fileVars, covered, bufferNumber, returnedDollar, eofFrames>>
  BY DEF ReadOn, Entered
<1>2. /\ Live /\ Scanning /\ TypeOK /\ forward \in 0 .. filePos - base - 1
      /\ Same(c, src[base + forward + 1]) /\ base + forward = covered + Len(lexeme)
  BY <1>1, TakeCharPlain DEF ScanInv
<1>3. /\ filePos \in Nat /\ base \in Nat /\ covered \in Nat /\ Len(lexeme) \in Nat
      /\ lexeme \in Seq(Chars) /\ state \in States
  BY <1>2, SourceFacts
<1>4. BufferHoldsBlock' /\ AllRead' /\ NewlinesBehind' /\ NewlinesCounted'
  BY <1>1, <1>2, BlockAfterChar
<1>5. /\ Len(lexeme') = Len(lexeme) + 1 /\ lexeme'[Len(lexeme) + 1] = c
      /\ \A i \in 1 .. Len(lexeme) : lexeme'[i] = lexeme[i]
  BY <1>1, <1>3, ScannedType
<1>6. base' + forward' = covered' + Len(lexeme') /\ covered' = covered /\ src' = src
  BY <1>1, <1>2, <1>3, <1>5 DEF fileVars
<1>7. ASSUME NEW i \in 1 .. Len(lexeme')
      PROVE  Same(lexeme'[i], src[covered + i])
  <2>1. CASE i \in 1 .. Len(lexeme)
    BY <2>1, <1>2, <1>5 DEF PlainInv, LexemeIsSource
  <2>2. CASE i = Len(lexeme) + 1
    <3>1. base + forward + 1 = covered + i
      BY <2>2, <1>2, <1>3
    <3> QED
      BY <3>1, <2>2, <1>2, <1>5
  <2> QED
    BY <2>1, <2>2, <1>3, <1>5
<1>8. state' = 3 => lexeme'[Len(lexeme')] \in Digit
  <2>1. state' = 3 => c \in Digit
    BY <1>1, <1>3, InvokeInto
  <2>2. lexeme'[Len(lexeme')] = c
    BY <1>5
  <2> QED
    BY <2>1, <2>2
<1>9. state' = 5 => lexeme'[Len(lexeme')] = "." /\ lexeme'[Len(lexeme') - 1] \in Digit
  <2> SUFFICES ASSUME state' = 5
               PROVE  lexeme'[Len(lexeme')] = "." /\ lexeme'[Len(lexeme') - 1] \in Digit
    OBVIOUS
  <2>1. state = 3 /\ c = "."
    BY <1>1, <1>3, InvokeInto
  <2>2. Len(lexeme) >= 1
    <3>1. lexeme # <<>>
      BY <2>1, <1>2 DEF ScanInv, LexemeOfState, Start
    <3> QED
      BY <3>1, <1>3
  <2>3. lexeme[Len(lexeme)] \in Digit
    BY <2>1, <1>2 DEF PlainInv, LexemeIsSource
  <2>4. lexeme'[Len(lexeme)] = lexeme[Len(lexeme)] /\ Len(lexeme') - 1 = Len(lexeme)
    BY <2>2, <1>3, <1>5
  <2> QED
    BY <2>1, <2>3, <2>4, <1>5
<1>10. LexemeIsSource'
  BY <1>1, <1>6, <1>7, <1>8, <1>9 DEF LexemeIsSource
<1> QED
  BY <1>4, <1>10 DEF PlainInv

(* A range right after a number is given back within the buffer, because    *)
(* the source does not straddle.                                            *)
LEMMA RangeInBuffer ==
  ASSUME AllPlain, ScanInv, PlainInv, NEW c \in Chars, TakeChar(c), Entered(c) = 8
  PROVE  forward >= 1
<1>1. /\ Live /\ Scanning /\ TypeOK /\ forward \in 0 .. filePos - base - 1
      /\ Same(c, src[base + forward + 1]) /\ base + forward = covered + Len(lexeme)
  BY TakeCharPlain DEF ScanInv
<1>2. state = 5 /\ c = "."
  BY <1>1, SourceFacts, InvokeInto DEF Entered
<1>3. /\ Len(lexeme) >= 2 /\ lexeme[Len(lexeme)] = "." /\ lexeme[Len(lexeme) - 1] \in Digit
      /\ \A i \in 1 .. Len(lexeme) : Same(lexeme[i], src[covered + i])
      /\ base % (BufferSize - 1) = 0 \/ base = Len(src)
  BY <1>1, <1>2 DEF ScanInv, LexemeOfState, PlainInv, LexemeIsSource, BufferHoldsBlock
<1>4. /\ Len(src) \in Nat /\ filePos \in 0 .. Len(src) /\ base \in Nat /\ covered \in Nat
      /\ Len(lexeme) \in Nat /\ ~Straddles(src)
  BY <1>1, SourceFacts
<1> SUFFICES ASSUME forward = 0 PROVE FALSE
  BY <1>1, <1>4
<1>5. base = covered + Len(lexeme) /\ base \in 2 .. Len(src) - 1
  BY <1>1, <1>3, <1>4
<1>6. src[base] = "."
  <2>1. Same(lexeme[Len(lexeme)], src[covered + Len(lexeme)])
    BY <1>3, <1>4
  <2> QED
    BY <2>1, <1>3, <1>5, SameFacts
<1>7. src[base - 1] \in Digit
  <2>1. Same(lexeme[Len(lexeme) - 1], src[covered + (Len(lexeme) - 1)])
    BY <1>3, <1>4
  <2>2. covered + (Len(lexeme) - 1) = base - 1
    BY <1>4, <1>5
  <2>3. Same(lexeme[Len(lexeme) - 1], src[base - 1])
    BY <2>1, <2>2
  <2> QED
    BY <2>3, <1>3, SameFacts
<1>8. src[base + 1] = "."
  <2>1. Same(".", src[base + 1])
    BY <1>1, <1>2, <1>4
  <2> QED
    BY <2>1, SameFacts
<1>9. base % (BufferSize - 1) = 0
  BY <1>3, <1>5, <1>4
<1> QED
  BY <1>4, <1>5, <1>6, <1>7, <1>8, <1>9 DEF Straddles

LEMMA AcceptPlain ==
  ASSUME AllPlain, ScanInv, PlainInv, NEW c \in Chars, Accept(c), pc' = "call"
  PROVE  PlainInv'
<1> DEFINE r == RetractBy(Entered(c))
<1>1. /\ TakeChar(c) /\ forward' = forward + 1 - r /\ Entered(c) \in Accepting
      /\ covered' = covered + Len(Scanned(c)) - r
      /\ UNCHANGED <<fileVars, bufferNumber, returnedDollar, eofFrames>>
  BY DEF Accept
<1>2. /\ Live /\ TypeOK /\ forward \in 0 .. filePos - base - 1
      /\ base + forward = covered + Len(lexeme)
  BY <1>1, TakeCharPlain DEF ScanInv
<1>3. /\ filePos \in Nat /\ base \in Nat /\ covered \in Nat /\ Len(lexeme) \in Nat
      /\ lexeme \in Seq(Chars) /\ state \in States
  BY <1>2, SourceFacts
<1>4. r \in 0 .. 2 /\ (r = 2 => forward >= 1)
  <2>1. Entered(c) \in States
    BY <1>3, InvokeType DEF Entered
  <2>2. r \in 0 .. 2 /\ (r = 2 => Entered(c) = 8)
    BY <2>1, RetractType
  <2> QED
    BY <2>2, <1>1, RangeInBuffer
<1> HIDE DEF r
<1>5. forward' \in 0 .. forward + 1
  BY <1>1, <1>2, <1>4
<1>6. BufferHoldsBlock' /\ AllRead' /\ NewlinesBehind' /\ NewlinesCounted'
  BY <1>1, <1>5, BlockAfterChar
<1>7. base' + forward' = covered'
  <2>1. Len(Scanned(c)) = Len(lexeme) + 1
    BY <1>3, ScannedType
  <2> QED
    BY <2>1, <1>1, <1>2, <1>3, <1>4 DEF fileVars
<1>8. LexemeIsSource'
  BY <1>7 DEF LexemeIsSource, Scanning
<1> QED
  BY <1>6, <1>8 DEF PlainInv

LEMMA LexicalErrorPlain ==
  ASSUME AllPlain, ScanInv, PlainInv, NEW c \in Chars, LexicalError(c)
  PROVE  PlainInv'
<1> DEFINE back == IF InAlphabet(c) THEN 1 ELSE 0
<1>1. /\ TakeChar(c) /\ forward' = forward + 1 - back /\ pc' = "call"
      /\ covered' = covered + Len(Scanned(c)) - back
      /\ UNCHANGED <<fileVars, bufferNumber, returnedDollar, eofFrames>>
  BY DEF LexicalError
<1>2. /\ TypeOK /\ forward \in 0 .. filePos - base - 1
      /\ base + forward = covered + Len(lexeme)
  BY <1>1, TakeCharPlain DEF ScanInv
<1>3. /\ filePos \in Nat /\ base \in Nat /\ covered \in Nat /\ Len(lexeme) \in Nat
      /\ lexeme \in Seq(Chars)
  BY <1>2, SourceFacts
<1>4. back \in 0 .. 1
  OBVIOUS
<1> HIDE DEF back
<1>5. forward' \in 0 .. forward + 1
  BY <1>1, <1>2, <1>4
<1>6. BufferHoldsBlock' /\ AllRead' /\ NewlinesBehind' /\ NewlinesCounted'
  BY <1>1, <1>5, BlockAfterChar
<1>7. base' + forward' = covered'
  <2>1. Len(Scanned(c)) = Len(lexeme) + 1
    BY <1>3, ScannedType
  <2> QED
    BY <2>1, <1>1, <1>2, <1>3, <1>4 DEF fileVars
<1>8. LexemeIsSource'
  BY <1>1, <1>7 DEF LexemeIsSource, Scanning
<1> QED
  BY <1>6, <1>8 DEF PlainInv

(* The next block: the newlines it brings are the source's next ones.       *)
LEMMA NewlinesOfBlock ==
  ASSUME AllPlain, TypeOK, Reload, UNCHANGED src
  PROVE  Cardinality(SourceNewlines(filePos))
           = Cardinality(BufferNewlines') + Cardinality(SourceNewlines(filePos'))
<1>1. /\ src \in Seq(Chars) /\ Len(src) \in Nat /\ BufferSize \in Nat
      /\ filePos \in 0 .. Len(src)
  BY SourceFacts
<1>2. PICK read \in 0 .. BufferSize - 1 :
        /\ filePos' = filePos + read /\ filePos + read \in 0 .. Len(src) /\ base' = filePos
        /\ \A i \in 0 .. read - 1 : buffers'[bufferNumber'][i] = src[filePos + i + 1]
  BY ReloadStep
<1>3. PICK n \in Nat : n = filePos + read /\ filePos' = n
  BY <1>1, <1>2
<1>4. filePos \in Nat /\ read \in Nat /\ n <= Len(src) /\ read <= BufferSize - 1
  BY <1>1, <1>2, <1>3
<1> DEFINE block == { j \in filePos + 1 .. n : src[j] = "nl" }
           fresh == { i \in 0 .. read - 1 : src[filePos + i + 1] = "nl" }
           f     == [i \in fresh |-> filePos + i + 1]
<1>5. BufferNewlines' = fresh
  <2>1. BufferNewlines' = { i \in 0 .. BufferSize - 1 :
                              filePos + i < n /\ buffers'[bufferNumber'][i] = "nl" }
    BY <1>2, <1>3 DEF BufferNewlines
  <2>2. \A i \in Int : i \in 0 .. BufferSize - 1 /\ filePos + i < n <=> i \in 0 .. read - 1
    BY <1>1, <1>3, <1>4
  <2> QED
    BY <2>1, <2>2, <1>2
<1>6. IsFiniteSet(fresh) /\ IsFiniteSet(SourceNewlines(n))
  <2>1. IsFiniteSet(0 .. read - 1) /\ IsFiniteSet(n + 1 .. Len(src))
    BY <1>1, <1>4, FS_Interval
  <2>2. fresh \in SUBSET (0 .. read - 1) /\ SourceNewlines(n) \in SUBSET (n + 1 .. Len(src))
    BY DEF SourceNewlines
  <2> QED
    BY <2>1, <2>2, FS_Subset
<1>7. f \in Bijection(fresh, block)
  <2>1. ASSUME NEW i \in fresh
        PROVE  f[i] \in block
    BY <1>3, <1>4
  <2>2. \A a, b \in fresh : f[a] = f[b] => a = b
    BY <1>4
  <2>3. ASSUME NEW j \in block
        PROVE  \E i \in fresh : f[i] = j
    <3>1. j - filePos - 1 \in 0 .. read - 1 /\ src[j] = "nl"
          /\ filePos + (j - filePos - 1) + 1 = j
      BY <1>3, <1>4
    <3> QED
      BY <3>1
  <2>4. f \in [fresh -> block]
    BY <2>1
  <2> HIDE DEF f, fresh, block
  <2> QED
    BY <2>2, <2>3, <2>4 DEF Bijection, Injection, Surjection, IsInjective
<1>8. SourceNewlines(filePos) = block \cup SourceNewlines(n)
      /\ block \cap SourceNewlines(n) = {}
  <2>1. /\ \A j \in Int : j \in filePos + 1 .. Len(src) <=>
                           j \in filePos + 1 .. n \/ j \in n + 1 .. Len(src)
        /\ \A j \in Int : ~(j \in filePos + 1 .. n /\ j \in n + 1 .. Len(src))
    BY <1>1, <1>3, <1>4
  <2> QED
    BY <2>1 DEF SourceNewlines
<1> HIDE DEF block, fresh, f
<1>9. IsFiniteSet(block) /\ Cardinality(block) = Cardinality(fresh)
  BY <1>6, <1>7, FS_Bijection DEF ExistsBijection
<1>10. Cardinality(block \cup SourceNewlines(n))
         = Cardinality(block) + Cardinality(SourceNewlines(n))
             - Cardinality(block \cap SourceNewlines(n))
  BY <1>6, <1>9, FS_Union
<1>11. Cardinality(block) \in Nat /\ Cardinality(SourceNewlines(n)) \in Nat
  BY <1>6, <1>9, FS_CardinalityType
<1>12. Cardinality(block \cap SourceNewlines(n)) = 0
  BY <1>8, FS_EmptySet
<1> QED
  BY <1>3, <1>5, <1>8, <1>9, <1>10, <1>11, <1>12

LEMMA RefillPlain ==
  ASSUME AllPlain, ScanInv, PlainInv, Refill
  PROVE  PlainInv'
<1>1. /\ TypeOK /\ Live /\ Scanning /\ Reload /\ Sentinel \in NextChars /\ pc' = "refilled"
      /\ UNCHANGED <<src, fileOpen, covered, currentLine, returnedDollar, lexeme, state,
                     eofFrames>>
  BY DEF Refill, ScanInv, Calls, Scanning, scanVars
<1>2. /\ src \in Seq(Chars) /\ Len(src) \in Nat /\ BufferSize \in Nat /\ BufferSize >= 2
      /\ filePos \in 0 .. Len(src) /\ base \in 0 .. Len(src) /\ currentLine \in Nat
      /\ \A i \in 1 .. Len(src) : src[i] # Sentinel
  BY <1>1, SourceFacts
<1>3. PICK read \in 0 .. BufferSize - 1 :
        /\ filePos' = filePos + read /\ filePos + read \in 0 .. Len(src)
        /\ base' = filePos /\ forward' = 0
        /\ filePos + read = Len(src) \/ read = BufferSize - 1
        /\ \A i \in 0 .. read - 1 : buffers'[bufferNumber'][i] = src[filePos + i + 1]
        /\ buffers'[bufferNumber'][read] = Sentinel
  BY <1>1, ReloadStep
<1>4. PICK n \in Nat : n = filePos + read /\ filePos' = n
  BY <1>2, <1>3
<1>5. /\ filePos \in Nat /\ read \in Nat /\ base \in Nat /\ n <= Len(src)
      /\ read <= BufferSize - 1 /\ n - filePos = read /\ (n = Len(src) \/ read = BufferSize - 1)
  BY <1>2, <1>3, <1>4
<1>6. forward = filePos - base
  <2>1. /\ 0 <= forward /\ forward <= filePos - base /\ forward \in Int
        /\ \A i \in 0 .. filePos - base - 1 : buffers[bufferNumber][i] # Sentinel
    BY <1>1, SourceFacts DEF PlainInv, BufferHoldsBlock
  <2>2. buffers[bufferNumber][forward] = Sentinel
    BY <1>1, <2>1 DEF NextChars
  <2>3. forward \notin 0 .. filePos - base - 1
    BY <2>1, <2>2
  <2> QED
    BY <2>1, <2>3, <1>2
<1>7. BufferHoldsBlock'
  <2>1. filePos % (BufferSize - 1) = 0 \/ filePos = Len(src)
    BY <1>1 DEF PlainInv, BufferHoldsBlock
  <2>2. n % (BufferSize - 1) = 0 \/ n = Len(src)
    <3>1. CASE read = BufferSize - 1 /\ filePos % (BufferSize - 1) = 0
      <4>1. BufferSize - 1 \in Nat /\ BufferSize - 1 >= 1
        BY <1>2
      <4>2. (filePos + (BufferSize - 1)) % (BufferSize - 1) = 0
        BY <3>1, <4>1, <1>5, NextMultiple
      <4> QED
        BY <4>2, <3>1, <1>4
    <3>2. CASE n = Len(src) \/ filePos = Len(src)
      BY <3>2, <1>2, <1>4, <1>5
    <3> QED
      BY <3>1, <3>2, <2>1, <1>5
  <2>3. ASSUME NEW i \in 0 .. read - 1
        PROVE  /\ buffers'[bufferNumber'][i] # Sentinel
               /\ Same(buffers'[bufferNumber'][i], src[filePos + i + 1])
    <3>1. filePos + i + 1 \in 1 .. Len(src)
      BY <1>2, <1>4, <1>5
    <3> QED
      BY <3>1, <1>2, <1>3, SameFacts
  <2>4. n = filePos => n = Len(src)
    BY <1>2, <1>4, <1>5
  <2>5. 0 <= filePos /\ filePos <= n /\ n - filePos <= BufferSize - 1 /\ 0 <= n - filePos
    BY <1>2, <1>4, <1>5
  <2>6. /\ \A i \in 0 .. n - filePos - 1 :
             /\ buffers'[bufferNumber'][i] # Sentinel
             /\ Same(buffers'[bufferNumber'][i], src[filePos + i + 1])
        /\ buffers'[bufferNumber'][n - filePos] = Sentinel
    BY <2>3, <1>3, <1>5
  <2> QED
    BY <1>1, <1>3, <1>4, <2>1, <2>2, <2>4, <2>5, <2>6 DEF BufferHoldsBlock
<1>8. LexemeIsSource'
  <2>1. /\ base + forward = covered + Len(lexeme)
        /\ \A i \in 1 .. Len(lexeme) : Same(lexeme[i], src[covered + i])
        /\ state = 3 => lexeme[Len(lexeme)] \in Digit
        /\ state = 5 => lexeme[Len(lexeme)] = "." /\ lexeme[Len(lexeme) - 1] \in Digit
    BY <1>1 DEF PlainInv, LexemeIsSource
  <2>2. base' + forward' = base + forward
    BY <1>3, <1>5, <1>6
  <2> QED
    BY <1>1, <2>1, <2>2 DEF LexemeIsSource
<1>9. AllRead'
  <2>1. eofFrames > 0 => filePos = Len(src) /\ covered = Len(src)
    BY DEF PlainInv, AllRead
  <2>2. filePos = Len(src) => n = Len(src)
    BY <1>2, <1>4, <1>5
  <2> QED
    BY <1>1, <1>4, <2>1, <2>2 DEF AllRead, Live
<1>10. NewlinesBehind'
  <2>1. \A i \in BufferNewlines' : i >= 0
    BY <1>2 DEF BufferNewlines
  <2> QED
    BY <2>1, <1>3 DEF NewlinesBehind
<1>11. NewlinesCounted'
  <2>1. BufferNewlines = {}
    BY <1>2, <1>6, SourceFacts DEF PlainInv, NewlinesBehind, BufferNewlines
  <2>2. Cardinality(BufferNewlines) = 0
    BY <2>1, FS_EmptySet
  <2>3. /\ SourceNewlines(0)' = SourceNewlines(0)
        /\ SourceNewlines(filePos)' = SourceNewlines(filePos')
    BY <1>1 DEF SourceNewlines
  <2>4. (currentLine - 1) + Cardinality(BufferNewlines) + Cardinality(SourceNewlines(filePos))
          = Cardinality(SourceNewlines(0))
    BY DEF PlainInv, NewlinesCounted
  <2>5. Cardinality(SourceNewlines(filePos))
          = Cardinality(BufferNewlines') + Cardinality(SourceNewlines(filePos'))
    BY <1>1, NewlinesOfBlock
  <2>6. /\ Cardinality(BufferNewlines') \in Nat /\ Cardinality(SourceNewlines(filePos')) \in Nat
        /\ Cardinality(SourceNewlines(filePos)) \in Nat
    <3>1. IsFiniteSet(BufferNewlines')
      <4>1. BufferNewlines' \in SUBSET (0 .. BufferSize - 1)
        BY DEF BufferNewlines
      <4>2. IsFiniteSet(0 .. BufferSize - 1)
        BY <1>2, FS_Interval
      <4> QED
        BY <4>1, <4>2, FS_Subset
    <3> QED
      BY <3>1, <1>1, <1>4, <1>5, NewlinesFinite, FS_CardinalityType
  <2>7. PICK b \in Nat, r \in Nat :
          b = Cardinality(BufferNewlines') /\ r = Cardinality(SourceNewlines(filePos'))
    BY <2>6
  <2>8. (currentLine - 1) + b + r = Cardinality(SourceNewlines(0))
    BY <1>2, <2>2, <2>4, <2>5, <2>6, <2>7
  <2> QED
    BY <1>1, <2>3, <2>7, <2>8 DEF NewlinesCounted
<1> QED
  BY <1>7, <1>8, <1>9, <1>10, <1>11 DEF PlainInv

(* At the end of the file nothing is left in the source or in the buffer.   *)
LEMMA AtEofPlain ==
  ASSUME AllPlain, ScanInv, PlainInv, AtEof
  PROVE  /\ TypeOK /\ Live /\ Scanning /\ forward = 0
         /\ filePos = Len(src) /\ base = Len(src) /\ covered + Len(lexeme) = Len(src)
         /\ BufferNewlines = {}
<1>1. /\ TypeOK /\ Live /\ Scanning /\ forward = 0 /\ pc = "refilled"
      /\ Sentinel \in NextChars
  BY AtEofStep DEF AtEof
<1>2. /\ filePos \in 0 .. Len(src) /\ base \in 0 .. Len(src) /\ Len(src) \in Nat
      /\ Len(lexeme) \in Nat /\ covered \in Nat
  BY <1>1, SourceFacts
<1>3. /\ base <= filePos /\ base + forward = covered + Len(lexeme)
      /\ \A i \in 0 .. filePos - base - 1 : buffers[bufferNumber][i] # Sentinel
      /\ filePos = base => filePos = Len(src)
  BY <1>1 DEF PlainInv, BufferHoldsBlock, LexemeIsSource
<1>4. buffers[bufferNumber][0] = Sentinel
  BY <1>1 DEF NextChars
<1>5. 0 \notin 0 .. filePos - base - 1
  BY <1>3, <1>4
<1>6. filePos = base
  BY <1>2, <1>3, <1>5
<1>7. BufferNewlines = {}
  BY <1>2, <1>6 DEF BufferNewlines
<1> QED
  BY <1>1, <1>2, <1>3, <1>6, <1>7

(* The lexer is done with the file: what the invariant asks then.           *)
LEMMA FileDone ==
  ASSUME AllPlain, ScanInv, PlainInv,
         UNCHANGED <<src, filePos, base, buffers, bufferNumber, currentLine>>,
         filePos = Len(src), covered' = Len(src), ~Live', BufferNewlines = {} \/ UNCHANGED forward
  PROVE  PlainInv'
<1>1. BufferHoldsBlock' /\ LexemeIsSource' /\ AllRead'
  BY DEF BufferHoldsBlock, LexemeIsSource, AllRead
<1>2. BufferNewlines' = BufferNewlines /\ NewlinesBehind
  BY DEF BufferNewlines, PlainInv
<1>3. NewlinesBehind'
  BY <1>2 DEF NewlinesBehind
<1>4. NewlinesCounted'
  BY <1>2 DEF PlainInv, NewlinesCounted, SourceNewlines
<1> QED
  BY <1>1, <1>3, <1>4 DEF PlainInv

LEMMA EofErrorPlain ==
  ASSUME AllPlain, ScanInv, PlainInv, EofError
  PROVE  PlainInv'
<1>1. /\ AtEof /\ pc' = "call" /\ covered' = covered + Len(lexeme)
      /\ UNCHANGED <<fileVars, buffers, bufferNumber, forward, currentLine, returnedDollar>>
  BY DEF EofError
<1>2. /\ Live /\ forward = 0 /\ filePos = Len(src) /\ base = Len(src)
      /\ covered' = Len(src) /\ Len(src) \in Nat
  BY <1>1, AtEofPlain, SourceFacts
<1>3. BufferHoldsBlock'
  BY <1>1, <1>2 DEF PlainInv, BufferHoldsBlock, Live, fileVars
<1>4. LexemeIsSource'
  BY <1>1, <1>2 DEF LexemeIsSource, Scanning, fileVars
<1>5. AllRead'
  BY <1>1, <1>2 DEF AllRead, fileVars
<1>6. NewlinesBehind' /\ NewlinesCounted'
  BY <1>1 DEF PlainInv, NewlinesBehind, NewlinesCounted, BufferNewlines, SourceNewlines, fileVars
<1> QED
  BY <1>3, <1>4, <1>5, <1>6 DEF PlainInv

LEMMA EofDonePlain ==
  ASSUME AllPlain, ScanInv, PlainInv, EofAtStart \/ EofToken \/ EofDrop
  PROVE  PlainInv'
<1>1. /\ AtEof /\ UNCHANGED <<src, filePos, base, buffers, bufferNumber, currentLine>>
      /\ ~Live'
  BY DEF EofAtStart, EofToken, EofDrop, Live, fileVars
<1>2. filePos = Len(src) /\ covered + Len(lexeme) = Len(src) /\ BufferNewlines = {}
      /\ covered \in Nat /\ Scanning
  BY <1>1, AtEofPlain, SourceFacts
<1>3. covered' = Len(src)
  <2>1. CASE EofAtStart
    <3>1. lexeme = <<>>
      BY <2>1, <1>2 DEF EofAtStart, ScanInv, LexemeOfState
    <3> QED
      BY <3>1, <2>1, <1>2 DEF EofAtStart
  <2>2. CASE EofToken \/ EofDrop
    BY <2>2, <1>2 DEF EofToken, EofDrop
  <2> QED
    BY <2>1, <2>2
<1> QED
  BY <1>1, <1>2, <1>3, FileDone

LEMMA ClosedPlain ==
  ASSUME AllPlain, ScanInv, PlainInv, Unwind \/ ReturnDollar
  PROVE  PlainInv'
<1>1. /\ UNCHANGED <<src, filePos, base, buffers, bufferNumber, currentLine, forward, covered>>
      /\ ~Live'
  BY DEF Unwind, ReturnDollar, Live, fileVars
<1>2. eofFrames > 0 \/ ~Live
  BY DEF Unwind, ReturnDollar, ScanInv, Calls, Live
<1> QED
  BY <1>1, <1>2, FileDone DEF PlainInv, AllRead

LEMMA BeginLexemePlain ==
  ASSUME AllPlain, ScanInv, PlainInv, BeginLexeme
  PROVE  PlainInv'
<1>1. /\ Live /\ pc = "call" /\ pc' = "scan" /\ state' = 0 /\ lexeme' = <<>>
      /\ UNCHANGED <<fileVars, covered, buffers, bufferNumber, forward, currentLine,
                     returnedDollar, eofFrames>>
  BY DEF BeginLexeme, Live, Start
<1>2. BufferHoldsBlock' /\ AllRead'
  BY <1>1 DEF PlainInv, BufferHoldsBlock, AllRead, Live, fileVars
<1>3. LexemeIsSource'
  <2>1. base + forward = covered /\ covered \in Nat
    BY <1>1, SourceFacts DEF PlainInv, LexemeIsSource, ScanInv
  <2> QED
    BY <2>1, <1>1 DEF LexemeIsSource, fileVars
<1>4. NewlinesBehind' /\ NewlinesCounted'
  BY <1>1 DEF PlainInv, NewlinesBehind, NewlinesCounted, BufferNewlines, SourceNewlines, fileVars
<1> QED
  BY <1>2, <1>3, <1>4 DEF PlainInv

LEMMA PlainStutter ==
  ASSUME PlainInv, UNCHANGED vars
  PROVE  PlainInv'
<1>1. BufferHoldsBlock' /\ LexemeIsSource' /\ AllRead'
  BY DEF PlainInv, BufferHoldsBlock, LexemeIsSource, AllRead, Live, Scanning, vars, fileVars,
     scanVars
<1>2. NewlinesBehind' /\ NewlinesCounted'
  BY DEF PlainInv, NewlinesBehind, NewlinesCounted, BufferNewlines, SourceNewlines, vars, fileVars
<1> QED
  BY <1>1, <1>2 DEF PlainInv

LEMMA PlainStep ==
  ASSUME AllPlain, ScanInv, PlainInv, [Next]_vars
  PROVE  PlainInv'
<1>1. CASE ReturnDollar \/ Unwind
  BY <1>1, ClosedPlain
<1>2. CASE BeginLexeme
  BY <1>2, BeginLexemePlain
<1>3. CASE Refill
  BY <1>3, RefillPlain
<1>4. ASSUME NEW c \in Chars, ReadOn(c)
      PROVE  PlainInv'
  BY <1>4, ReadOnPlain
<1>5. ASSUME NEW c \in Chars, AcceptToken(c)
      PROVE  PlainInv'
  <2>1. Accept(c) /\ TakeChar(c)
    BY <1>5 DEF AcceptToken, Accept
  <2>2. pc' = "call"
    <3>1. eofFrames = 0
      BY <2>1, TakeCharPlain
    <3> QED
      BY <3>1, <1>5 DEF AcceptToken, Return
  <2> QED
    BY <2>1, <2>2, AcceptPlain
<1>6. ASSUME NEW c \in Chars, DropLexeme(c)
      PROVE  PlainInv'
  BY <1>6, AcceptPlain DEF DropLexeme
<1>7. ASSUME NEW c \in Chars, LexicalError(c)
      PROVE  PlainInv'
  BY <1>7, LexicalErrorPlain
<1>8. CASE EofAtStart \/ EofToken \/ EofDrop
  BY <1>8, EofDonePlain
<1>9. CASE EofError
  BY <1>9, EofErrorPlain
<1>10. CASE UNCHANGED vars
  BY <1>10, PlainStutter
<1> QED
  BY <1>1, <1>2, <1>3, <1>4, <1>5, <1>6, <1>7, <1>8, <1>9, <1>10 DEF Next

(* The invariant of plain sources.                                          *)
THEOREM PlainInvariant == ASSUME AllPlain PROVE Spec => []PlainInv
<1>1. Init => PlainInv
  BY PlainInit
<1>2. ScanInv /\ PlainInv /\ [Next]_vars => PlainInv'
  BY PlainStep
<1> QED
  BY <1>1, <1>2, ScanInvariant, PTL DEF Spec

(* The lexemes of a plain source follow one another without gap or overlap, *)
(* across retractions and buffer switches, whatever the buffers' size.      *)
THEOREM LexemesCoverPlainSource == ASSUME AllPlain PROVE Spec => []LexemesCoverSource
<1>1. ASSUME ScanInv, PlainInv
      PROVE  LexemesCoverSource
  <2>1. pc = "call" /\ Live => base + forward = covered
    BY <1>1 DEF PlainInv, LexemeIsSource
  <2>2. Scanning => /\ base + forward = covered + Len(lexeme)
                    /\ \A i \in 1 .. Len(lexeme) : Same(lexeme[i], src[covered + i])
    BY <1>1 DEF ScanInv, Calls, PlainInv, LexemeIsSource
  <2>3. Scanning => base + forward <= Len(src)
    <3>1. Scanning => forward <= filePos - base
      BY <1>1 DEF ScanInv, Calls, PlainInv, BufferHoldsBlock
    <3>2. /\ forward \in Int /\ base \in Int /\ filePos \in Int /\ Len(src) \in Int
          /\ filePos <= Len(src)
      BY <1>1, SourceFacts DEF ScanInv
    <3> QED
      BY <3>1, <3>2
  <2> QED
    BY <2>1, <2>2, <2>3 DEF LexemesCoverSource, Live
<1> QED
  BY <1>1, ScanInvariant, PlainInvariant, PTL

(* DOLLAR is never returned while part of a plain source is unread.         *)
THEOREM DollarAfterWholeFile == ASSUME AllPlain PROVE Spec => []DollarMeansWholeFile
<1>1. PlainInv => DollarMeansWholeFile
  BY DEF PlainInv, AllRead, Live, DollarMeansWholeFile
<1> QED
  BY <1>1, PlainInvariant, PTL

(* The line count of a plain source is exact, irrespective of retraction:   *)
(* every newline is either counted or still unread.                         *)
THEOREM NewlinesCountedOnce == ASSUME AllPlain PROVE Spec => []EachNewlineCountedOnce
<1>1. ASSUME PlainInv
      PROVE  EachNewlineCountedOnce
  <2>1. { i \in Unread : buffers[bufferNumber][i] = "nl" } = BufferNewlines
    BY <1>1 DEF Unread, BufferNewlines, PlainInv, NewlinesBehind
  <2>2. /\ { j \in filePos + 1 .. Len(src) : src[j] = "nl" } = SourceNewlines(filePos)
        /\ { j \in 1 .. Len(src) : src[j] = "nl" } = SourceNewlines(0)
    BY DEF SourceNewlines
  <2> QED
    BY <1>1, <2>1, <2>2 DEF PlainInv, NewlinesCounted, EachNewlineCountedOnce, NewlinesIn
<1> QED
  BY <1>1, PlainInvariant, PTL
-----------------------------------------------------------------------------
(* The lexical rules, character by character: what the first n characters   *)
(* of r are.                                                                *)
Letter   == Alpha \cup {"_"}
WordChar == Letter \cup Digit

Digits(r, i, j)   == \A x \in i .. j : r[x] \in Digit
Word(r, n)        == r[1] \in Letter /\ \A x \in 1 .. n : r[x] \in WordChar
Fraction(r, k, n) == 2 <= k /\ k < n /\ r[k] = "." /\ Digits(r, 1, k - 1) /\ Digits(r, k + 1, n)
Exponent(r, e, m) == r[e] = "e" /\ (m = e \/ (m = e + 1 /\ r[m] \in {"+", "-"}))
Float(r, n) == \E k, e, m \in 1 .. n :
                 Fraction(r, k, e - 1) /\ Exponent(r, e, m) /\ m < n /\ Digits(r, m + 1, n)
Sign(r, n) ==
  \/ n = 1 /\ r[1] \in Single \cup {"*", "<", ">", ":"}
  \/ n = 2 /\ \/ r[1] = r[2] /\ r[1] \in {"<", ">", "=", "."}
              \/ r[2] = "=" /\ r[1] \in {"<", ">", "!", ":"}
  \/ n = 3 /\ r[1] = r[2] /\ r[2] = r[3] /\ r[1] \in {"<", ">"}
Lexed(r, n) == Word(r, n) \/ Digits(r, 1, n) \/ (\E k \in 1 .. n : Fraction(r, k, n))
                 \/ Float(r, n) \/ Sign(r, n)
TwoStars(r, i)  == r[i] = "*" /\ r[i + 1] = "*"
Comment(r, n) == n >= 4 /\ TwoStars(r, 1) /\ TwoStars(r, n - 1) /\ \A i \in 3 .. n - 2 : ~TwoStars(r, i)

LEMMA TakeFacts ==
  ASSUME NEW r \in Seq(Chars), NEW n \in 0 .. Len(r)
  PROVE  /\ Promise!Take(r, n) \in Seq(Chars) /\ Len(Promise!Take(r, n)) = n
         /\ DOMAIN Promise!Take(r, n) = 1 .. n
         /\ \A i \in 1 .. n : Promise!Take(r, n)[i] = r[i]
<1>1. Len(r) \in Nat /\ \A i \in 1 .. n : r[i] \in Chars
  OBVIOUS
<1>2. /\ SubSeq(r, 1, n) \in Seq(Chars) /\ Len(SubSeq(r, 1, n)) = n
      /\ \A i \in 1 .. n : SubSeq(r, 1, n)[i] = r[i]
  BY <1>1, SubSeqProperties
<1> QED
  BY <1>2 DEF Promise!Take

LEMMA DropFacts ==
  ASSUME NEW w \in Seq(Chars), NEW k \in 0 .. Len(w)
  PROVE  /\ Promise!Drop(w, k) \in Seq(Chars) /\ Len(Promise!Drop(w, k)) = Len(w) - k
         /\ DOMAIN Promise!Drop(w, k) = 1 .. Len(w) - k
         /\ \A i \in 1 .. Len(w) - k : Promise!Drop(w, k)[i] = w[k + i]
<1>1. Len(w) \in Nat /\ \A i \in k + 1 .. Len(w) : w[i] \in Chars
  OBVIOUS
<1>2. /\ SubSeq(w, k + 1, Len(w)) \in Seq(Chars) /\ Len(SubSeq(w, k + 1, Len(w))) = Len(w) - k
      /\ \A i \in 1 .. Len(w) - k : SubSeq(w, k + 1, Len(w))[i] = w[(k + 1) + i - 1]
  BY <1>1, SubSeqProperties
<1>3. \A i \in 1 .. Len(w) - k : (k + 1) + i - 1 = k + i
  BY <1>1
<1> QED
  BY <1>2, <1>3 DEF Promise!Drop

(* The parts of a word from the left and from the right.                    *)
LEMMA PartIsNum ==
  ASSUME NEW w \in Seq(Chars), NEW k \in 0 .. Len(w)
  PROVE  /\ Promise!IsNum(Promise!Take(w, k)) <=> k >= 1 /\ Digits(w, 1, k)
         /\ Promise!IsNum(Promise!Drop(w, k)) <=> k < Len(w) /\ Digits(w, k + 1, Len(w))
<1>1. Len(w) \in Nat
  OBVIOUS
<1>2. Promise!IsNum(Promise!Take(w, k)) <=> k >= 1 /\ Digits(w, 1, k)
  <2>1. Promise!Take(w, k) # <<>> <=> k >= 1
    BY <1>1, TakeFacts
  <2> QED
    BY <2>1, TakeFacts DEF Promise!IsNum, Promise!AllIn, Digits
<1>3. Promise!IsNum(Promise!Drop(w, k)) <=> k < Len(w) /\ Digits(w, k + 1, Len(w))
  <2>1. Promise!Drop(w, k) # <<>> <=> k < Len(w)
    BY <1>1, DropFacts
  <2>2. (\A i \in 1 .. Len(w) - k : w[k + i] \in Digit) <=> Digits(w, k + 1, Len(w))
    <3>1. ASSUME \A i \in 1 .. Len(w) - k : w[k + i] \in Digit, NEW x \in k + 1 .. Len(w)
          PROVE  w[x] \in Digit
      <4>1. x - k \in 1 .. Len(w) - k /\ k + (x - k) = x
        BY <1>1
      <4> QED
        BY <4>1, <3>1
    <3>2. ASSUME Digits(w, k + 1, Len(w)), NEW i \in 1 .. Len(w) - k
          PROVE  w[k + i] \in Digit
      BY <3>2, <1>1 DEF Digits
    <3> QED
      BY <3>1, <3>2 DEF Digits
  <2> QED
    BY <2>1, <2>2, DropFacts DEF Promise!IsNum, Promise!AllIn
<1> QED
  BY <1>2, <1>3

LEMMA IsFraction ==
  ASSUME NEW w \in Seq(Chars)
  PROVE  Promise!IsFixed(w) <=> \E k \in 1 .. Len(w) : Fraction(w, k, Len(w))
<1>1. Len(w) \in Nat
  OBVIOUS
<1>2. ASSUME Promise!IsFixed(w)
      PROVE  \E k \in 1 .. Len(w) : Fraction(w, k, Len(w))
  <2>1. PICK k \in 2 .. Len(w) - 1 :
           /\ w[k] = "." /\ Promise!IsNum(Promise!Take(w, k - 1)) /\ Promise!IsNum(Promise!Drop(w, k))
    BY <1>2 DEF Promise!IsFixed
  <2>2. k \in 0 .. Len(w) /\ k - 1 \in 0 .. Len(w) /\ k \in 1 .. Len(w)
    BY <1>1
  <2> QED
    BY <2>1, <2>2, <1>1, PartIsNum DEF Fraction
<1>3. ASSUME NEW k \in 1 .. Len(w), Fraction(w, k, Len(w))
      PROVE  Promise!IsFixed(w)
  <2>1. k \in 2 .. Len(w) - 1 /\ k \in 0 .. Len(w) /\ k - 1 \in 0 .. Len(w) /\ k - 1 >= 1
    BY <1>1, <1>3 DEF Fraction
  <2> QED
    BY <2>1, <1>1, <1>3, PartIsNum DEF Fraction, Promise!IsFixed
<1> QED
  BY <1>2, <1>3

LEMMA FractionInTake ==
  ASSUME NEW w \in Seq(Chars), NEW n \in 0 .. Len(w), NEW m \in 0 .. n, NEW k \in 1 .. n
  PROVE  Fraction(Promise!Take(w, n), k, m) <=> Fraction(w, k, m)
<1>1. Len(w) \in Nat /\ \A x \in 1 .. n : Promise!Take(w, n)[x] = w[x]
  BY TakeFacts
<1>2. ASSUME k < m
      PROVE  /\ \A x \in 1 .. k - 1 : x \in 1 .. n
             /\ \A x \in k + 1 .. m : x \in 1 .. n
  BY <1>1, <1>2
<1> QED
  BY <1>1, <1>2 DEF Fraction, Digits

LEMMA DropIsExponent ==
  ASSUME NEW w \in Seq(Chars), NEW k \in 1 .. Len(w) - 1
  PROVE  Promise!IsExponent(Promise!Drop(w, k)) <=>
           \E m \in 1 .. Len(w) : Exponent(w, k + 1, m) /\ m < Len(w) /\ Digits(w, m + 1, Len(w))
<1> DEFINE d == Promise!Drop(w, k)
<1>1. Len(w) \in Nat /\ k \in 0 .. Len(w)
  OBVIOUS
<1>2. /\ d \in Seq(Chars) /\ Len(d) = Len(w) - k /\ Len(d) >= 1
      /\ \A i \in 1 .. Len(w) - k : d[i] = w[k + i]
  BY <1>1, DropFacts
<1>3. d # <<>> /\ d[1] = w[k + 1]
  BY <1>1, <1>2
<1>4. Len(d) > 1 => d[2] = w[k + 2]
  BY <1>1, <1>2
<1>5. ASSUME NEW j \in 1 .. 2, j <= Len(d)
      PROVE  Promise!IsNum(Promise!Drop(d, j)) <=> k + j < Len(w) /\ Digits(w, k + j + 1, Len(w))
  <2>1. j \in 0 .. Len(d) /\ Len(d) \in Nat
    BY <1>2, <1>5
  <2>2. Promise!IsNum(Promise!Drop(d, j)) <=> j < Len(d) /\ Digits(d, j + 1, Len(d))
    BY <1>2, <2>1, PartIsNum
  <2>3. ASSUME Digits(d, j + 1, Len(d)), NEW x \in k + j + 1 .. Len(w)
        PROVE  w[x] \in Digit
    <3>1. x - k \in j + 1 .. Len(d) /\ x - k \in 1 .. Len(w) - k /\ k + (x - k) = x
      BY <1>1, <1>2
    <3> QED
      BY <2>3, <3>1, <1>2 DEF Digits
  <2>4. ASSUME Digits(w, k + j + 1, Len(w)), NEW x \in j + 1 .. Len(d)
        PROVE  d[x] \in Digit
    <3>1. k + x \in k + j + 1 .. Len(w) /\ x \in 1 .. Len(w) - k
      BY <1>1, <1>2
    <3> QED
      BY <2>4, <3>1, <1>2 DEF Digits
  <2>5. j < Len(d) <=> k + j < Len(w)
    BY <1>1, <1>2
  <2> QED
    BY <2>2, <2>3, <2>4, <2>5 DEF Digits
<1> HIDE DEF d
<1>6. Promise!IsExponent(d) <=>
        /\ w[k + 1] = "e"
        /\ \/ Promise!IsNum(Promise!Drop(d, 1))
           \/ Len(d) > 1 /\ w[k + 2] \in {"+", "-"} /\ Promise!IsNum(Promise!Drop(d, 2))
  BY <1>3, <1>4 DEF Promise!IsExponent
<1>7. Promise!IsNum(Promise!Drop(d, 1)) <=> k + 1 < Len(w) /\ Digits(w, k + 1 + 1, Len(w))
  BY <1>2, <1>5
<1>8. Len(d) > 1 => (Promise!IsNum(Promise!Drop(d, 2)) <=> k + 2 < Len(w) /\ Digits(w, k + 2 + 1, Len(w)))
  BY <1>2, <1>5
<1>9. ASSUME Promise!IsExponent(d)
      PROVE  \E m \in 1 .. Len(w) : Exponent(w, k + 1, m) /\ m < Len(w) /\ Digits(w, m + 1, Len(w))
  <2>1. CASE Promise!IsNum(Promise!Drop(d, 1))
    <3>1. Exponent(w, k + 1, k + 1) /\ k + 1 \in 1 .. Len(w)
      BY <1>1, <1>6, <1>9 DEF Exponent
    <3> QED
      BY <3>1, <2>1, <1>7
  <2>2. CASE Len(d) > 1 /\ w[k + 2] \in {"+", "-"} /\ Promise!IsNum(Promise!Drop(d, 2))
    <3>1. k + 2 = (k + 1) + 1 /\ k + 2 \in 1 .. Len(w)
      BY <1>1, <1>2, <2>2
    <3>2. Exponent(w, k + 1, k + 2)
      BY <3>1, <2>2, <1>6, <1>9 DEF Exponent
    <3> QED
      BY <3>1, <3>2, <2>2, <1>8
  <2> QED
    BY <2>1, <2>2, <1>6, <1>9
<1>10. ASSUME NEW m \in 1 .. Len(w), Exponent(w, k + 1, m), m < Len(w), Digits(w, m + 1, Len(w))
       PROVE  Promise!IsExponent(d)
  <2>1. CASE m = k + 1
    BY <2>1, <1>6, <1>7, <1>10 DEF Exponent
  <2>2. CASE m = (k + 1) + 1 /\ w[m] \in {"+", "-"}
    <3>1. m = k + 2 /\ Len(d) > 1
      BY <2>2, <1>1, <1>2, <1>10
    <3> QED
      BY <3>1, <2>2, <1>6, <1>8, <1>10 DEF Exponent
  <2> QED
    BY <2>1, <2>2, <1>10 DEF Exponent
<1> QED
  BY <1>9, <1>10 DEF d

LEMMA IsFloat ==
  ASSUME NEW w \in Seq(Chars)
  PROVE  Promise!IsReal(w) <=> (\E k \in 1 .. Len(w) : Fraction(w, k, Len(w))) \/ Float(w, Len(w))
<1>1. Len(w) \in Nat
  OBVIOUS
<1>2. ASSUME NEW j \in 1 .. Len(w) - 1
      PROVE  Promise!IsFixed(Promise!Take(w, j)) <=> \E k \in 1 .. j : Fraction(w, k, j)
  <2>1. j \in 0 .. Len(w) /\ j \in 0 .. j
    BY <1>1
  <2>2. Promise!Take(w, j) \in Seq(Chars) /\ Len(Promise!Take(w, j)) = j
    BY <2>1, TakeFacts
  <2>3. Promise!IsFixed(Promise!Take(w, j)) <=> \E k \in 1 .. j : Fraction(Promise!Take(w, j), k, j)
    BY <2>2, IsFraction
  <2> QED
    BY <2>1, <2>3, FractionInTake
<1>3. ASSUME NEW j \in 1 .. Len(w) - 1, Promise!IsFixed(Promise!Take(w, j)),
             Promise!IsExponent(Promise!Drop(w, j))
      PROVE  Float(w, Len(w))
  <2>1. PICK k \in 1 .. j : Fraction(w, k, j)
    BY <1>2, <1>3
  <2>2. PICK m \in 1 .. Len(w) : Exponent(w, j + 1, m) /\ m < Len(w) /\ Digits(w, m + 1, Len(w))
    BY <1>3, DropIsExponent
  <2>3. k \in 1 .. Len(w) /\ j + 1 \in 1 .. Len(w) /\ (j + 1) - 1 = j
    BY <1>1
  <2> QED
    BY <2>1, <2>2, <2>3 DEF Float
<1>4. ASSUME NEW k \in 1 .. Len(w), NEW e \in 1 .. Len(w), NEW m \in 1 .. Len(w),
             Fraction(w, k, e - 1), Exponent(w, e, m), m < Len(w), Digits(w, m + 1, Len(w))
      PROVE  \E j \in 1 .. Len(w) - 1 :
               Promise!IsFixed(Promise!Take(w, j)) /\ Promise!IsExponent(Promise!Drop(w, j))
  <2>1. e - 1 \in 1 .. Len(w) - 1 /\ k \in 1 .. e - 1 /\ (e - 1) + 1 = e
    BY <1>1, <1>4 DEF Fraction
  <2>2. Promise!IsFixed(Promise!Take(w, e - 1))
    BY <2>1, <1>2, <1>4
  <2>3. Promise!IsExponent(Promise!Drop(w, e - 1))
    BY <2>1, <1>4, DropIsExponent
  <2> QED
    BY <2>1, <2>2, <2>3
<1> QED
  BY <1>3, <1>4, IsFraction DEF Promise!IsReal, Float

(* The signs of one, two and three characters, with their tokens.           *)
Semicolon == ";"
Comma     == ","
OneSign(a, y) ==
  \/ a = "+" /\ y = "PLUS"
  \/ a = "-" /\ y = "MINUS"
  \/ a = "*" /\ y = "MUL"
  \/ a = "/" /\ y = "DIV"
  \/ a = "<" /\ y = "LT"
  \/ a = ">" /\ y = "GT"
  \/ a = ":" /\ y = "COLON"
  \/ a = Semicolon /\ y = "SEMICOLON"
  \/ a = Comma /\ y = "COMMA"
  \/ a = "[" /\ y = "SQBO"
  \/ a = "]" /\ y = "SQBC"
  \/ a = "(" /\ y = "BO"
  \/ a = ")" /\ y = "BC"
TwoSign(a, b, y) ==
  \/ a = "<" /\ b = "=" /\ y = "LE"
  \/ a = ">" /\ b = "=" /\ y = "GE"
  \/ a = "=" /\ b = "=" /\ y = "EQ"
  \/ a = "!" /\ b = "=" /\ y = "NE"
  \/ a = "<" /\ b = "<" /\ y = "DEF"
  \/ a = ">" /\ b = ">" /\ y = "ENDDEF"
  \/ a = ":" /\ b = "=" /\ y = "ASSIGN_OP"
  \/ a = "." /\ b = "." /\ y = "RANGEOP"
ThreeSign(a, b, c, y) ==
  /\ a = b /\ b = c
  /\ \/ a = "<" /\ y = "DRIVERDEF"
     \/ a = ">" /\ y = "DRIVERENDDEF"
SignOf(r, n, y) ==
  \/ n = 1 /\ OneSign(r[1], y)
  \/ n = 2 /\ TwoSign(r[1], r[2], y)
  \/ n = 3 /\ ThreeSign(r[1], r[2], r[3], y)

LEMMA SemicolonAndComma ==
  /\ Semicolon # Comma
  /\ Semicolon \notin {"+", "-", "*", "/", "<", ">", ":", "[", "]", "(", ")"}
  /\ Comma \notin {"+", "-", "*", "/", "<", ">", ":", "[", "]", "(", ")"}
  /\ Single = {"+", "-", "/", Semicolon, Comma, "[", "]", "(", ")"}
BY Zenon DEF Semicolon, Comma, Single

LEMMA SignHasOneToken ==
  ASSUME NEW r, NEW n \in Nat, NEW y, NEW z, SignOf(r, n, y), SignOf(r, n, z)
  PROVE  y = z
<1>1. \A a : OneSign(a, y) /\ OneSign(a, z) => y = z
  BY SemicolonAndComma DEF OneSign
<1>2. \A a, b : TwoSign(a, b, y) /\ TwoSign(a, b, z) => y = z
  BY DEF TwoSign
<1>3. \A a, b, c : ThreeSign(a, b, c, y) /\ ThreeSign(a, b, c, z) => y = z
  BY DEF ThreeSign
<1> QED
  BY <1>1, <1>2, <1>3 DEF SignOf

LEMMA SignHasToken ==
  ASSUME NEW r, NEW n \in Nat
  PROVE  Sign(r, n) <=> \E y : SignOf(r, n, y)
<1>1. \A a : a \in Single \cup {"*", "<", ">", ":"} <=> \E y : OneSign(a, y)
  <2>1. ASSUME NEW a, NEW y, OneSign(a, y)
        PROVE  a \in Single \cup {"*", "<", ">", ":"}
    BY <2>1, SemicolonAndComma DEF OneSign
  <2>2. OneSign("+", "PLUS") /\ OneSign("-", "MINUS") /\ OneSign("*", "MUL")
        /\ OneSign("/", "DIV") /\ OneSign("<", "LT") /\ OneSign(">", "GT")
        /\ OneSign(":", "COLON") /\ OneSign(Semicolon, "SEMICOLON") /\ OneSign(Comma, "COMMA")
        /\ OneSign("[", "SQBO") /\ OneSign("]", "SQBC") /\ OneSign("(", "BO")
        /\ OneSign(")", "BC")
    BY DEF OneSign
  <2>3. ASSUME NEW a \in Single \cup {"*", "<", ">", ":"}
        PROVE  \E y : OneSign(a, y)
    BY <2>2, SemicolonAndComma
  <2> QED
    BY <2>1, <2>3
<1>2. \A a, b : (a = b /\ a \in {"<", ">", "=", "."}) \/ (b = "=" /\ a \in {"<", ">", "!", ":"})
                 <=> \E y : TwoSign(a, b, y)
  BY DEF TwoSign
<1>3. \A a, b, c : a = b /\ b = c /\ a \in {"<", ">"} <=> \E y : ThreeSign(a, b, c, y)
  BY DEF ThreeSign
<1> QED
  BY <1>1, <1>2, <1>3 DEF SignOf, Sign

LEMMA ShortWords ==
  ASSUME NEW w \in Seq(Chars)
  PROVE  /\ \A a : w = <<a>> <=> Len(w) = 1 /\ w[1] = a
         /\ \A a, b : w = <<a, b>> <=> Len(w) = 2 /\ w[1] = a /\ w[2] = b
         /\ \A a, b, c : w = <<a, b, c>> <=> Len(w) = 3 /\ w[1] = a /\ w[2] = b /\ w[3] = c
OBVIOUS

(* The symbols are the signs.                                               *)
LEMMA SymbolsAreSigns ==
  ASSUME NEW w \in Seq(Chars), NEW y
  PROVE  (\E s \in Promise!Symbols : s[1] = w /\ s[2] = y) <=> SignOf(w, Len(w), y)
<1>1. ASSUME NEW s \in Promise!Symbols, s[1] = w, s[2] = y
      PROVE  SignOf(w, Len(w), y)
  <2>1. \/ \E a, z : s = <<<<a>>, z>> /\ OneSign(a, z)
        \/ \E a, b, z : s = <<<<a, b>>, z>> /\ TwoSign(a, b, z)
        \/ \E a, b, c, z : s = <<<<a, b, c>>, z>> /\ ThreeSign(a, b, c, z)
    BY ZenonT(60) DEF Promise!Symbols, OneSign, TwoSign, ThreeSign, Semicolon, Comma
  <2>2. \/ \E a : w = <<a>> /\ OneSign(a, y)
        \/ \E a, b : w = <<a, b>> /\ TwoSign(a, b, y)
        \/ \E a, b, c : w = <<a, b, c>> /\ ThreeSign(a, b, c, y)
    BY <1>1, <2>1
  <2> QED
    BY <2>2, ShortWords DEF SignOf
<1>2. ASSUME SignOf(w, Len(w), y)
      PROVE  \E s \in Promise!Symbols : s[1] = w /\ s[2] = y
  <2>1. /\ \A a : OneSign(a, y) => <<<<a>>, y>> \in Promise!Symbols
        /\ \A a, b : TwoSign(a, b, y) => <<<<a, b>>, y>> \in Promise!Symbols
        /\ \A a, b, c : ThreeSign(a, b, c, y) => <<<<a, b, c>>, y>> \in Promise!Symbols
    <3>1. \A a : OneSign(a, y) => <<<<a>>, y>> \in Promise!Symbols
      BY ZenonT(60) DEF Promise!Symbols, OneSign, Semicolon, Comma
    <3>2. \A a, b : TwoSign(a, b, y) => <<<<a, b>>, y>> \in Promise!Symbols
      BY ZenonT(60) DEF Promise!Symbols, TwoSign
    <3>3. \A a, b, c : ThreeSign(a, b, c, y) => <<<<a, b, c>>, y>> \in Promise!Symbols
      BY ZenonT(60) DEF Promise!Symbols, ThreeSign
    <3> QED
      BY <3>1, <3>2, <3>3
  <2>2. <<w, y>> \in Promise!Symbols
    <3>1. CASE Len(w) = 1 /\ OneSign(w[1], y)
      BY <3>1, <2>1, ShortWords
    <3>2. CASE Len(w) = 2 /\ TwoSign(w[1], w[2], y)
      BY <3>2, <2>1, ShortWords
    <3>3. CASE Len(w) = 3 /\ ThreeSign(w[1], w[2], w[3], y)
      BY <3>3, <2>1, ShortWords
    <3> QED
      BY <3>1, <3>2, <3>3, <1>2 DEF SignOf
  <2> QED
    BY <2>2
<1> QED
  BY <1>1, <1>2

(* A lexeme, and a comment, character by character.                         *)
LEMMA PrefixIsLexeme ==
  ASSUME NEW r \in Seq(Chars), NEW n \in 1 .. Len(r)
  PROVE  /\ Promise!IsIdentifier(Promise!Take(r, n)) <=> Word(r, n)
         /\ Promise!IsNum(Promise!Take(r, n)) <=> Digits(r, 1, n)
         /\ Promise!IsFixed(Promise!Take(r, n)) <=> \E k \in 1 .. n : Fraction(r, k, n)
         /\ Promise!IsReal(Promise!Take(r, n)) <=>
              (\E k \in 1 .. n : Fraction(r, k, n)) \/ Float(r, n)
         /\ Promise!IsSymbol(Promise!Take(r, n)) <=> Sign(r, n)
         /\ Promise!IsLexeme(Promise!Take(r, n)) <=> Lexed(r, n)
         /\ \A y : SignOf(Promise!Take(r, n), n, y) <=> SignOf(r, n, y)
<1> DEFINE w == Promise!Take(r, n)
<1>1. Len(r) \in Nat /\ n \in 0 .. Len(r) /\ n \in 0 .. n
  OBVIOUS
<1>2. /\ w \in Seq(Chars) /\ Len(w) = n /\ DOMAIN w = 1 .. n
      /\ \A x \in 1 .. n : w[x] = r[x]
  BY <1>1, TakeFacts
<1>3. \A k \in 1 .. n : Fraction(w, k, n) <=> Fraction(r, k, n)
  BY <1>1, FractionInTake
<1>4. Float(w, n) <=> Float(r, n)
  <2>1. ASSUME NEW k \in 1 .. n, NEW e \in 1 .. n, NEW m \in 1 .. n
        PROVE  Fraction(w, k, e - 1) /\ Exponent(w, e, m) /\ m < n /\ Digits(w, m + 1, n)
                 <=> Fraction(r, k, e - 1) /\ Exponent(r, e, m) /\ m < n /\ Digits(r, m + 1, n)
    <3>1. e - 1 \in 0 .. n
      BY <1>1
    <3>2. Fraction(w, k, e - 1) <=> Fraction(r, k, e - 1)
      BY <1>1, <3>1, FractionInTake
    <3>3. Exponent(w, e, m) <=> Exponent(r, e, m)
      BY <1>2 DEF Exponent
    <3>4. Digits(w, m + 1, n) <=> Digits(r, m + 1, n)
      <4>1. \A x \in m + 1 .. n : x \in 1 .. n
        BY <1>1
      <4> QED
        BY <4>1, <1>2 DEF Digits
    <3> QED
      BY <3>2, <3>3, <3>4
  <2> HIDE DEF w
  <2> QED
    BY <2>1 DEF Float
<1>5. /\ Promise!IsFixed(w) <=> \E k \in 1 .. n : Fraction(r, k, n)
      /\ Promise!IsReal(w) <=> (\E k \in 1 .. n : Fraction(r, k, n)) \/ Float(r, n)
  BY <1>2, <1>3, <1>4, IsFraction, IsFloat
<1>6. Promise!IsIdentifier(w) <=> Word(r, n)
  <2> HIDE DEF w
  <2>1. w[1] = r[1]
    BY <1>1, <1>2
  <2> QED
    BY <1>2, <2>1 DEF Promise!IsIdentifier, Promise!AllIn, Word, Letter, WordChar
<1>7. Promise!IsNum(w) <=> Digits(r, 1, n)
  BY <1>1, PartIsNum
<1>8. \A y : SignOf(w, n, y) <=> SignOf(r, n, y)
  <2>1. n = 1 \/ n = 2 \/ n = 3 => \A x \in 1 .. n : w[x] = r[x]
    BY <1>2
  <2> HIDE DEF w
  <2>2. CASE n = 1
    <3>1. w[1] = r[1]
      BY <2>1, <2>2
    <3> QED
      BY <2>2, <3>1 DEF SignOf
  <2>3. CASE n = 2
    <3>1. w[1] = r[1] /\ w[2] = r[2]
      BY <2>1, <2>3
    <3> QED
      BY <2>3, <3>1 DEF SignOf
  <2>4. CASE n = 3
    <3>1. w[1] = r[1] /\ w[2] = r[2] /\ w[3] = r[3]
      BY <2>1, <2>4
    <3> QED
      BY <2>4, <3>1 DEF SignOf
  <2> QED
    BY <2>2, <2>3, <2>4 DEF SignOf
<1>9. Promise!IsSymbol(w) <=> Sign(r, n)
  <2> HIDE DEF w
  <2>1. Promise!IsSymbol(w) <=> \E y : \E s \in Promise!Symbols : s[1] = w /\ s[2] = y
    BY DEF Promise!IsSymbol
  <2>2. (\E y : \E s \in Promise!Symbols : s[1] = w /\ s[2] = y) <=> \E y : SignOf(w, n, y)
    BY <1>2, SymbolsAreSigns
  <2> QED
    BY <2>1, <2>2, <1>8, SignHasToken
<1> HIDE DEF w
<1>10. Promise!IsLexeme(w) <=> Lexed(r, n)
  BY <1>5, <1>6, <1>7, <1>9 DEF Promise!IsLexeme, Lexed
<1> QED
  BY <1>5, <1>6, <1>7, <1>8, <1>9, <1>10 DEF w

-----------------------------------------------------------------------------
(* The automaton, row by row.                                               *)
Marks == {"<", ">", "*", ":", "=", "!", ".", "$", "#", "NUL"}

(* The classes of characters are apart.                                     *)
LEMMA ClassesApart ==
  /\ \A c \in Letter : c \notin Digit /\ c \notin Single /\ c \notin Blank /\ c \notin Marks
  /\ \A c \in Digit : c \notin Letter /\ c \notin Single /\ c \notin Blank /\ c \notin Marks
  /\ \A c \in Single : c \notin Letter /\ c \notin Digit /\ c \notin Blank /\ c \notin Marks
  /\ \A c \in Blank : c \notin Letter /\ c \notin Digit /\ c \notin Single /\ c \notin Marks
  /\ \A c \in Marks : c \notin Letter /\ c \notin Digit /\ c \notin Single /\ c \notin Blank
  /\ "e" \in Letter /\ "+" \in Single /\ "-" \in Single /\ "nl" \in Blank
  /\ Chars = Letter \cup Digit \cup Single \cup Blank \cup Marks
  /\ Letter \cup Digit = WordChar
<1>1. /\ \A c \in Letter : c \notin Digit /\ c \notin Single /\ c \notin Blank /\ c \notin Marks
      /\ \A c \in Digit : c \notin Single /\ c \notin Blank /\ c \notin Marks
  BY Zenon DEF Letter, Alpha, EE, Digit, Single, Blank, Marks
<1>2. /\ \A c \in Single : c \notin Blank /\ c \notin Marks
      /\ \A c \in Blank : c \notin Marks
  BY Zenon DEF Single, Blank, Marks
<1>3. "e" \in Letter /\ "+" \in Single /\ "-" \in Single /\ "nl" \in Blank
  BY Zenon DEF Letter, Alpha, EE, Single, Blank
<1>4. \A c : c \in Chars <=> c \in Letter \cup Digit \cup Single \cup Blank \cup Marks
  BY Zenon DEF Chars, Letter, Marks, Sentinel
<1>6. Chars = Letter \cup Digit \cup Single \cup Blank \cup Marks
  BY <1>4
<1>7. Letter \cup Digit = WordChar
  BY DEF WordChar
<1> QED
  BY <1>1, <1>2, <1>3, <1>6, <1>7

LEMMA EdgesNamed ==
  Edges =
  { <<0, Letter, 1>>, <<0, Digit, 3>>, <<0, {"<"}, 12>>, <<0, {">"}, 18>>,
    <<0, {"*"}, 24>>, <<0, {":"}, 29>>, <<0, {"="}, 32>>, <<0, {"!"}, 34>>,
    <<0, {"."}, 36>>, <<0, {"+"}, 38>>, <<0, {"-"}, 39>>, <<0, {"/"}, 40>>,
    <<0, {Semicolon}, 41>>, <<0, {Comma}, 42>>, <<0, {"["}, 43>>, <<0, {"]"}, 44>>,
    <<0, {"("}, 45>>, <<0, {")"}, 46>>, <<0, Blank, 47>>, <<1, WordChar, 1>>,
    <<3, Digit, 3>>, <<3, {"."}, 5>>, <<5, Digit, 6>>, <<5, {"."}, 8>>,
    <<6, Digit, 6>>, <<6, EE, 9>>, <<9, {"+", "-"}, 10>>, <<9, Digit, 11>>,
    <<10, Digit, 11>>, <<11, Digit, 11>>,
    <<12, {"<"}, 13>>, <<12, {"="}, 16>>, <<13, {"<"}, 14>>,
    <<18, {">"}, 19>>, <<18, {"="}, 22>>, <<19, {">"}, 21>>,
    <<24, {"*"}, 25>>, <<25, {"*"}, 26>>, <<26, {"*"}, 27>>, <<26, {"$"}, 48>>,
    <<29, {"="}, 30>>, <<32, {"="}, 33>>, <<34, {"="}, 35>>, <<36, {"."}, 37>> }
<1>1. \A c : c \in Alpha \cup Digit \cup {"_"} <=> c \in WordChar
  BY Zenon DEF WordChar, Letter
<1>2. Alpha \cup Digit \cup {"_"} = WordChar
  BY <1>1, Zenon
<1>3. Alpha \cup {"_"} = Letter
  BY DEF Letter
<1> QED
  BY <1>2, <1>3, Zenon DEF Edges, Semicolon, Comma

(* Where the automaton goes, exactly.                                       *)
GoesTo(q, c, t) ==
  \/ \E e \in Edges : e[1] = q /\ c \in e[2] /\ t = e[3]
  \/ /\ \A e \in Edges : e[1] = q => c \notin e[2]
     /\ \/ \E o \in Others : o[1] = q /\ t = o[2]
        \/ (\A o \in Others : o[1] # q) /\ t = 48

LEMMA InvokeRow ==
  ASSUME NEW q \in States, NEW c \in Chars
  PROVE  GoesTo(q, c, Invoke[q][c])
<1>1. ASSUME NEW o \in Others, o[1] = q, Matching(q, c) = {}
      PROVE  \E p \in Others : p[1] = q /\ Invoke[q][c] = p[2]
  <2> DEFINE p == CHOOSE p \in OtherOf(q) : TRUE
  <2>1. p \in OtherOf(q) /\ OtherOf(q) # {}
    BY <1>1 DEF OtherOf
  <2>2. Invoke[q][c] = p[2]
    BY <1>1, <2>1 DEF Invoke
  <2> HIDE DEF p
  <2> QED
    BY <2>1, <2>2 DEF OtherOf
<1>2. (\A o \in Others : o[1] # q) /\ Matching(q, c) = {} => Invoke[q][c] = 48
  <2>1. (\A o \in Others : o[1] # q) => OtherOf(q) = {}
    BY DEF OtherOf
  <2> QED
    BY <2>1 DEF Invoke, ErrorState
<1>3. Matching(q, c) = {} <=> \A e \in Edges : e[1] = q => c \notin e[2]
  BY DEF Matching
<1> QED
  BY <1>1, <1>2, <1>3, InvokeCases DEF GoesTo, ErrorState

(* The tokens of the states.                                                *)
LEMMA TokenOfStates ==
  /\ TokenOf[2] = "ID" /\ TokenOf[4] = "NUM" /\ TokenOf[7] = "RNUM"
  /\ TokenOf[8] = "NUM" /\ TokenOf[14] = "DRIVERDEF" /\ TokenOf[15] = "DEF"
  /\ TokenOf[16] = "LE" /\ TokenOf[17] = "LT" /\ TokenOf[20] = "ENDDEF"
  /\ TokenOf[21] = "DRIVERENDDEF" /\ TokenOf[22] = "GE" /\ TokenOf[23] = "GT"
  /\ TokenOf[28] = "MUL" /\ TokenOf[30] = "ASSIGN_OP" /\ TokenOf[31] = "COLON"
  /\ TokenOf[33] = "EQ" /\ TokenOf[35] = "NE" /\ TokenOf[37] = "RANGEOP"
  /\ TokenOf[38] = "PLUS" /\ TokenOf[39] = "MINUS" /\ TokenOf[40] = "DIV"
  /\ TokenOf[41] = "SEMICOLON" /\ TokenOf[42] = "COMMA" /\ TokenOf[43] = "SQBO"
  /\ TokenOf[44] = "SQBC" /\ TokenOf[45] = "BO" /\ TokenOf[46] = "BC"
  /\ TokenOf[25] = "INVALID" /\ TokenOf[27] = "INVALID" /\ TokenOf[47] = "INVALID"
<1>1. \A r \in TokenTable : r[1] \in States /\ r[1] \notin {25, 27, 47}
  BY DEF TokenTable, States
<1>2. \A r, p \in TokenTable : r[1] = p[1] => r[2] = p[2]
  BY DEF TokenTable
<1>3. ASSUME NEW r \in TokenTable
      PROVE  TokenOf[r[1]] = r[2]
  <2> DEFINE p == CHOOSE p \in TokenTable : p[1] = r[1]
  <2>1. p \in TokenTable /\ p[1] = r[1]
    OBVIOUS
  <2>2. TokenOf[r[1]] = p[2]
    BY <1>1 DEF TokenOf
  <2> HIDE DEF p
  <2> QED
    BY <2>1, <2>2, <1>2
<1>4. ASSUME NEW q \in States, NEW y, <<q, y>> \in TokenTable
      PROVE  TokenOf[q] = y
  BY <1>3, <1>4
<1>5. /\ <<2, "ID">> \in TokenTable /\ <<4, "NUM">> \in TokenTable /\ <<7, "RNUM">> \in TokenTable
      /\ <<8, "NUM">> \in TokenTable /\ <<14, "DRIVERDEF">> \in TokenTable /\ <<15, "DEF">> \in TokenTable
      /\ <<16, "LE">> \in TokenTable /\ <<17, "LT">> \in TokenTable /\ <<20, "ENDDEF">> \in TokenTable
      /\ <<21, "DRIVERENDDEF">> \in TokenTable /\ <<22, "GE">> \in TokenTable /\ <<23, "GT">> \in TokenTable
      /\ <<28, "MUL">> \in TokenTable /\ <<30, "ASSIGN_OP">> \in TokenTable /\ <<31, "COLON">> \in TokenTable
      /\ <<33, "EQ">> \in TokenTable /\ <<35, "NE">> \in TokenTable /\ <<37, "RANGEOP">> \in TokenTable
      /\ <<38, "PLUS">> \in TokenTable /\ <<39, "MINUS">> \in TokenTable /\ <<40, "DIV">> \in TokenTable
      /\ <<41, "SEMICOLON">> \in TokenTable /\ <<42, "COMMA">> \in TokenTable /\ <<43, "SQBO">> \in TokenTable
      /\ <<44, "SQBC">> \in TokenTable /\ <<45, "BO">> \in TokenTable /\ <<46, "BC">> \in TokenTable
  BY DEF TokenTable
<1>6. 0 .. 48 = States
  BY DEF States
<1>7. \A q \in {25, 27, 47} : TokenOf[q] = "INVALID"
  BY <1>1, <1>6 DEF TokenOf
<1> QED
  BY <1>4, <1>5, <1>6, <1>7

LEMMA RowStart ==
  ASSUME NEW c \in Chars
  PROVE  /\ c \in Letter => Invoke[0][c] = 1
         /\ c \in Digit => Invoke[0][c] = 3
         /\ c = "<" => Invoke[0][c] = 12
         /\ c = ">" => Invoke[0][c] = 18
         /\ c = "*" => Invoke[0][c] = 24
         /\ c = ":" => Invoke[0][c] = 29
         /\ c = "=" => Invoke[0][c] = 32
         /\ c = "!" => Invoke[0][c] = 34
         /\ c = "." => Invoke[0][c] = 36
         /\ c \in Single => Invoke[0][c] \in 38 .. 46 /\ OneSign(c, TokenOf[Invoke[0][c]])
         /\ c \in Blank => Invoke[0][c] = 47
         /\ c \in {"$", "#", "NUL"} => Invoke[0][c] = 48
<1>1. \A e \in Edges : e[1] = 0 =>
        \/ e[2] = Letter /\ e[3] = 1
        \/ e[2] = Digit /\ e[3] = 3
        \/ e[2] = {"<"} /\ e[3] = 12
        \/ e[2] = {">"} /\ e[3] = 18
        \/ e[2] = {"*"} /\ e[3] = 24
        \/ e[2] = {":"} /\ e[3] = 29
        \/ e[2] = {"="} /\ e[3] = 32
        \/ e[2] = {"!"} /\ e[3] = 34
        \/ e[2] = {"."} /\ e[3] = 36
        \/ e[2] = {"+"} /\ e[3] = 38
        \/ e[2] = {"-"} /\ e[3] = 39
        \/ e[2] = {"/"} /\ e[3] = 40
        \/ e[2] = {Semicolon} /\ e[3] = 41
        \/ e[2] = {Comma} /\ e[3] = 42
        \/ e[2] = {"["} /\ e[3] = 43
        \/ e[2] = {"]"} /\ e[3] = 44
        \/ e[2] = {"("} /\ e[3] = 45
        \/ e[2] = {")"} /\ e[3] = 46
        \/ e[2] = Blank /\ e[3] = 47
  BY EdgesNamed
<1>2. /\ <<0, Letter, 1>> \in Edges /\ <<0, Digit, 3>> \in Edges /\ <<0, {"<"}, 12>> \in Edges
      /\ <<0, {">"}, 18>> \in Edges /\ <<0, {"*"}, 24>> \in Edges /\ <<0, {":"}, 29>> \in Edges
      /\ <<0, {"="}, 32>> \in Edges /\ <<0, {"!"}, 34>> \in Edges /\ <<0, {"."}, 36>> \in Edges
      /\ <<0, {"+"}, 38>> \in Edges /\ <<0, {"-"}, 39>> \in Edges /\ <<0, {"/"}, 40>> \in Edges
      /\ <<0, {Semicolon}, 41>> \in Edges /\ <<0, {Comma}, 42>> \in Edges /\ <<0, {"["}, 43>> \in Edges
      /\ <<0, {"]"}, 44>> \in Edges /\ <<0, {"("}, 45>> \in Edges /\ <<0, {")"}, 46>> \in Edges
      /\ <<0, Blank, 47>> \in Edges
  BY EdgesNamed
<1>3. \A o \in Others : o[1] # 0
  BY DEF Others
<1>4. GoesTo(0, c, Invoke[0][c])
  BY InvokeRow DEF States
<1>5. /\ c \in Letter => Invoke[0][c] = 1
      /\ c \in Digit => Invoke[0][c] = 3
      /\ c \in Blank => Invoke[0][c] = 47
  <2>1. c \in Letter \cup Digit \cup Blank => c \notin Single /\ c \notin Marks
    BY ClassesApart
  <2> QED
    BY <1>1, <1>2, <1>4, <2>1, ClassesApart, SemicolonAndComma DEF GoesTo, Marks
<1>6. c \in Marks =>
        Invoke[0][c] = IF c = "<" THEN 12 ELSE IF c = ">" THEN 18 ELSE IF c = "*" THEN 24
                       ELSE IF c = ":" THEN 29 ELSE IF c = "=" THEN 32 ELSE IF c = "!" THEN 34
                       ELSE IF c = "." THEN 36 ELSE 48
  BY <1>1, <1>2, <1>3, <1>4, ClassesApart, SemicolonAndComma DEF GoesTo, Marks
<1>7. c \in Single =>
        \/ c = "+" /\ Invoke[0][c] = 38
        \/ c = "-" /\ Invoke[0][c] = 39
        \/ c = "/" /\ Invoke[0][c] = 40
        \/ c = Semicolon /\ Invoke[0][c] = 41
        \/ c = Comma /\ Invoke[0][c] = 42
        \/ c = "[" /\ Invoke[0][c] = 43
        \/ c = "]" /\ Invoke[0][c] = 44
        \/ c = "(" /\ Invoke[0][c] = 45
        \/ c = ")" /\ Invoke[0][c] = 46
  <2>1. c \in Single => c \notin Letter /\ c \notin Digit /\ c \notin Blank /\ c \notin Marks
    BY ClassesApart
  <2> QED
    BY <1>1, <1>2, <1>4, <2>1, SemicolonAndComma DEF GoesTo, Marks
<1>8. c \in Single => Invoke[0][c] \in 38 .. 46 /\ OneSign(c, TokenOf[Invoke[0][c]])
  BY <1>7, TokenOfStates DEF OneSign
<1> QED
  BY <1>5, <1>6, <1>8 DEF Marks

LEMMA Row1 ==
  ASSUME NEW c \in Chars
  PROVE  Invoke[1][c] = IF c \in WordChar THEN 1 ELSE 2
<1>1. /\ \A e \in Edges : e[1] = 1 => (e[2] = WordChar /\ e[3] = 1)
      /\ <<1, WordChar, 1>> \in Edges
  BY EdgesNamed
<1>2. <<1, 2>> \in Others /\ \A o \in Others : o[1] = 1 => o[2] = 2
  BY DEF Others
<1>3. GoesTo(1, c, Invoke[1][c])
  BY InvokeRow DEF States
<1> QED
  BY <1>1, <1>2, <1>3, ClassesApart DEF GoesTo, Marks, EE, Digit

LEMMA Row3 ==
  ASSUME NEW c \in Chars
  PROVE  Invoke[3][c] = IF c \in Digit THEN 3 ELSE IF c = "." THEN 5 ELSE 4
<1>1. /\ \A e \in Edges : e[1] = 3 => (e[2] = Digit /\ e[3] = 3) \/ (e[2] = {"."} /\ e[3] = 5)
      /\ <<3, Digit, 3>> \in Edges /\ <<3, {"."}, 5>> \in Edges
  BY EdgesNamed
<1>2. <<3, 4>> \in Others /\ \A o \in Others : o[1] = 3 => o[2] = 4
  BY DEF Others
<1>3. GoesTo(3, c, Invoke[3][c])
  BY InvokeRow DEF States
<1> QED
  BY <1>1, <1>2, <1>3, ClassesApart DEF GoesTo, Marks, EE, Digit

LEMMA Row5 ==
  ASSUME NEW c \in Chars
  PROVE  Invoke[5][c] = IF c \in Digit THEN 6 ELSE IF c = "." THEN 8 ELSE 48
<1>1. /\ \A e \in Edges : e[1] = 5 => (e[2] = Digit /\ e[3] = 6) \/ (e[2] = {"."} /\ e[3] = 8)
      /\ <<5, Digit, 6>> \in Edges /\ <<5, {"."}, 8>> \in Edges
  BY EdgesNamed
<1>2. \A o \in Others : o[1] # 5
  BY DEF Others
<1>3. GoesTo(5, c, Invoke[5][c])
  BY InvokeRow DEF States
<1> QED
  BY <1>1, <1>2, <1>3, ClassesApart DEF GoesTo, Marks, EE, Digit

LEMMA Row6 ==
  ASSUME NEW c \in Chars
  PROVE  Invoke[6][c] = IF c \in Digit THEN 6 ELSE IF c = "e" THEN 9 ELSE 7
<1>1. /\ \A e \in Edges : e[1] = 6 => (e[2] = Digit /\ e[3] = 6) \/ (e[2] = EE /\ e[3] = 9)
      /\ <<6, Digit, 6>> \in Edges /\ <<6, EE, 9>> \in Edges
  BY EdgesNamed
<1>2. <<6, 7>> \in Others /\ \A o \in Others : o[1] = 6 => o[2] = 7
  BY DEF Others
<1>3. GoesTo(6, c, Invoke[6][c])
  BY InvokeRow DEF States
<1> QED
  BY <1>1, <1>2, <1>3, ClassesApart DEF GoesTo, Marks, EE, Digit

LEMMA Row9 ==
  ASSUME NEW c \in Chars
  PROVE  Invoke[9][c] = IF c \in {"+", "-"} THEN 10 ELSE IF c \in Digit THEN 11 ELSE 48
<1>1. /\ \A e \in Edges : e[1] = 9 => (e[2] = {"+", "-"} /\ e[3] = 10) \/ (e[2] = Digit /\ e[3] = 11)
      /\ <<9, {"+", "-"}, 10>> \in Edges /\ <<9, Digit, 11>> \in Edges
  BY EdgesNamed
<1>2. \A o \in Others : o[1] # 9
  BY DEF Others
<1>3. GoesTo(9, c, Invoke[9][c])
  BY InvokeRow DEF States
<1> QED
  BY <1>1, <1>2, <1>3, ClassesApart DEF GoesTo, Marks, EE, Digit

LEMMA Row10 ==
  ASSUME NEW c \in Chars
  PROVE  Invoke[10][c] = IF c \in Digit THEN 11 ELSE 48
<1>1. /\ \A e \in Edges : e[1] = 10 => (e[2] = Digit /\ e[3] = 11)
      /\ <<10, Digit, 11>> \in Edges
  BY EdgesNamed
<1>2. \A o \in Others : o[1] # 10
  BY DEF Others
<1>3. GoesTo(10, c, Invoke[10][c])
  BY InvokeRow DEF States
<1> QED
  BY <1>1, <1>2, <1>3, ClassesApart DEF GoesTo, Marks, EE, Digit

LEMMA Row11 ==
  ASSUME NEW c \in Chars
  PROVE  Invoke[11][c] = IF c \in Digit THEN 11 ELSE 7
<1>1. /\ \A e \in Edges : e[1] = 11 => (e[2] = Digit /\ e[3] = 11)
      /\ <<11, Digit, 11>> \in Edges
  BY EdgesNamed
<1>2. <<11, 7>> \in Others /\ \A o \in Others : o[1] = 11 => o[2] = 7
  BY DEF Others
<1>3. GoesTo(11, c, Invoke[11][c])
  BY InvokeRow DEF States
<1> QED
  BY <1>1, <1>2, <1>3, ClassesApart DEF GoesTo, Marks, EE, Digit

LEMMA Row12 ==
  ASSUME NEW c \in Chars
  PROVE  Invoke[12][c] = IF c = "<" THEN 13 ELSE IF c = "=" THEN 16 ELSE 17
<1>1. /\ \A e \in Edges : e[1] = 12 => (e[2] = {"<"} /\ e[3] = 13) \/ (e[2] = {"="} /\ e[3] = 16)
      /\ <<12, {"<"}, 13>> \in Edges /\ <<12, {"="}, 16>> \in Edges
  BY EdgesNamed
<1>2. <<12, 17>> \in Others /\ \A o \in Others : o[1] = 12 => o[2] = 17
  BY DEF Others
<1>3. GoesTo(12, c, Invoke[12][c])
  BY InvokeRow DEF States
<1> QED
  BY <1>1, <1>2, <1>3, ClassesApart DEF GoesTo, Marks, EE, Digit

LEMMA Row13 ==
  ASSUME NEW c \in Chars
  PROVE  Invoke[13][c] = IF c = "<" THEN 14 ELSE 15
<1>1. /\ \A e \in Edges : e[1] = 13 => (e[2] = {"<"} /\ e[3] = 14)
      /\ <<13, {"<"}, 14>> \in Edges
  BY EdgesNamed
<1>2. <<13, 15>> \in Others /\ \A o \in Others : o[1] = 13 => o[2] = 15
  BY DEF Others
<1>3. GoesTo(13, c, Invoke[13][c])
  BY InvokeRow DEF States
<1> QED
  BY <1>1, <1>2, <1>3, ClassesApart DEF GoesTo, Marks, EE, Digit

LEMMA Row18 ==
  ASSUME NEW c \in Chars
  PROVE  Invoke[18][c] = IF c = ">" THEN 19 ELSE IF c = "=" THEN 22 ELSE 23
<1>1. /\ \A e \in Edges : e[1] = 18 => (e[2] = {">"} /\ e[3] = 19) \/ (e[2] = {"="} /\ e[3] = 22)
      /\ <<18, {">"}, 19>> \in Edges /\ <<18, {"="}, 22>> \in Edges
  BY EdgesNamed
<1>2. <<18, 23>> \in Others /\ \A o \in Others : o[1] = 18 => o[2] = 23
  BY DEF Others
<1>3. GoesTo(18, c, Invoke[18][c])
  BY InvokeRow DEF States
<1> QED
  BY <1>1, <1>2, <1>3, ClassesApart DEF GoesTo, Marks, EE, Digit

LEMMA Row19 ==
  ASSUME NEW c \in Chars
  PROVE  Invoke[19][c] = IF c = ">" THEN 21 ELSE 20
<1>1. /\ \A e \in Edges : e[1] = 19 => (e[2] = {">"} /\ e[3] = 21)
      /\ <<19, {">"}, 21>> \in Edges
  BY EdgesNamed
<1>2. <<19, 20>> \in Others /\ \A o \in Others : o[1] = 19 => o[2] = 20
  BY DEF Others
<1>3. GoesTo(19, c, Invoke[19][c])
  BY InvokeRow DEF States
<1> QED
  BY <1>1, <1>2, <1>3, ClassesApart DEF GoesTo, Marks, EE, Digit

LEMMA Row24 ==
  ASSUME NEW c \in Chars
  PROVE  Invoke[24][c] = IF c = "*" THEN 25 ELSE 28
<1>1. /\ \A e \in Edges : e[1] = 24 => (e[2] = {"*"} /\ e[3] = 25)
      /\ <<24, {"*"}, 25>> \in Edges
  BY EdgesNamed
<1>2. <<24, 28>> \in Others /\ \A o \in Others : o[1] = 24 => o[2] = 28
  BY DEF Others
<1>3. GoesTo(24, c, Invoke[24][c])
  BY InvokeRow DEF States
<1> QED
  BY <1>1, <1>2, <1>3, ClassesApart DEF GoesTo, Marks, EE, Digit

LEMMA Row25 ==
  ASSUME NEW c \in Chars
  PROVE  Invoke[25][c] = IF c = "*" THEN 26 ELSE 25
<1>1. /\ \A e \in Edges : e[1] = 25 => (e[2] = {"*"} /\ e[3] = 26)
      /\ <<25, {"*"}, 26>> \in Edges
  BY EdgesNamed
<1>2. <<25, 25>> \in Others /\ \A o \in Others : o[1] = 25 => o[2] = 25
  BY DEF Others
<1>3. GoesTo(25, c, Invoke[25][c])
  BY InvokeRow DEF States
<1> QED
  BY <1>1, <1>2, <1>3, ClassesApart DEF GoesTo, Marks, EE, Digit

LEMMA Row26 ==
  ASSUME NEW c \in Chars
  PROVE  Invoke[26][c] = IF c = "*" THEN 27 ELSE IF c = "$" THEN 48 ELSE 25
<1>1. /\ \A e \in Edges : e[1] = 26 => (e[2] = {"*"} /\ e[3] = 27) \/ (e[2] = {"$"} /\ e[3] = 48)
      /\ <<26, {"*"}, 27>> \in Edges /\ <<26, {"$"}, 48>> \in Edges
  BY EdgesNamed
<1>2. <<26, 25>> \in Others /\ \A o \in Others : o[1] = 26 => o[2] = 25
  BY DEF Others
<1>3. GoesTo(26, c, Invoke[26][c])
  BY InvokeRow DEF States
<1> QED
  BY <1>1, <1>2, <1>3, ClassesApart DEF GoesTo, Marks, EE, Digit

LEMMA Row29 ==
  ASSUME NEW c \in Chars
  PROVE  Invoke[29][c] = IF c = "=" THEN 30 ELSE 31
<1>1. /\ \A e \in Edges : e[1] = 29 => (e[2] = {"="} /\ e[3] = 30)
      /\ <<29, {"="}, 30>> \in Edges
  BY EdgesNamed
<1>2. <<29, 31>> \in Others /\ \A o \in Others : o[1] = 29 => o[2] = 31
  BY DEF Others
<1>3. GoesTo(29, c, Invoke[29][c])
  BY InvokeRow DEF States
<1> QED
  BY <1>1, <1>2, <1>3, ClassesApart DEF GoesTo, Marks, EE, Digit

LEMMA Row32 ==
  ASSUME NEW c \in Chars
  PROVE  Invoke[32][c] = IF c = "=" THEN 33 ELSE 48
<1>1. /\ \A e \in Edges : e[1] = 32 => (e[2] = {"="} /\ e[3] = 33)
      /\ <<32, {"="}, 33>> \in Edges
  BY EdgesNamed
<1>2. \A o \in Others : o[1] # 32
  BY DEF Others
<1>3. GoesTo(32, c, Invoke[32][c])
  BY InvokeRow DEF States
<1> QED
  BY <1>1, <1>2, <1>3, ClassesApart DEF GoesTo, Marks, EE, Digit

LEMMA Row34 ==
  ASSUME NEW c \in Chars
  PROVE  Invoke[34][c] = IF c = "=" THEN 35 ELSE 48
<1>1. /\ \A e \in Edges : e[1] = 34 => (e[2] = {"="} /\ e[3] = 35)
      /\ <<34, {"="}, 35>> \in Edges
  BY EdgesNamed
<1>2. \A o \in Others : o[1] # 34
  BY DEF Others
<1>3. GoesTo(34, c, Invoke[34][c])
  BY InvokeRow DEF States
<1> QED
  BY <1>1, <1>2, <1>3, ClassesApart DEF GoesTo, Marks, EE, Digit

LEMMA Row36 ==
  ASSUME NEW c \in Chars
  PROVE  Invoke[36][c] = IF c = "." THEN 37 ELSE 48
<1>1. /\ \A e \in Edges : e[1] = 36 => (e[2] = {"."} /\ e[3] = 37)
      /\ <<36, {"."}, 37>> \in Edges
  BY EdgesNamed
<1>2. \A o \in Others : o[1] # 36
  BY DEF Others
<1>3. GoesTo(36, c, Invoke[36][c])
  BY InvokeRow DEF States
<1> QED
  BY <1>1, <1>2, <1>3, ClassesApart DEF GoesTo, Marks, EE, Digit

-----------------------------------------------------------------------------
(* What the first n characters of r are when the automaton is in state q.   *)
NoStars(r, i, j) == \A x \in i .. j : ~TwoStars(r, x)
ReadSoFar(q, r, n) ==
  \/ q = 0 /\ n = 0
  \/ q = 1 /\ n >= 1 /\ Word(r, n)
  \/ q = 3 /\ n >= 1 /\ Digits(r, 1, n)
  \/ q = 5 /\ n >= 2 /\ Digits(r, 1, n - 1) /\ r[n] = "."
  \/ q = 6 /\ \E k \in 1 .. n : Fraction(r, k, n)
  \/ q = 9 /\ r[n] = "e" /\ \E k \in 1 .. n - 1 : Fraction(r, k, n - 1)
  \/ q = 10 /\ r[n] \in {"+", "-"} /\ r[n - 1] = "e" /\ \E k \in 1 .. n - 2 : Fraction(r, k, n - 2)
  \/ q = 11 /\ Float(r, n)
  \/ n = 1 /\ \/ q = 12 /\ r[1] = "<"
              \/ q = 18 /\ r[1] = ">"
              \/ q = 24 /\ r[1] = "*"
              \/ q = 29 /\ r[1] = ":"
              \/ q = 32 /\ r[1] = "="
              \/ q = 34 /\ r[1] = "!"
              \/ q = 36 /\ r[1] = "."
  \/ n = 2 /\ r[1] = r[2] /\ \/ q = 13 /\ r[1] = "<"
                             \/ q = 19 /\ r[1] = ">"
  \/ q = 25 /\ n >= 2 /\ TwoStars(r, 1) /\ (n = 2 \/ r[n] # "*") /\ NoStars(r, 3, n - 1)
  \/ q = 26 /\ n >= 3 /\ TwoStars(r, 1) /\ r[n] = "*" /\ NoStars(r, 3, n - 1)

(* A lexeme of n characters and one more.                                   *)
LEMMA WordGrows ==
  ASSUME NEW r, NEW n \in Nat, n >= 1, Word(r, n), r[n + 1] \in WordChar
  PROVE  Word(r, n + 1)
BY DEF Word

LEMMA DigitsGrow ==
  ASSUME NEW r, NEW i \in Nat, NEW n \in Nat, Digits(r, i, n), r[n + 1] \in Digit
  PROVE  Digits(r, i, n + 1)
BY DEF Digits

LEMMA FractionGrows ==
  ASSUME NEW r, NEW n \in Nat, NEW k \in 1 .. n, Fraction(r, k, n), r[n + 1] \in Digit
  PROVE  Fraction(r, k, n + 1)
BY DigitsGrow DEF Fraction

LEMMA FloatGrows ==
  ASSUME NEW r, NEW n \in Nat, Float(r, n), r[n + 1] \in Digit
  PROVE  Float(r, n + 1)
<1>1. PICK k \in 1 .. n, e \in 1 .. n, m \in 1 .. n :
        Fraction(r, k, e - 1) /\ Exponent(r, e, m) /\ m < n /\ Digits(r, m + 1, n)
  BY DEF Float
<1>2. Digits(r, m + 1, n + 1) /\ m < n + 1 /\ 1 .. n \subseteq 1 .. n + 1
  BY <1>1, DigitsGrow
<1> QED
  BY <1>1, <1>2 DEF Float

LEMMA FloatStarts ==
  ASSUME NEW r, NEW n \in Nat, NEW k \in 1 .. n, NEW e \in 1 .. n, NEW m \in 1 .. n,
         Fraction(r, k, e - 1), Exponent(r, e, m), m = n, r[n + 1] \in Digit
  PROVE  Float(r, n + 1)
<1>1. Digits(r, m + 1, n + 1) /\ m < n + 1 /\ 1 .. n \subseteq 1 .. n + 1
  BY DEF Digits
<1> QED
  BY <1>1 DEF Float

LEMMA NoStarsGrow ==
  ASSUME NEW r, NEW n \in Nat, NoStars(r, 3, n - 1), n < 3 \/ r[n] # "*" \/ r[n + 1] # "*"
  PROVE  NoStars(r, 3, n)
BY DEF NoStars, TwoStars

LEMMA ReadsOn ==
  ASSUME NEW r \in Seq(Chars), NEW n \in Nat, n < Len(r), NEW q \in States, ReadSoFar(q, r, n),
         Invoke[q][r[n + 1]] \notin Accepting \cup {48}
  PROVE  ReadSoFar(Invoke[q][r[n + 1]], r, n + 1)
<1> DEFINE c == r[n + 1]
           t == Invoke[q][c]
<1>1. c \in Chars /\ Len(r) \in Nat
  OBVIOUS
<1>2. t \notin {2, 4, 7, 8, 14, 15, 16, 17, 20, 21, 22, 23, 27, 28, 30, 31, 33, 35, 48}
      /\ t \notin 37 .. 47
  BY DEF Accepting, RetractOne, RetractTwo
<1> HIDE DEF c, t
<1>3. c = r[n + 1]
  BY DEF c
<1>4. CASE q = 0 /\ n = 0
  <2>1. t = Invoke[0][c] /\ c = r[1]
    BY <1>4, <1>3 DEF t
  <2>5. /\ c \in Letter => t = 1
        /\ c \in Digit => t = 3
        /\ c = "<" => t = 12
        /\ c = ">" => t = 18
        /\ c = "*" => t = 24
        /\ c = ":" => t = 29
        /\ c = "=" => t = 32
        /\ c = "!" => t = 34
        /\ c = "." => t = 36
        /\ c \in Single => t \in 38 .. 46
        /\ c \in Blank => t = 47
        /\ c \in {"$", "#", "NUL"} => t = 48
    BY <1>1, <2>1, RowStart
  <2>6. c \in Letter \/ c \in Digit \/ c \in Single \/ c \in Blank \/ c \in Marks
    BY <1>1, ClassesApart
  <2>2. \/ t = 1 /\ c \in Letter
        \/ t = 3 /\ c \in Digit
        \/ t = 12 /\ c = "<"
        \/ t = 18 /\ c = ">"
        \/ t = 24 /\ c = "*"
        \/ t = 29 /\ c = ":"
        \/ t = 32 /\ c = "="
        \/ t = 34 /\ c = "!"
        \/ t = 36 /\ c = "."
    <3>1. c \notin Single /\ c \notin Blank /\ c \notin {"$", "#", "NUL"}
      BY <1>2, <2>5
    <3>2. c \in Marks => c \in {"<", ">", "*", ":", "=", "!", "."}
      BY <3>1 DEF Marks
    <3> QED
      BY <2>5, <2>6, <3>1, <3>2
  <2>3. t = 1 => Word(r, 1)
    BY <2>1, <2>2, ClassesApart DEF Word
  <2>4. t = 3 => Digits(r, 1, 1)
    BY <2>1, <2>2, ClassesApart DEF Digits
  <2> QED
    BY <1>4, <2>1, <2>2, <2>3, <2>4 DEF ReadSoFar, t
<1>5. CASE q = 1 /\ n >= 1 /\ Word(r, n)
  <2>1. t = IF c \in WordChar THEN 1 ELSE 2
    BY <1>1, <1>5, Row1 DEF t
  <2>2. t = 1 /\ Word(r, n + 1)
    BY <2>1, <1>2, <1>3, <1>5, WordGrows
  <2> QED
    BY <2>2, <1>1 DEF ReadSoFar, t, c
<1>6. CASE q = 3 /\ n >= 1 /\ Digits(r, 1, n)
  <2>1. t = IF c \in Digit THEN 3 ELSE IF c = "." THEN 5 ELSE 4
    BY <1>1, <1>6, Row3 DEF t
  <2>2. CASE c \in Digit
    BY <2>1, <2>2, <1>3, <1>6, DigitsGrow DEF ReadSoFar, t, c
  <2>3. CASE c \notin Digit
    <3>1. t = 5 /\ c = "." /\ (n + 1) - 1 = n
      BY <2>1, <2>3, <1>2
    <3> QED
      BY <3>1, <1>3, <1>6 DEF ReadSoFar, t, c
  <2> QED
    BY <2>2, <2>3
<1>7. CASE q = 5 /\ n >= 2 /\ Digits(r, 1, n - 1) /\ r[n] = "."
  <2>1. t = IF c \in Digit THEN 6 ELSE IF c = "." THEN 8 ELSE 48
    BY <1>1, <1>7, Row5 DEF t
  <2>2. t = 6 /\ c \in Digit
    BY <2>1, <1>2
  <2>3. Fraction(r, n, n + 1)
    BY <2>2, <1>3, <1>7 DEF Fraction, Digits
  <2> QED
    BY <2>2, <2>3, <1>7 DEF ReadSoFar, t, c
<1>8. CASE q = 6 /\ \E k \in 1 .. n : Fraction(r, k, n)
  <2>1. t = IF c \in Digit THEN 6 ELSE IF c = "e" THEN 9 ELSE 7
    BY <1>1, <1>8, Row6 DEF t
  <2>2. PICK k \in 1 .. n : Fraction(r, k, n)
    BY <1>8
  <2>3. k \in 1 .. n + 1 /\ (n + 1) - 1 = n
    OBVIOUS
  <2>4. CASE c \in Digit
    <3>1. Fraction(r, k, n + 1)
      BY <2>2, <2>4, <1>3, FractionGrows
    <3> QED
      BY <3>1, <2>1, <2>3, <2>4 DEF ReadSoFar, t, c
  <2>5. CASE c \notin Digit
    <3>1. t = 9 /\ c = "e"
      BY <2>1, <2>5, <1>2
    <3> QED
      BY <3>1, <2>2, <2>3, <1>3 DEF ReadSoFar, t, c
  <2> QED
    BY <2>4, <2>5
<1>9. CASE q = 9 /\ r[n] = "e" /\ \E k \in 1 .. n - 1 : Fraction(r, k, n - 1)
  <2>1. t = IF c \in {"+", "-"} THEN 10 ELSE IF c \in Digit THEN 11 ELSE 48
    BY <1>1, <1>9, Row9 DEF t
  <2>2. PICK k \in 1 .. n - 1 : Fraction(r, k, n - 1)
    BY <1>9
  <2>3. CASE c \in {"+", "-"}
    <3>1. t = 10 /\ (n + 1) - 1 = n /\ (n + 1) - 2 = n - 1
      BY <2>1, <2>3
    <3> QED
      BY <3>1, <2>2, <2>3, <1>3, <1>9 DEF ReadSoFar, t, c
  <2>4. CASE c \notin {"+", "-"}
    <3>1. t = 11 /\ c \in Digit
      BY <2>1, <2>4, <1>2
    <3>2. k \in 1 .. n /\ n \in 1 .. n /\ Exponent(r, n, n)
      BY <1>9, <2>2 DEF Exponent, Fraction
    <3>3. Float(r, n + 1)
      BY <3>1, <3>2, <2>2, <1>3, FloatStarts
    <3> QED
      BY <3>1, <3>3 DEF ReadSoFar, t, c
  <2> QED
    BY <2>3, <2>4
<1>10. CASE q = 10 /\ r[n] \in {"+", "-"} /\ r[n - 1] = "e"
              /\ \E k \in 1 .. n - 2 : Fraction(r, k, n - 2)
  <2>1. t = IF c \in Digit THEN 11 ELSE 48
    BY <1>1, <1>10, Row10 DEF t
  <2>2. PICK k \in 1 .. n - 2 : Fraction(r, k, n - 2)
    BY <1>10
  <2>3. t = 11 /\ c \in Digit
    BY <2>1, <1>2
  <2>4. /\ k \in 1 .. n /\ n - 1 \in 1 .. n /\ n \in 1 .. n /\ (n - 1) - 1 = n - 2
        /\ (n - 1) + 1 = n
    BY <2>2 DEF Fraction
  <2>5. Exponent(r, n - 1, n)
    BY <2>4, <1>10 DEF Exponent
  <2>6. Float(r, n + 1)
    BY <2>2, <2>3, <2>4, <2>5, <1>3, FloatStarts
  <2> QED
    BY <2>3, <2>6 DEF ReadSoFar, t, c
<1>11. CASE q = 11 /\ Float(r, n)
  <2>1. t = IF c \in Digit THEN 11 ELSE 7
    BY <1>1, <1>11, Row11 DEF t
  <2>2. t = 11 /\ Float(r, n + 1)
    BY <2>1, <1>2, <1>3, <1>11, FloatGrows
  <2> QED
    BY <2>2 DEF ReadSoFar, t, c
<1>12. CASE n = 1 /\ q = 12 /\ r[1] = "<"
  <2>1. t = IF c = "<" THEN 13 ELSE IF c = "=" THEN 16 ELSE 17
    BY <1>1, <1>12, Row12 DEF t
  <2>2. t = 13 /\ c = "<" /\ c = r[2] /\ n + 1 = 2
    BY <2>1, <1>2, <1>3, <1>12
  <2> QED
    BY <2>2, <1>12 DEF ReadSoFar, t, c
<1>13. CASE n = 1 /\ q = 18 /\ r[1] = ">"
  <2>1. t = IF c = ">" THEN 19 ELSE IF c = "=" THEN 22 ELSE 23
    BY <1>1, <1>13, Row18 DEF t
  <2>2. t = 19 /\ c = ">" /\ c = r[2] /\ n + 1 = 2
    BY <2>1, <1>2, <1>3, <1>13
  <2> QED
    BY <2>2, <1>13 DEF ReadSoFar, t, c
<1>14. CASE n = 1 /\ q = 24 /\ r[1] = "*"
  <2>1. t = IF c = "*" THEN 25 ELSE 28
    BY <1>1, <1>14, Row24 DEF t
  <2>2. t = 25 /\ c = "*" /\ c = r[2] /\ n + 1 = 2
    BY <2>1, <1>2, <1>3, <1>14
  <2>3. TwoStars(r, 1) /\ NoStars(r, 3, n)
    BY <2>2, <1>14 DEF TwoStars, NoStars
  <2> QED
    BY <2>2, <2>3, <1>14 DEF ReadSoFar, t, c
<1>15. ASSUME n = 1, q \in {29, 32, 34, 36}
       PROVE  FALSE
  <2>1. CASE q = 29
    <3>1. t = IF c = "=" THEN 30 ELSE 31
      BY <1>1, <2>1, Row29 DEF t
    <3> QED
      BY <3>1, <1>2
  <2>2. CASE q = 32
    <3>1. t = IF c = "=" THEN 33 ELSE 48
      BY <1>1, <2>2, Row32 DEF t
    <3> QED
      BY <3>1, <1>2
  <2>3. CASE q = 34
    <3>1. t = IF c = "=" THEN 35 ELSE 48
      BY <1>1, <2>3, Row34 DEF t
    <3> QED
      BY <3>1, <1>2
  <2>4. CASE q = 36
    <3>1. t = IF c = "." THEN 37 ELSE 48
      BY <1>1, <2>4, Row36 DEF t
    <3> QED
      BY <3>1, <1>2
  <2> QED
    BY <2>1, <2>2, <2>3, <2>4, <1>15
<1>16. ASSUME n = 2, q \in {13, 19}
       PROVE  FALSE
  <2>1. CASE q = 13
    <3>1. t = IF c = "<" THEN 14 ELSE 15
      BY <1>1, <2>1, Row13 DEF t
    <3> QED
      BY <3>1, <1>2
  <2>2. CASE q = 19
    <3>1. t = IF c = ">" THEN 21 ELSE 20
      BY <1>1, <2>2, Row19 DEF t
    <3> QED
      BY <3>1, <1>2
  <2> QED
    BY <2>1, <2>2, <1>16
<1>17. CASE q = 25 /\ n >= 2 /\ TwoStars(r, 1) /\ (n = 2 \/ r[n] # "*") /\ NoStars(r, 3, n - 1)
  <2>1. t = IF c = "*" THEN 26 ELSE 25
    BY <1>1, <1>17, Row25 DEF t
  <2>2. NoStars(r, 3, n) /\ (n + 1) - 1 = n /\ n + 1 >= 3
    BY <1>17, NoStarsGrow
  <2> QED
    BY <2>1, <2>2, <1>3, <1>17 DEF ReadSoFar, t, c
<1>18. CASE q = 26 /\ n >= 3 /\ TwoStars(r, 1) /\ r[n] = "*" /\ NoStars(r, 3, n - 1)
  <2>1. t = IF c = "*" THEN 27 ELSE IF c = "$" THEN 48 ELSE 25
    BY <1>1, <1>18, Row26 DEF t
  <2>2. t = 25 /\ c # "*"
    BY <2>1, <1>2
  <2>3. NoStars(r, 3, n) /\ (n + 1) - 1 = n /\ n + 1 >= 2
    BY <2>2, <1>3, <1>18, NoStarsGrow
  <2> QED
    BY <2>2, <2>3, <1>3, <1>18 DEF ReadSoFar, t, c
<1> QED
  BY <1>4, <1>5, <1>6, <1>7, <1>8, <1>9, <1>10, <1>11, <1>12, <1>13, <1>14, <1>15, <1>16, <1>17,
     <1>18 DEF ReadSoFar

-----------------------------------------------------------------------------
(* What the first l characters of r are when they are a token of type y:     *)
(* the longest match, and nothing that goes wrong after it.                  *)
Half(r, l) ==
  \/ /\ Digits(r, 1, l) /\ l < Len(r) /\ r[l + 1] = "."
     /\ ~(l + 1 < Len(r) /\ r[l + 2] = ".")
  \/ (\E k \in 1 .. l : Fraction(r, k, l)) /\ l < Len(r) /\ r[l + 1] = "e"
Kind(r, l, y) ==
  \/ y = "ID" /\ Word(r, l)
  \/ y = "NUM" /\ Digits(r, 1, l)
  \/ y = "RNUM" /\ ((\E k \in 1 .. l : Fraction(r, k, l)) \/ Float(r, l))
  \/ SignOf(r, l, y)
Longest(r, l) == Lexed(r, l) /\ \A m \in l + 1 .. Len(r) : ~Lexed(r, m)
StartsComment(r) == Len(r) >= 2 /\ TwoStars(r, 1)
Match(r, l, y) ==
  /\ l \in 1 .. Len(r) /\ Longest(r, l) /\ Kind(r, l, y) /\ ~Half(r, l) /\ ~StartsComment(r)
  /\ \A i \in 1 .. l : r[i] # "nl"
  /\ (l < Len(r) /\ r[l] \in Letter) => r[l + 1] \notin WordChar

(* The first character says which rule a lexeme is of.                      *)
LEMMA FirstCharacter ==
  ASSUME NEW r, NEW m \in Nat, m >= 1, Lexed(r, m)
  PROVE  /\ r[1] \in Letter => Word(r, m)
         /\ r[1] \in Digit => Digits(r, 1, m) \/ (\E k \in 1 .. m : Fraction(r, k, m)) \/ Float(r, m)
         /\ r[1] \notin Letter \cup Digit => Sign(r, m)
<1>1. Word(r, m) => r[1] \in Letter
  BY DEF Word
<1>2. Digits(r, 1, m) => r[1] \in Digit
  BY DEF Digits
<1>3. \A k, j : (k \in Nat /\ Fraction(r, k, j)) => r[1] \in Digit
  BY DEF Fraction, Digits
<1>4. Float(r, m) => r[1] \in Digit
  BY <1>3 DEF Float
<1>5. Sign(r, m) => r[1] \notin Letter \cup Digit
  BY ClassesApart DEF Sign, Marks
<1>6. r[1] \in Letter => r[1] \notin Digit
  BY ClassesApart
<1> QED
  BY <1>1, <1>2, <1>3, <1>4, <1>5, <1>6 DEF Lexed

LEMMA WordEnds ==
  ASSUME NEW r \in Seq(Chars), NEW n \in 1 .. Len(r), Word(r, n),
         n = Len(r) \/ r[n + 1] \notin WordChar
  PROVE  Match(r, n, "ID")
<1>1. r[1] \in Letter /\ \A i \in 1 .. n : r[i] \in WordChar
  BY DEF Word
<1>2. r[1] \notin Digit /\ r[1] # "*"
  BY <1>1, ClassesApart DEF Marks
<1>3. ASSUME NEW m \in n + 1 .. Len(r)
      PROVE  ~Lexed(r, m)
  <2>1. m \in Nat /\ m >= 1 /\ n + 1 \in 1 .. m /\ n # Len(r)
    OBVIOUS
  <2>2. Lexed(r, m) => Word(r, m)
    BY <2>1, <1>1, FirstCharacter
  <2>3. ~Word(r, m)
    BY <2>1 DEF Word
  <2> QED
    BY <2>2, <2>3
<1>4. ~Half(r, n)
  BY <1>2 DEF Half, Fraction, Digits
<1>5. \A i \in 1 .. n : r[i] # "nl"
  BY <1>1, ClassesApart
<1> QED
  BY <1>2, <1>3, <1>4, <1>5 DEF Match, Longest, Lexed, Kind, StartsComment, TwoStars

(* The dot of a fraction is the first character after the digits.           *)
LEMMA DotAfterDigits ==
  ASSUME NEW r, NEW l \in Nat, Digits(r, 1, l), NEW k \in Nat, NEW j \in Nat, Fraction(r, k, j),
         r[l + 1] \notin Digit
  PROVE  k = l + 1
<1>1. "." \notin Digit
  BY ClassesApart DEF Marks
<1>2. ~(k <= l)
  BY <1>1 DEF Fraction, Digits
<1>3. ~(k > l + 1)
  BY DEF Fraction, Digits
<1> QED
  BY <1>2, <1>3

LEMMA DigitsEnd ==
  ASSUME NEW r \in Seq(Chars), NEW l \in 1 .. Len(r), Digits(r, 1, l),
         \/ l = Len(r)
         \/ r[l + 1] \notin Digit /\ r[l + 1] # "."
         \/ l + 2 <= Len(r) /\ r[l + 1] = "." /\ r[l + 2] = "."
  PROVE  Match(r, l, "NUM")
<1>1. "." \notin Digit
  BY ClassesApart DEF Marks
<1>2. \A i \in 1 .. l : r[i] \in Digit
  BY DEF Digits
<1>3. r[1] \in Digit /\ r[1] # "*" /\ r[1] \notin Letter
  BY <1>2, ClassesApart DEF Marks
<1>4. ASSUME l < Len(r), NEW k \in Nat, NEW j \in Nat, Fraction(r, k, j), j > l
      PROVE  FALSE
  <2>1. r[l + 1] \notin Digit
    BY <1>1, <1>4
  <2>2. k = l + 1 /\ r[k] = "." /\ k < j
    BY <2>1, <1>4, DotAfterDigits DEF Fraction
  <2>3. l + 2 \in k + 1 .. j
    BY <2>2
  <2>4. r[l + 2] \in Digit
    BY <2>3, <1>4 DEF Fraction, Digits
  <2> QED
    BY <2>2, <2>4, <1>1, <1>4
<1>5. ASSUME NEW m \in l + 1 .. Len(r)
      PROVE  ~Lexed(r, m)
  <2>1. m \in Nat /\ m >= 1 /\ l + 1 \in 1 .. m /\ l < Len(r) /\ l # Len(r)
    OBVIOUS
  <2>2. ~Digits(r, 1, m)
    BY <2>1, <1>1 DEF Digits
  <2>3. \A k \in 1 .. m : ~Fraction(r, k, m)
    BY <2>1, <1>4
  <2>4. ~Float(r, m)
    <3>1. ASSUME NEW k \in 1 .. m, NEW e \in 1 .. m, NEW x \in 1 .. m, Fraction(r, k, e - 1),
                 Exponent(r, e, x)
          PROVE  FALSE
      <4>1. r[l + 1] \notin Digit /\ e - 1 \in Nat /\ k \in Nat
        BY <2>1, <1>1
      <4>2. k = l + 1 /\ k < e - 1
        BY <4>1, <3>1, DotAfterDigits DEF Fraction
      <4>3. e - 1 > l
        BY <4>2
      <4> QED
        BY <4>1, <4>3, <2>1, <3>1, <1>4
    <3> QED
      BY <3>1 DEF Float
  <2>5. Lexed(r, m) => Digits(r, 1, m) \/ (\E k \in 1 .. m : Fraction(r, k, m)) \/ Float(r, m)
    BY <2>1, <1>3, FirstCharacter
  <2> QED
    BY <2>2, <2>3, <2>4, <2>5
<1>6. \A k \in 1 .. l : ~Fraction(r, k, l)
  BY <1>1, <1>2 DEF Fraction
<1>7. ~Half(r, l)
  <2>1. l + 2 <= Len(r) => l + 1 < Len(r)
    OBVIOUS
  <2> QED
    BY <2>1, <1>6 DEF Half
<1>8. \A i \in 1 .. l : r[i] # "nl" /\ r[i] \notin Letter
  BY <1>2, ClassesApart
<1> QED
  BY <1>3, <1>5, <1>7, <1>8 DEF Match, Longest, Lexed, Kind, StartsComment, TwoStars

LEMMA OneFraction ==
  ASSUME NEW r, NEW k \in Nat, NEW n \in Nat, Fraction(r, k, n),
         NEW x \in Nat, NEW m \in Nat, Fraction(r, x, m)
  PROVE  x = k
<1>1. k - 1 \in Nat /\ (k - 1) + 1 = k /\ r[k] = "." /\ Digits(r, 1, k - 1)
  BY DEF Fraction
<1>2. r[k] \notin Digit
  BY <1>1, ClassesApart DEF Marks
<1>3. x = (k - 1) + 1
  BY <1>1, <1>2, DotAfterDigits
<1> QED
  BY <1>1, <1>3

LEMMA FractionFacts ==
  ASSUME NEW r, NEW n \in Nat, NEW k \in Nat, Fraction(r, k, n)
  PROVE  /\ r[1] \in Digit /\ r[1] # "*" /\ r[1] \notin Letter
         /\ \A i \in 1 .. n : r[i] \in Digit \/ r[i] = "."
         /\ ~Digits(r, 1, n) /\ r[n] \notin Letter
<1>1. /\ 2 <= k /\ k < n /\ r[k] = "." /\ \A x \in 1 .. k - 1 : r[x] \in Digit
      /\ \A x \in k + 1 .. n : r[x] \in Digit
  BY DEF Fraction, Digits
<1>2. r[1] \in Digit /\ r[n] \in Digit
  BY <1>1
<1>3. ~Digits(r, 1, n)
  BY <1>1, ClassesApart DEF Digits, Marks
<1>4. \A i \in 1 .. n : r[i] \in Digit \/ r[i] = "."
  <2>1. \A i \in 1 .. n : i \in 1 .. k - 1 \/ i = k \/ i \in k + 1 .. n
    BY <1>1
  <2> QED
    BY <2>1, <1>1
<1> QED
  BY <1>2, <1>3, <1>4, ClassesApart DEF Marks

(* An exponent begins right after the fraction.                             *)
LEMMA ExponentAfter ==
  ASSUME NEW r, NEW k \in Nat, NEW n \in Nat, Fraction(r, k, n), r[n + 1] \notin Digit,
         NEW x \in Nat, NEW e \in Nat, NEW m \in Nat, Fraction(r, x, e - 1), Exponent(r, e, m)
  PROVE  e = n + 1
<1>1. e - 1 \in Nat /\ x < e - 1
  BY DEF Fraction
<1>2. x = k
  BY <1>1, OneFraction
<1>3. r[e] \notin Digit
  BY ClassesApart DEF Exponent
<1>4. ~(e <= n)
  <2>1. e <= n => e \in k + 1 .. n
    BY <1>1, <1>2
  <2> QED
    BY <2>1, <1>3 DEF Fraction, Digits
<1>5. ~(e > n + 1)
  <2>1. e > n + 1 => n + 1 \in x + 1 .. e - 1
    BY <1>1, <1>2 DEF Fraction
  <2> QED
    BY <2>1 DEF Fraction, Digits
<1> QED
  BY <1>4, <1>5

LEMMA FractionEnds ==
  ASSUME NEW r \in Seq(Chars), NEW n \in 1 .. Len(r), NEW k \in 1 .. n, Fraction(r, k, n),
         n = Len(r) \/ (r[n + 1] \notin Digit /\ r[n + 1] # "e")
  PROVE  Match(r, n, "RNUM")
<1>1. /\ r[1] \in Digit /\ r[1] # "*" /\ r[1] \notin Letter
      /\ \A i \in 1 .. n : r[i] \in Digit \/ r[i] = "."
      /\ ~Digits(r, 1, n) /\ r[n] \notin Letter
  BY FractionFacts
<1>2. ASSUME NEW m \in n + 1 .. Len(r)
      PROVE  ~Lexed(r, m)
  <2>1. m \in Nat /\ m >= 1 /\ n + 1 \in 1 .. m /\ n # Len(r) /\ 1 .. n \subseteq 1 .. m
    OBVIOUS
  <2>2. ~Digits(r, 1, m)
    BY <2>1, <1>1 DEF Digits
  <2>3. ASSUME NEW x \in 1 .. m, Fraction(r, x, m)
        PROVE  FALSE
    <3>1. x = k
      BY <2>3, <2>1, OneFraction
    <3>2. n + 1 \in x + 1 .. m
      BY <3>1, <2>1
    <3> QED
      BY <3>2, <2>1, <2>3 DEF Fraction, Digits
  <2>4. ~Float(r, m)
    <3>1. ASSUME NEW x \in 1 .. m, NEW e \in 1 .. m, NEW y \in 1 .. m, Fraction(r, x, e - 1),
                 Exponent(r, e, y)
          PROVE  FALSE
      <4>1. e = n + 1
        BY <3>1, <2>1, ExponentAfter
      <4> QED
        BY <4>1, <3>1, <2>1 DEF Exponent
    <3> QED
      BY <3>1 DEF Float
  <2>5. Lexed(r, m) => Digits(r, 1, m) \/ (\E x \in 1 .. m : Fraction(r, x, m)) \/ Float(r, m)
    BY <2>1, <1>1, FirstCharacter
  <2> QED
    BY <2>2, <2>3, <2>4, <2>5
<1>3. ~Half(r, n)
  BY <1>1 DEF Half
<1>4. \A i \in 1 .. n : r[i] # "nl"
  BY <1>1, ClassesApart DEF Marks
<1> QED
  BY <1>1, <1>2, <1>3, <1>4 DEF Match, Longest, Lexed, Kind, StartsComment, TwoStars

LEMMA OneExponent ==
  ASSUME NEW r, NEW e \in Nat, NEW m \in Nat, NEW y \in Nat, NEW n \in Nat, NEW z \in Nat,
         Exponent(r, e, m), m < n, Digits(r, m + 1, n),
         Exponent(r, e, y), y < z, Digits(r, y + 1, z)
  PROVE  y = m
<1>1. "+" \notin Digit /\ "-" \notin Digit
  BY ClassesApart
<1>2. r[m + 1] \in Digit /\ r[y + 1] \in Digit
  BY DEF Digits
<1> QED
  BY <1>1, <1>2 DEF Exponent

LEMMA FloatEnds ==
  ASSUME NEW r \in Seq(Chars), NEW n \in 1 .. Len(r), Float(r, n),
         n = Len(r) \/ r[n + 1] \notin Digit
  PROVE  Match(r, n, "RNUM")
<1>1. PICK k \in 1 .. n, e \in 1 .. n, m \in 1 .. n :
        Fraction(r, k, e - 1) /\ Exponent(r, e, m) /\ m < n /\ Digits(r, m + 1, n)
  BY DEF Float
<1>2. e - 1 \in Nat /\ k < e - 1 /\ e <= m /\ r[e] = "e" /\ (e - 1) + 1 = e
  BY <1>1 DEF Fraction, Exponent
<1>3. r[e] \notin Digit /\ r[e] # "."
  BY <1>2, ClassesApart DEF Marks
<1>4. /\ r[1] \in Digit /\ r[1] # "*" /\ r[1] \notin Letter
      /\ \A i \in 1 .. e - 1 : r[i] \in Digit \/ r[i] = "."
  BY <1>1, <1>2, FractionFacts
<1>5. ASSUME NEW j \in Nat, j >= n
      PROVE  ~Digits(r, 1, j) /\ \A x \in 1 .. j : ~Fraction(r, x, j)
  <2>1. ~Digits(r, 1, j)
    BY <1>2, <1>3, <1>5 DEF Digits
  <2>2. ASSUME NEW x \in 1 .. j, Fraction(r, x, j)
        PROVE  FALSE
    <3>1. x = k
      BY <2>2, <1>1, <1>2, OneFraction
    <3>2. e \in x + 1 .. j
      BY <3>1, <1>2, <1>5
    <3> QED
      BY <3>2, <2>2, <1>3 DEF Fraction, Digits
  <2> QED
    BY <2>1, <2>2
<1>6. ASSUME NEW j \in n + 1 .. Len(r)
      PROVE  ~Lexed(r, j)
  <2>1. j \in Nat /\ j >= 1 /\ j >= n /\ n + 1 \in 1 .. j /\ n # Len(r)
    OBVIOUS
  <2>2. ~Float(r, j)
    <3>1. ASSUME NEW x \in 1 .. j, NEW f \in 1 .. j, NEW y \in 1 .. j, Fraction(r, x, f - 1),
                 Exponent(r, f, y), y < j, Digits(r, y + 1, j)
          PROVE  FALSE
      <4>1. f = e
        BY SMTT(30), <3>1, <1>1, <1>2, <1>3, ExponentAfter
      <4>2. y = m
        BY <4>1, <3>1, <1>1, <2>1, OneExponent
      <4>3. n + 1 \in y + 1 .. j
        BY <4>2, <1>1, <2>1
      <4> QED
        BY <4>3, <3>1, <2>1 DEF Digits
    <3> QED
      BY <3>1 DEF Float
  <2>3. Lexed(r, j) => Digits(r, 1, j) \/ (\E x \in 1 .. j : Fraction(r, x, j)) \/ Float(r, j)
    BY <2>1, <1>4, FirstCharacter
  <2> QED
    BY <2>1, <2>2, <2>3, <1>5
<1>7. ~Half(r, n)
  BY <1>5 DEF Half
<1>8. ASSUME NEW i \in 1 .. n
      PROVE  r[i] # "nl"
  <2>1. i \in 1 .. e - 1 \/ i = e \/ (i = m /\ m = e + 1) \/ i \in m + 1 .. n
    BY <1>1, <1>2 DEF Exponent
  <2>2. i \in m + 1 .. n => r[i] \in Digit
    BY <1>1 DEF Digits
  <2>3. i = m /\ m = e + 1 => r[i] \in {"+", "-"}
    BY <1>1, <1>2 DEF Exponent
  <2>4. "nl" \notin Digit /\ "nl" # "." /\ "nl" # "e" /\ "nl" \notin {"+", "-"}
    BY ClassesApart
  <2> QED
    BY <2>1, <2>2, <2>3, <2>4, <1>2, <1>4
<1>9. r[n] \in Digit /\ r[n] \notin Letter
  BY <1>1, ClassesApart DEF Digits
<1> QED
  BY <1>4, <1>6, <1>7, <1>8, <1>9 DEF Match, Longest, Lexed, Kind, StartsComment, TwoStars

LEMMA SignEnds ==
  ASSUME NEW r \in Seq(Chars), NEW l \in 1 .. Len(r), NEW y, SignOf(r, l, y),
         \A m \in l + 1 .. Len(r) : ~Sign(r, m), ~StartsComment(r)
  PROVE  Match(r, l, y)
<1>1. Sign(r, l)
  BY SignHasToken
<1>2. r[1] \notin Letter /\ r[1] \notin Digit /\ r[l] \notin Letter /\ \A i \in 1 .. l : r[i] # "nl"
  BY <1>1, ClassesApart DEF Sign, Marks
<1>3. \A m \in l + 1 .. Len(r) : ~Lexed(r, m)
  <2>1. \A m \in l + 1 .. Len(r) : m \in Nat /\ m >= 1
    OBVIOUS
  <2> QED
    BY <2>1, <1>2, FirstCharacter
<1>4. ~Half(r, l)
  BY <1>2 DEF Half, Fraction, Digits
<1> QED
  BY <1>1, <1>2, <1>3, <1>4 DEF Match, Longest, Lexed, Kind

(* The character that ends a word: the next one of r, or the sentinel.      *)
Follows(r, n, c) ==
  /\ n < Len(r) => c = r[n + 1]
  /\ n = Len(r) => c = "$" /\ n >= 1

LEMMA SentinelIsApart ==
  "$" \notin WordChar /\ "$" \notin Digit /\ "$" \notin Blank /\ "$" \notin {"+", "-", "*", "=", ".", "<", ">"}
BY ClassesApart DEF Marks

(* An accepting state: the characters it keeps are the longest match.       *)
LEMMA ReadsToken ==
  ASSUME NEW r \in Seq(Chars), NEW n \in 0 .. Len(r), NEW q \in States, ReadSoFar(q, r, n),
         NEW c \in Chars, Follows(r, n, c), Invoke[q][c] \in Accepting,
         TokenOf[Invoke[q][c]] # "INVALID"
  PROVE  Match(r, n + 1 - RetractBy(Invoke[q][c]), TokenOf[Invoke[q][c]])
<1> DEFINE t == Invoke[q][c]
<1>1. Len(r) \in Nat /\ n \in Nat
  OBVIOUS
<1>2. /\ n < Len(r) => c = r[n + 1]
      /\ n = Len(r) => c = "$" /\ n >= 1
      /\ n < Len(r) \/ n = Len(r)
  BY <1>1 DEF Follows
<1>3. t \in Accepting /\ TokenOf[t] # "INVALID"
  OBVIOUS
<1>4. /\ t \in {2, 4, 7, 15, 17, 20, 23, 28, 31} => RetractBy(t) = 1
      /\ t = 8 => RetractBy(t) = 2
      /\ t \in {14, 16, 21, 22, 27, 30, 33, 35} \cup (37 .. 47) => RetractBy(t) = 0
      /\ t \in {2, 4, 7, 8, 15, 17, 20, 23, 28, 31, 14, 16, 21, 22, 27, 30, 33, 35} \cup (37 .. 47)
  <2>1. /\ \A x \in RetractOne : x \notin RetractTwo /\ RetractBy(x) = 1
        /\ RetractBy(8) = 2
    BY DEF RetractBy, RetractOne, RetractTwo
  <2>2. \A x \in {14, 16, 21, 22, 27, 30, 33, 35} \cup (37 .. 47) : x \notin RetractOne \cup RetractTwo
    BY DEF RetractOne, RetractTwo
  <2>3. \A x \in {14, 16, 21, 22, 27, 30, 33, 35} \cup (37 .. 47) : RetractBy(x) = 0
    BY <2>2 DEF RetractBy
  <2> HIDE DEF t
  <2>4. t \in RetractOne \/ t = 8 \/ t \in {14, 16, 21, 22, 27, 30, 33, 35} \cup (37 .. 47)
    BY <1>3 DEF Accepting, RetractTwo
  <2> QED
    BY SMTT(30), <2>1, <2>3, <2>4 DEF RetractOne
<1> HIDE DEF t
<1> SUFFICES Match(r, n + 1 - RetractBy(t), TokenOf[t])
  BY DEF t
<1>5. CASE q = 0 /\ n = 0
  <2>1. /\ c \in Letter => t = 1
        /\ c \in Digit => t = 3
        /\ c = "<" => t = 12
        /\ c = ">" => t = 18
        /\ c = "*" => t = 24
        /\ c = ":" => t = 29
        /\ c = "=" => t = 32
        /\ c = "!" => t = 34
        /\ c = "." => t = 36
        /\ c \in Single => t \in 38 .. 46 /\ OneSign(c, TokenOf[t])
        /\ c \in Blank => t = 47
        /\ c \in {"$", "#", "NUL"} => t = 48
    BY <1>5, RowStart DEF t
  <2>2. c \in Letter \/ c \in Digit \/ c \in Single \/ c \in Blank \/ c \in Marks
    BY ClassesApart
  <2>3. t \notin {1, 3, 12, 18, 24, 29, 32, 34, 36, 48} /\ t # 47
    <3>1. t # 47
      BY SMTT(30), <1>3, TokenOfStates
    <3>2. \A x \in {1, 3, 12, 18, 24, 29, 32, 34, 36, 48} :
             /\ x \notin {2, 4, 7, 8, 15, 17, 20, 23, 28, 31}
             /\ x \notin {14, 16, 21, 22, 27, 30, 33, 35} \cup (37 .. 47)
      OBVIOUS
    <3> QED
      BY <3>1, <3>2, <1>4
  <2>4. c \in Single
    <3>1. c \notin {"<", ">", "*", ":", "=", "!", "."} /\ c \notin {"$", "#", "NUL"}
      BY <2>1, <2>3
    <3>2. c \notin Marks
      BY <3>1 DEF Marks
    <3> QED
      BY <2>1, <2>2, <2>3, <3>2
  <2>5. c = r[1] /\ 1 \in 1 .. Len(r)
    BY <1>1, <1>2, <1>5
  <2>6. t \in 38 .. 46 /\ OneSign(r[1], TokenOf[t])
    BY <2>1, <2>4, <2>5
  <2>7. n + 1 - RetractBy(t) = 1
    BY <2>6, <1>4, <1>5
  <2>8. SignOf(r, 1, TokenOf[t])
    BY <2>6 DEF SignOf
  <2>9. r[1] \notin Marks
    BY <2>4, <2>5, ClassesApart
  <2>10. /\ \A m \in 2 .. Len(r) : ~Sign(r, m)
         /\ ~StartsComment(r)
    BY <2>9 DEF Sign, Marks, StartsComment, TwoStars
  <2> QED
    BY <2>5, <2>7, <2>8, <2>10, SignEnds
<1>6. CASE q = 1 /\ n >= 1 /\ Word(r, n)
  <2>1. t = IF c \in WordChar THEN 1 ELSE 2
    BY <1>6, Row1 DEF t
  <2>2. t = 2 /\ c \notin WordChar /\ n + 1 - RetractBy(t) = n
    BY <2>1, <1>1, <1>4
  <2>3. TokenOf[t] = "ID"
    BY <2>2, TokenOfStates
  <2> QED
    BY <2>2, <2>3, <1>1, <1>2, <1>6, WordEnds
<1>7. CASE q = 3 /\ n >= 1 /\ Digits(r, 1, n)
  <2>1. t = IF c \in Digit THEN 3 ELSE IF c = "." THEN 5 ELSE 4
    BY <1>7, Row3 DEF t
  <2>2. t = 4 /\ c \notin Digit /\ c # "." /\ n + 1 - RetractBy(t) = n
    BY <2>1, <1>1, <1>4
  <2>3. TokenOf[t] = "NUM"
    BY <2>2, TokenOfStates
  <2> QED
    BY <2>2, <2>3, <1>1, <1>2, <1>7, DigitsEnd
<1>8. CASE q = 5 /\ n >= 2 /\ Digits(r, 1, n - 1) /\ r[n] = "."
  <2>1. t = IF c \in Digit THEN 6 ELSE IF c = "." THEN 8 ELSE 48
    BY <1>8, Row5 DEF t
  <2>2. t = 8 /\ c = "." /\ n + 1 - RetractBy(t) = n - 1
    BY <2>1, <1>1, <1>4
  <2>3. TokenOf[t] = "NUM"
    BY <2>2, TokenOfStates
  <2>4. n < Len(r)
    BY <2>2, <1>2, SentinelIsApart
  <2>5. /\ n - 1 \in 1 .. Len(r) /\ (n - 1) + 2 <= Len(r)
        /\ (n - 1) + 1 = n /\ (n - 1) + 2 = n + 1
    BY <2>4, <1>1, <1>8
  <2>6. r[(n - 1) + 1] = "." /\ r[(n - 1) + 2] = "."
    BY <2>2, <2>4, <2>5, <1>2, <1>8
  <2> QED
    BY <2>2, <2>3, <2>5, <2>6, <1>8, DigitsEnd
<1>9. CASE q = 6 /\ \E k \in 1 .. n : Fraction(r, k, n)
  <2>1. t = IF c \in Digit THEN 6 ELSE IF c = "e" THEN 9 ELSE 7
    BY <1>9, Row6 DEF t
  <2>2. t = 7 /\ c \notin Digit /\ c # "e" /\ n + 1 - RetractBy(t) = n
    BY <2>1, <1>1, <1>4
  <2>3. TokenOf[t] = "RNUM"
    BY <2>2, TokenOfStates
  <2>4. n \in 1 .. Len(r)
    BY <1>1, <1>9
  <2> QED
    BY <2>2, <2>3, <2>4, <1>2, <1>9, FractionEnds
<1>10. CASE q = 9
  <2>1. t = IF c \in {"+", "-"} THEN 10 ELSE IF c \in Digit THEN 11 ELSE 48
    BY <1>10, Row9 DEF t
  <2> QED
    BY <2>1, <1>4
<1>11. CASE q = 10
  <2>1. t = IF c \in Digit THEN 11 ELSE 48
    BY <1>11, Row10 DEF t
  <2> QED
    BY <2>1, <1>4
<1>12. CASE q = 11 /\ Float(r, n)
  <2>1. t = IF c \in Digit THEN 11 ELSE 7
    BY <1>12, Row11 DEF t
  <2>2. t = 7 /\ c \notin Digit /\ n + 1 - RetractBy(t) = n
    BY <2>1, <1>1, <1>4
  <2>3. TokenOf[t] = "RNUM"
    BY <2>2, TokenOfStates
  <2>4. n \in 1 .. Len(r)
    BY <1>1, <1>12 DEF Float
  <2> QED
    BY <2>2, <2>3, <2>4, <1>2, <1>12, FloatEnds
<1>13. ASSUME NEW l \in 1 .. Len(r), SignOf(r, l, TokenOf[t]), n + 1 - RetractBy(t) = l,
              l = 3 \/ (l = 2 /\ (r[2] = "=" \/ r[1] = "." \/ 2 = Len(r) \/ r[3] # r[2]))
                \/ (l = 1 /\ (1 = Len(r) \/ (r[2] # r[1] /\ r[2] # "="))),
              r[1] \in {"<", ">", "=", "!", ":", ".", "*"}
       PROVE  Match(r, n + 1 - RetractBy(t), TokenOf[t])
  <2>1. /\ r[1] \notin Single
        /\ r[1] = "*" => l = 1
    <3>1. r[1] \in Marks
      BY <1>13 DEF Marks
    <3>2. r[1] = "*" => l = 1
      BY <1>13 DEF SignOf, TwoSign, ThreeSign
    <3> QED
      BY <3>1, <3>2, ClassesApart
  <2>2. \A m \in l + 1 .. Len(r) : ~Sign(r, m)
    BY <1>1, <1>13 DEF Sign
  <2>3. ~StartsComment(r)
    BY <2>1, <1>1, <1>13 DEF StartsComment, TwoStars
  <2> QED
    BY <2>2, <2>3, <1>13, SignEnds
<1>14. CASE n = 1 /\ \/ q = 12 /\ r[1] = "<"
                     \/ q = 18 /\ r[1] = ">"
                     \/ q = 24 /\ r[1] = "*"
                     \/ q = 29 /\ r[1] = ":"
                     \/ q = 32 /\ r[1] = "="
                     \/ q = 34 /\ r[1] = "!"
                     \/ q = 36 /\ r[1] = "."
  <2>1. c # "$" => n < Len(r) /\ c = r[2] /\ 2 \in 1 .. Len(r)
    BY <1>1, <1>2, <1>14
  <2>2. 1 \in 1 .. Len(r) /\ (1 = Len(r) \/ c = r[2])
    BY <1>1, <1>2, <1>14
  <2>3. CASE q = 12 /\ r[1] = "<"
    <3>1. t = IF c = "<" THEN 13 ELSE IF c = "=" THEN 16 ELSE 17
      BY <2>3, Row12 DEF t
    <3>2. t # 13
      BY <1>4
    <3>3. CASE c = "="
      <4>1. t = 16 /\ TokenOf[t] = "LE" /\ n + 1 - RetractBy(t) = 2
        BY <3>1, <3>3, <1>4, <1>14, TokenOfStates
      <4>2. 2 \in 1 .. Len(r) /\ r[2] = "="
        BY <2>1, <3>3
      <4>3. SignOf(r, 2, TokenOf[t])
        BY <4>1, <4>2, <2>3 DEF SignOf, TwoSign
      <4> QED
        BY <4>1, <4>2, <4>3, <2>3, <1>13
    <3>4. CASE c # "="
      <4>1. t = 17 /\ c # "<"
        BY <3>1, <3>2, <3>4
      <4>2. TokenOf[t] = "LT" /\ n + 1 - RetractBy(t) = 1
        BY <4>1, <1>4, <1>14, TokenOfStates
      <4>3. SignOf(r, 1, TokenOf[t])
        BY <4>2, <2>3 DEF SignOf, OneSign
      <4> QED
        BY <4>1, <4>2, <4>3, <3>4, <2>2, <2>3, <1>13
    <3> QED
      BY <3>3, <3>4
  <2>4. CASE q = 18 /\ r[1] = ">"
    <3>1. t = IF c = ">" THEN 19 ELSE IF c = "=" THEN 22 ELSE 23
      BY <2>4, Row18 DEF t
    <3>2. t # 19
      BY <1>4
    <3>3. CASE c = "="
      <4>1. t = 22 /\ TokenOf[t] = "GE" /\ n + 1 - RetractBy(t) = 2
        BY <3>1, <3>3, <1>4, <1>14, TokenOfStates
      <4>2. 2 \in 1 .. Len(r) /\ r[2] = "="
        BY <2>1, <3>3
      <4>3. SignOf(r, 2, TokenOf[t])
        BY <4>1, <4>2, <2>4 DEF SignOf, TwoSign
      <4> QED
        BY <4>1, <4>2, <4>3, <2>4, <1>13
    <3>4. CASE c # "="
      <4>1. t = 23 /\ c # ">"
        BY <3>1, <3>2, <3>4
      <4>2. TokenOf[t] = "GT" /\ n + 1 - RetractBy(t) = 1
        BY <4>1, <1>4, <1>14, TokenOfStates
      <4>3. SignOf(r, 1, TokenOf[t])
        BY <4>2, <2>4 DEF SignOf, OneSign
      <4> QED
        BY <4>1, <4>2, <4>3, <3>4, <2>2, <2>4, <1>13
    <3> QED
      BY <3>3, <3>4
  <2>5. CASE q = 24 /\ r[1] = "*"
    <3>1. t = IF c = "*" THEN 25 ELSE 28
      BY <2>5, Row24 DEF t
    <3>2. t = 28 /\ c # "*"
      BY <3>1, <1>4
    <3>3. TokenOf[t] = "MUL" /\ n + 1 - RetractBy(t) = 1
      BY <3>2, <1>4, <1>14, TokenOfStates
    <3>4. SignOf(r, 1, TokenOf[t])
      BY <3>3, <2>5 DEF SignOf, OneSign
    <3>5. /\ \A m \in 1 + 1 .. Len(r) : ~Sign(r, m)
          /\ ~StartsComment(r)
      <4>1. r[1] \notin Single
        BY <2>5, ClassesApart DEF Marks
      <4> QED
        BY <4>1, <2>2, <2>5, <3>2, <1>1 DEF Sign, StartsComment, TwoStars
    <3> QED
      BY <3>3, <3>4, <3>5, <2>2, SignEnds
  <2>6. CASE q = 29 /\ r[1] = ":"
    <3>1. t = IF c = "=" THEN 30 ELSE 31
      BY <2>6, Row29 DEF t
    <3>2. CASE c = "="
      <4>1. t = 30 /\ TokenOf[t] = "ASSIGN_OP" /\ n + 1 - RetractBy(t) = 2
        BY <3>1, <3>2, <1>4, <1>14, TokenOfStates
      <4>2. 2 \in 1 .. Len(r) /\ r[2] = "="
        BY <2>1, <3>2
      <4>3. SignOf(r, 2, TokenOf[t])
        BY <4>1, <4>2, <2>6 DEF SignOf, TwoSign
      <4> QED
        BY <4>1, <4>2, <4>3, <2>6, <1>13
    <3>3. CASE c # "="
      <4>1. t = 31
        BY <3>1, <3>3
      <4>2. TokenOf[t] = "COLON" /\ n + 1 - RetractBy(t) = 1
        BY <4>1, <1>4, <1>14, TokenOfStates
      <4>3. SignOf(r, 1, TokenOf[t])
        BY <4>2, <2>6 DEF SignOf, OneSign
      <4>4. /\ \A m \in 1 + 1 .. Len(r) : ~Sign(r, m)
            /\ ~StartsComment(r)
        <5>1. r[1] \notin Single
          BY <2>6, ClassesApart DEF Marks
        <5> QED
          BY <5>1, <2>2, <2>6, <3>3, <1>1 DEF Sign, StartsComment, TwoStars
      <4> QED
        BY <4>2, <4>3, <4>4, <2>2, SignEnds
    <3> QED
      BY <3>2, <3>3
  <2>7. CASE (q = 32 /\ r[1] = "=") \/ (q = 34 /\ r[1] = "!")
    <3>1. t = IF c = "=" THEN q + 1 ELSE 48
      BY <2>7, Row32, Row34 DEF t
    <3>2. t = q + 1 /\ c = "="
      BY <3>1, <1>4
    <3>3. 2 \in 1 .. Len(r) /\ r[2] = "="
      BY <2>1, <3>2
    <3>4. n + 1 - RetractBy(t) = 2
      <4>1. t = 33 \/ t = 35
        BY <3>2, <2>7
      <4>2. RetractBy(t) = 0
        BY <4>1, <1>4
      <4> QED
        BY <4>2, <1>14
    <3>5. (q = 32 /\ TokenOf[t] = "EQ") \/ (q = 34 /\ TokenOf[t] = "NE")
      <4>1. (q = 32 /\ t = 33) \/ (q = 34 /\ t = 35)
        BY <3>2, <2>7
      <4>2. CASE q = 32 /\ t = 33
        BY <4>2, TokenOfStates
      <4>3. CASE q = 34 /\ t = 35
        BY <4>3, TokenOfStates
      <4> QED
        BY <4>1, <4>2, <4>3
    <3>6. SignOf(r, 2, TokenOf[t])
      BY <3>3, <3>5, <2>7 DEF SignOf, TwoSign
    <3> QED
      BY <3>3, <3>4, <3>6, <2>7, <1>13
  <2>8. CASE q = 36 /\ r[1] = "."
    <3>1. t = IF c = "." THEN 37 ELSE 48
      BY <2>8, Row36 DEF t
    <3>2. t = 37 /\ c = "."
      BY <3>1, <1>4
    <3>3. 2 \in 1 .. Len(r) /\ r[2] = "."
      BY <2>1, <3>2
    <3>4. n + 1 - RetractBy(t) = 2 /\ TokenOf[t] = "RANGEOP"
      BY <3>2, <1>4, <1>14, TokenOfStates
    <3>6. SignOf(r, 2, TokenOf[t])
      BY <3>3, <3>4, <2>8 DEF SignOf, TwoSign
    <3> QED
      BY <3>3, <3>4, <3>6, <2>8, <1>13
  <2> QED
    BY <2>3, <2>4, <2>5, <2>6, <2>7, <2>8, <1>14
<1>15. CASE n = 2 /\ r[1] = r[2] /\ ((q = 13 /\ r[1] = "<") \/ (q = 19 /\ r[1] = ">"))
  <2>1. c # "$" => n < Len(r) /\ c = r[3] /\ 3 \in 1 .. Len(r)
    BY <1>1, <1>2, <1>15
  <2>2. 2 \in 1 .. Len(r) /\ (2 = Len(r) \/ c = r[3])
    BY <1>1, <1>2, <1>15
  <2>3. t = IF c = r[1] THEN IF q = 13 THEN 14 ELSE 21 ELSE IF q = 13 THEN 15 ELSE 20
    <3>1. CASE q = 13
      BY <3>1, <1>15, Row13 DEF t
    <3>2. CASE q = 19
      BY <3>2, <1>15, Row19 DEF t
    <3> QED
      BY <3>1, <3>2, <1>15
  <2>4. CASE c = r[1]
    <3>1. 3 \in 1 .. Len(r) /\ r[3] = r[1]
      BY <2>1, <2>4, <1>15
    <3>2. /\ n + 1 - RetractBy(t) = 3
          /\ (q = 13 /\ TokenOf[t] = "DRIVERDEF") \/ (q = 19 /\ TokenOf[t] = "DRIVERENDDEF")
      <4>1. (q = 13 /\ t = 14) \/ (q = 19 /\ t = 21)
        BY <2>3, <2>4, <1>15
      <4>2. RetractBy(t) = 0
        BY <4>1, <1>4
      <4>3. CASE q = 13 /\ t = 14
        BY <4>2, <4>3, <1>15, TokenOfStates
      <4>4. CASE q = 19 /\ t = 21
        BY <4>2, <4>4, <1>15, TokenOfStates
      <4> QED
        BY <4>1, <4>3, <4>4
    <3>3. SignOf(r, 3, TokenOf[t])
      BY <3>1, <3>2, <1>15 DEF SignOf, ThreeSign
    <3> QED
      BY <3>1, <3>2, <3>3, <1>13, <1>15
  <2>5. CASE c # r[1]
    <3>1. /\ n + 1 - RetractBy(t) = 2
          /\ (q = 13 /\ TokenOf[t] = "DEF") \/ (q = 19 /\ TokenOf[t] = "ENDDEF")
      <4>1. (q = 13 /\ t = 15) \/ (q = 19 /\ t = 20)
        BY <2>3, <2>5, <1>15
      <4>2. RetractBy(t) = 1
        BY <4>1, <1>4
      <4>3. CASE q = 13 /\ t = 15
        BY <4>2, <4>3, <1>15, TokenOfStates
      <4>4. CASE q = 19 /\ t = 20
        BY <4>2, <4>4, <1>15, TokenOfStates
      <4> QED
        BY <4>1, <4>3, <4>4
    <3>2. SignOf(r, 2, TokenOf[t])
      BY <3>1, <1>15 DEF SignOf, TwoSign
    <3> QED
      BY <3>1, <3>2, <2>2, <2>5, <1>13, <1>15
  <2> QED
    BY <2>4, <2>5
<1>16. CASE q = 25
  <2>1. t = IF c = "*" THEN 26 ELSE 25
    BY <1>16, Row25 DEF t
  <2> QED
    BY <2>1, <1>4
<1>17. CASE q = 26
  <2>1. t = IF c = "*" THEN 27 ELSE IF c = "$" THEN 48 ELSE 25
    BY <1>17, Row26 DEF t
  <2>2. t # 27
    BY SMTT(60), <1>3, TokenOfStates
  <2> QED
    BY <2>1, <2>2, <1>4
<1> QED
  BY <1>5, <1>6, <1>7, <1>8, <1>9, <1>10, <1>11, <1>12, <1>14, <1>15, <1>16, <1>17 DEF ReadSoFar

(* The error state: what goes wrong in r.                                   *)
Unclosed(r) == StartsComment(r) /\ \A m \in 1 .. Len(r) : ~Comment(r, m)
Wrong(r) ==
  \/ \E l \in 1 .. Len(r) : Longest(r, l) /\ Half(r, l)
  \/ (\A m \in 1 .. Len(r) : ~Lexed(r, m)) /\ ~StartsComment(r) /\ r[1] \notin Blank
  \/ Unclosed(r) /\ Len(r) >= 3 /\ r[Len(r)] = "*"

LEMMA DotWithoutDigits ==
  ASSUME NEW r \in Seq(Chars), NEW n \in 2 .. Len(r), Digits(r, 1, n - 1), r[n] = ".",
         n = Len(r) \/ (r[n + 1] \notin Digit /\ r[n + 1] # ".")
  PROVE  Longest(r, n - 1) /\ Half(r, n - 1)
<1>1. "." \notin Digit /\ n - 1 \in Nat /\ (n - 1) + 1 = n /\ (n - 1) + 2 = n + 1 /\ Len(r) \in Nat
  BY ClassesApart DEF Marks
<1>2. r[1] \in Digit /\ r[1] \notin Letter
  BY ClassesApart DEF Digits
<1>3. ASSUME NEW k \in Nat, NEW j \in Nat, Fraction(r, k, j), j <= Len(r), j >= n
      PROVE  FALSE
  <2>1. k = n
    BY <1>1, <1>3, DotAfterDigits
  <2>2. n + 1 \in k + 1 .. j /\ n # Len(r)
    BY <2>1, <1>1, <1>3 DEF Fraction
  <2> QED
    BY <2>2, <1>3 DEF Fraction, Digits
<1>4. ASSUME NEW m \in n .. Len(r)
      PROVE  ~Lexed(r, m)
  <2>1. m \in Nat /\ m >= 1 /\ m >= n /\ n \in 1 .. m /\ m <= Len(r)
    BY <1>1
  <2>2. ~Digits(r, 1, m)
    BY <2>1, <1>1 DEF Digits
  <2>3. \A k \in 1 .. m : ~Fraction(r, k, m)
    BY <2>1, <1>3
  <2>4. ~Float(r, m)
    <3>1. ASSUME NEW k \in 1 .. m, NEW e \in 1 .. m, NEW x \in 1 .. m, Fraction(r, k, e - 1)
          PROVE  FALSE
      <4>1. k = n /\ e - 1 \in Nat
        <5>1. e - 1 \in Nat /\ k \in Nat
          OBVIOUS
        <5> QED
          BY <5>1, <3>1, <1>1, DotAfterDigits
      <4>2. e - 1 >= n /\ e - 1 <= Len(r)
        BY <4>1, <3>1, <2>1 DEF Fraction
      <4> QED
        BY <4>1, <4>2, <3>1, <1>3
    <3> QED
      BY <3>1 DEF Float
  <2>5. Lexed(r, m) => Digits(r, 1, m) \/ (\E k \in 1 .. m : Fraction(r, k, m)) \/ Float(r, m)
    BY <2>1, <1>2, FirstCharacter
  <2> QED
    BY <2>2, <2>3, <2>4, <2>5
<1>5. Longest(r, n - 1)
  BY <1>1, <1>4 DEF Longest, Lexed
<1>6. Half(r, n - 1)
  BY <1>1 DEF Half
<1> QED
  BY <1>5, <1>6

LEMMA NoExponent ==
  ASSUME NEW r \in Seq(Chars), NEW n \in 1 .. Len(r), NEW k \in 1 .. n, Fraction(r, k, n),
         n + 1 <= Len(r), r[n + 1] = "e",
         \A m \in n + 1 .. Len(r), j \in n + 1 .. Len(r) :
           ~(Exponent(r, n + 1, m) /\ m < j /\ Digits(r, m + 1, j))
  PROVE  Longest(r, n) /\ Half(r, n)
<1>1. "e" \notin Digit /\ "e" # "." /\ Len(r) \in Nat
  BY ClassesApart
<1>2. /\ r[1] \in Digit /\ r[1] \notin Letter
      /\ ~Digits(r, 1, n)
  BY FractionFacts
<1>3. ASSUME NEW m \in n + 1 .. Len(r)
      PROVE  ~Lexed(r, m)
  <2>1. m \in Nat /\ m >= 1 /\ n + 1 \in 1 .. m
    BY <1>1
  <2>2. ~Digits(r, 1, m)
    BY <2>1, <1>1 DEF Digits
  <2>3. ASSUME NEW x \in 1 .. m, Fraction(r, x, m)
        PROVE  FALSE
    <3>1. x = k
      BY <2>3, <2>1, OneFraction
    <3>2. n + 1 \in x + 1 .. m
      BY <3>1, <2>1
    <3> QED
      BY <3>2, <2>3, <1>1 DEF Fraction, Digits
  <2>4. ~Float(r, m)
    <3>1. ASSUME NEW x \in 1 .. m, NEW e \in 1 .. m, NEW y \in 1 .. m, Fraction(r, x, e - 1),
                 Exponent(r, e, y), y < m, Digits(r, y + 1, m)
          PROVE  FALSE
      <4>1. e = n + 1
        BY <3>1, <2>1, <1>1, ExponentAfter
      <4>2. y \in n + 1 .. Len(r)
        BY <4>1, <3>1, <1>1 DEF Exponent
      <4> QED
        BY <4>1, <4>2, <3>1
    <3> QED
      BY <3>1 DEF Float
  <2>5. Lexed(r, m) => Digits(r, 1, m) \/ (\E x \in 1 .. m : Fraction(r, x, m)) \/ Float(r, m)
    BY <2>1, <1>2, FirstCharacter
  <2> QED
    BY <2>2, <2>3, <2>4, <2>5
<1>4. Longest(r, n)
  BY <1>3 DEF Longest, Lexed
<1>5. Half(r, n)
  BY <1>1 DEF Half
<1> QED
  BY <1>4, <1>5

LEMMA ReadsError ==
  ASSUME NEW r \in Seq(Chars), NEW n \in 0 .. Len(r), NEW q \in States, ReadSoFar(q, r, n),
         NEW c \in Chars, Follows(r, n, c), \A i \in 1 .. Len(r) : r[i] # "$",
         Invoke[q][c] = 48
  PROVE  Wrong(r)
<1>1. Len(r) \in Nat /\ n \in Nat
  OBVIOUS
<1>2. /\ n < Len(r) => c = r[n + 1]
      /\ n = Len(r) => c = "$" /\ n >= 1
      /\ n < Len(r) \/ n = Len(r)
  BY <1>1 DEF Follows
<1>3. c = "$" => n = Len(r)
  <2>1. n < Len(r) => n + 1 \in 1 .. Len(r)
    BY <1>1
  <2> QED
    BY <2>1, <1>2
<1>4. CASE q = 0 /\ n = 0
  <2>1. c = r[1] /\ c # "$" /\ 1 <= Len(r)
    BY <1>1, <1>2, <1>3, <1>4
  <2>2. /\ c \in Letter => Invoke[0][c] = 1
        /\ c \in Digit => Invoke[0][c] = 3
        /\ c \in Single => Invoke[0][c] \in 38 .. 46
        /\ c \in Blank => Invoke[0][c] = 47
    BY RowStart
  <2>3. c \notin Letter /\ c \notin Digit /\ c \notin Single /\ c \notin Blank
    BY <2>2, <1>4
  <2>4. c \notin {"<", ">", "*", ":", "=", "!", "."}
    BY <1>4, RowStart
  <2>5. \A m \in 1 .. Len(r) : ~Sign(r, m)
    BY <2>1, <2>3, <2>4 DEF Sign
  <2>6. \A m \in 1 .. Len(r) : ~Lexed(r, m)
    <3>1. \A m \in 1 .. Len(r) : m \in Nat /\ m >= 1
      BY <1>1
    <3> QED
      BY <3>1, <2>1, <2>3, <2>5, FirstCharacter
  <2> QED
    BY <2>1, <2>3, <2>4, <2>6 DEF Wrong, StartsComment, TwoStars
<1>5. CASE q = 1
  BY <1>5, Row1
<1>6. CASE q = 3
  BY <1>6, Row3
<1>7. CASE q = 5 /\ n >= 2 /\ Digits(r, 1, n - 1) /\ r[n] = "."
  <2>1. c \notin Digit /\ c # "."
    BY <1>7, Row5
  <2>2. n \in 2 .. Len(r) /\ n - 1 \in 1 .. Len(r)
    BY <1>1, <1>7
  <2>3. Longest(r, n - 1) /\ Half(r, n - 1)
    BY <2>1, <2>2, <1>2, <1>7, DotWithoutDigits
  <2> QED
    BY <2>2, <2>3 DEF Wrong
<1>8. CASE q = 6
  BY <1>8, Row6
<1>9. CASE q = 9 /\ r[n] = "e" /\ \E k \in 1 .. n - 1 : Fraction(r, k, n - 1)
  <2>1. c \notin {"+", "-"} /\ c \notin Digit
    BY <1>9, Row9
  <2>2. n - 1 \in 1 .. Len(r) /\ (n - 1) + 1 = n /\ n <= Len(r)
    BY <1>1, <1>9
  <2>3. ASSUME NEW m \in n .. Len(r), NEW j \in n .. Len(r), Exponent(r, n, m), m < j,
               Digits(r, m + 1, j)
        PROVE  FALSE
    <3>1. n < Len(r) /\ c = r[n + 1]
      BY <2>3, <1>1, <1>2
    <3>2. m = n
      BY <2>1, <2>3, <3>1 DEF Exponent
    <3>3. m + 1 \in m + 1 .. j
      BY <2>3
    <3> QED
      BY <3>1, <3>2, <3>3, <2>1, <2>3 DEF Digits
  <2>4. Longest(r, n - 1) /\ Half(r, n - 1)
    <3>1. PICK k \in 1 .. n - 1 : Fraction(r, k, n - 1)
      BY <1>9
    <3> QED
      BY <3>1, <2>2, <2>3, <1>9, NoExponent
  <2> QED
    BY <2>2, <2>4 DEF Wrong
<1>10. CASE q = 10 /\ r[n] \in {"+", "-"} /\ r[n - 1] = "e"
              /\ \E k \in 1 .. n - 2 : Fraction(r, k, n - 2)
  <2>1. c \notin Digit /\ r[n] \notin Digit
    BY <1>10, Row10, ClassesApart
  <2>2. n - 2 \in 1 .. Len(r) /\ (n - 2) + 1 = n - 1 /\ (n - 1) + 1 = n /\ n - 1 <= Len(r)
    BY <1>1, <1>10
  <2>3. ASSUME NEW m \in n - 1 .. Len(r), NEW j \in n - 1 .. Len(r), Exponent(r, n - 1, m), m < j,
               Digits(r, m + 1, j)
        PROVE  FALSE
    <3>1. m + 1 \in m + 1 .. j
      BY <2>3
    <3>2. r[m + 1] \in Digit
      BY <3>1, <2>3 DEF Digits
    <3>3. m = n /\ n < Len(r)
      BY <3>2, <2>1, <2>2, <2>3, <1>1 DEF Exponent
    <3> QED
      BY <3>2, <3>3, <2>1, <1>2
  <2>4. Longest(r, n - 2) /\ Half(r, n - 2)
    <3>1. PICK k \in 1 .. n - 2 : Fraction(r, k, n - 2)
      BY <1>10
    <3> QED
      BY <3>1, <2>2, <2>3, <1>10, NoExponent
  <2> QED
    BY <2>2, <2>4 DEF Wrong
<1>11. CASE q = 11
  BY <1>11, Row11
<1>12. CASE q = 12 \/ q = 18 \/ q = 24 \/ q = 29
  BY <1>12, Row12, Row18, Row24, Row29
<1>13. CASE n = 1 /\ ((q = 32 /\ r[1] = "=") \/ (q = 34 /\ r[1] = "!") \/ (q = 36 /\ r[1] = "."))
  <2>1. /\ q = 32 \/ q = 34 => c # "="
        /\ q = 36 => c # "."
    BY <1>13, Row32, Row34, Row36
  <2>2. 1 \in 1 .. Len(r) /\ (1 = Len(r) \/ r[2] = c)
    BY <1>1, <1>2, <1>13
  <2>3. r[1] \notin Letter /\ r[1] \notin Digit /\ r[1] \notin Single /\ r[1] \notin Blank
    BY <1>13, ClassesApart DEF Marks
  <2>4. \A m \in 1 .. Len(r) : ~Sign(r, m)
    BY <2>1, <2>2, <2>3, <1>1, <1>13 DEF Sign
  <2>5. \A m \in 1 .. Len(r) : ~Lexed(r, m)
    <3>1. \A m \in 1 .. Len(r) : m \in Nat /\ m >= 1
      BY <1>1
    <3> QED
      BY <3>1, <2>3, <2>4, FirstCharacter
  <2> QED
    BY <2>3, <2>5, <1>13 DEF Wrong, StartsComment, TwoStars
<1>14. CASE q = 13 \/ q = 19
  BY <1>14, Row13, Row19
<1>15. CASE q = 25
  BY <1>15, Row25
<1>16. CASE q = 26 /\ n >= 3 /\ TwoStars(r, 1) /\ r[n] = "*" /\ NoStars(r, 3, n - 1)
  <2>1. c = "$" /\ n = Len(r)
    BY <1>3, <1>16, Row26
  <2>2. ASSUME NEW m \in 1 .. Len(r), Comment(r, m)
        PROVE  FALSE
    <3>1. m - 1 \in 3 .. n - 1 /\ TwoStars(r, m - 1)
      BY <2>1, <2>2, <1>1 DEF Comment
    <3> QED
      BY <3>1, <1>16 DEF NoStars
  <2> QED
    BY <2>1, <2>2, <1>16 DEF Wrong, Unclosed, StartsComment
<1> QED
  BY <1>4, <1>5, <1>6, <1>7, <1>8, <1>9, <1>10, <1>11, <1>12, <1>13, <1>14, <1>15, <1>16 DEF ReadSoFar

(* A lexeme that is dropped: a blank or a comment.                          *)
LEMMA ReadsDropped ==
  ASSUME NEW r \in Seq(Chars), NEW n \in 0 .. Len(r), NEW q \in States, ReadSoFar(q, r, n),
         NEW c \in Chars, Follows(r, n, c), Invoke[q][c] \in Accepting,
         TokenOf[Invoke[q][c]] = "INVALID"
  PROVE  /\ n < Len(r) /\ RetractBy(Invoke[q][c]) = 0
         /\ \/ n = 0 /\ r[1] \in Blank
            \/ r[n + 1] = "*" /\ \A m \in 1 .. Len(r) : Comment(r, m) <=> m = n + 1
<1> DEFINE t == Invoke[q][c]
<1>1. Len(r) \in Nat /\ n \in Nat
  OBVIOUS
<1>2. /\ n < Len(r) => c = r[n + 1]
      /\ n = Len(r) => c = "$" /\ n >= 1
      /\ n < Len(r) \/ n = Len(r)
  BY <1>1 DEF Follows
<1>3. \/ t = 27 \/ t = 47
  <2>1. \A x \in {2, 4, 7, 15, 17, 20, 23, 28, 31, 8} : TokenOf[x] # "INVALID"
    BY TokenOfStates
  <2>2. \A x \in {14, 16, 21, 22, 30, 33, 35} : TokenOf[x] # "INVALID"
    BY TokenOfStates
  <2>3. \A x \in {37, 38, 39, 40, 41, 42, 43, 44, 45, 46} : TokenOf[x] # "INVALID"
    BY TokenOfStates
  <2>4. \A x \in 37 .. 47 : x \in {37, 38, 39, 40, 41, 42, 43, 44, 45, 46} \/ x = 47
    OBVIOUS
  <2> HIDE DEF t
  <2>5. t \in Accepting /\ TokenOf[t] = "INVALID"
    BY DEF t
  <2>6. \/ t \in {2, 4, 7, 15, 17, 20, 23, 28, 31, 8}
        \/ t \in {14, 16, 21, 22, 30, 33, 35}
        \/ t = 27
        \/ t \in 37 .. 47
    BY <2>5 DEF Accepting, RetractOne, RetractTwo
  <2> QED
    BY <2>1, <2>2, <2>3, <2>4, <2>5, <2>6
<1>4. RetractBy(t) = 0
  BY <1>3 DEF RetractBy, RetractOne, RetractTwo
<1>5. ~(q = 1 \/ q = 3 \/ q = 5 \/ q = 6 \/ q = 9 \/ q = 10 \/ q = 11 \/ q = 12 \/ q = 18 \/ q = 24
          \/ q = 29 \/ q = 32 \/ q = 34 \/ q = 36 \/ q = 13 \/ q = 19 \/ q = 25)
  <2>1. ~(q = 1 \/ q = 3 \/ q = 5 \/ q = 6)
    BY <1>3, Row1, Row3, Row5, Row6
  <2>4. ~(q = 9 \/ q = 10 \/ q = 11)
    BY <1>3, Row9, Row10, Row11
  <2>2. ~(q = 12 \/ q = 18 \/ q = 24 \/ q = 29)
    <3>1. q # 12 /\ q # 18
      BY <1>3, Row12, Row18
    <3>2. q # 24 /\ q # 29
      BY <1>3, Row24, Row29
    <3> QED
      BY <3>1, <3>2
  <2>5. ~(q = 32 \/ q = 34 \/ q = 36)
    BY <1>3, Row32, Row34, Row36
  <2>3. ~(q = 13 \/ q = 19 \/ q = 25)
    BY <1>3, Row13, Row19, Row25
  <2> QED
    BY <2>1, <2>2, <2>3, <2>4, <2>5
<1>6. CASE q = 0 /\ n = 0
  <2>1. /\ c \in Letter => t = 1
        /\ c \in Digit => t = 3
        /\ c \in Single => t \in 38 .. 46
        /\ c \in {"$", "#", "NUL"} => t = 48
    BY <1>6, RowStart
  <2>2. c \in {"<", ">", "*", ":", "=", "!", "."} => t \notin {27, 47}
    BY <1>6, RowStart
  <2>3. c \in Letter \/ c \in Digit \/ c \in Single \/ c \in Blank \/ c \in Marks
    BY ClassesApart
  <2> HIDE DEF t
  <2>4. c \notin Letter /\ c \notin Digit /\ c \notin Single /\ c \notin {"$", "#", "NUL"}
        /\ c \notin {"<", ">", "*", ":", "=", "!", "."}
    BY <2>1, <2>2, <1>3
  <2>5. c \in Blank
    BY <2>3, <2>4 DEF Marks
  <2>6. c = r[1] /\ n < Len(r)
    BY <1>1, <1>2, <1>6
  <2> QED
    BY <2>5, <2>6, <1>4, <1>6 DEF t
<1>7. CASE q = 26 /\ n >= 3 /\ TwoStars(r, 1) /\ r[n] = "*" /\ NoStars(r, 3, n - 1)
  <2>1. c = "*" /\ c # "$"
    BY <1>3, <1>7, Row26
  <2>2. n < Len(r) /\ r[n + 1] = "*" /\ n + 1 \in 1 .. Len(r)
    BY <2>1, <1>1, <1>2
  <2>3. TwoStars(r, n)
    BY <2>2, <1>7 DEF TwoStars
  <2>4. ASSUME NEW m \in 1 .. Len(r), Comment(r, m)
        PROVE  m = n + 1
    <3>1. m >= 4 /\ TwoStars(r, m - 1) /\ \A i \in 3 .. m - 2 : ~TwoStars(r, i)
      BY <2>4 DEF Comment
    <3>2. ~(m - 1 \in 3 .. n - 1)
      BY <3>1, <1>7 DEF NoStars
    <3>3. ~(n \in 3 .. m - 2)
      BY <3>1, <2>3
    <3> QED
      BY <3>1, <3>2, <3>3, <1>1, <1>7
  <2>5. Comment(r, n + 1)
    <3>1. (n + 1) - 1 = n /\ (n + 1) - 2 = n - 1 /\ n + 1 >= 4
      BY <1>1, <1>7
    <3> QED
      BY <3>1, <2>3, <1>7 DEF Comment, NoStars
  <2> QED
    BY <2>2, <2>4, <2>5, <1>4
<1> QED
  BY <1>5, <1>6, <1>7 DEF ReadSoFar

(* The end of the file.                                                     *)
LEMMA ReadsEnd ==
  ASSUME NEW r \in Seq(Chars), Len(r) >= 1, NEW q \in States, ReadSoFar(q, r, Len(r)), Invoke[q]["$"] # 48
  PROVE  /\ TokenOf[Invoke[q]["$"]] # "INVALID" =>
              Invoke[q]["$"] \in Accepting /\ RetractBy(Invoke[q]["$"]) = 1
         /\ TokenOf[Invoke[q]["$"]] = "INVALID" =>
              Unclosed(r) /\ ~(Len(r) >= 3 /\ r[Len(r)] = "*")
<1> DEFINE n == Len(r)
           t == Invoke[q]["$"]
<1>1. n \in Nat /\ "$" \in Chars /\ "$" \notin WordChar /\ "$" \notin Digit /\ "$" # "e"
  BY SentinelIsApart, ClassesApart DEF Marks
<1>2. /\ q = 1 => t = 2
      /\ q = 3 => t = 4
      /\ q = 5 => t = 48
      /\ q = 6 => t = 7
      /\ q = 9 => t = 48
      /\ q = 10 => t = 48
      /\ q = 11 => t = 7
  BY <1>1, Row1, Row3, Row5, Row6, Row9, Row10, Row11
<1>3. /\ q = 12 => t = 17
      /\ q = 18 => t = 23
      /\ q = 24 => t = 28
      /\ q = 29 => t = 31
      /\ q = 32 => t = 48
      /\ q = 34 => t = 48
      /\ q = 36 => t = 48
  BY <1>1, Row12, Row18, Row24, Row29, Row32, Row34, Row36
<1>4. /\ q = 13 => t = 15
      /\ q = 19 => t = 20
      /\ q = 25 => t = 25
      /\ q = 26 => t = 48
  BY <1>1, Row13, Row19, Row25, Row26
<1>5. CASE q = 25 /\ n >= 2 /\ TwoStars(r, 1) /\ (n = 2 \/ r[n] # "*") /\ NoStars(r, 3, n - 1)
  <2>1. ASSUME NEW m \in 1 .. Len(r), Comment(r, m)
        PROVE  FALSE
    <3>1. m - 1 \in 3 .. n - 1 /\ TwoStars(r, m - 1)
      BY <2>1, <1>1 DEF Comment
    <3> QED
      BY <3>1, <1>5 DEF NoStars
  <2>2. Unclosed(r) /\ ~(n >= 3 /\ r[n] = "*")
    BY <2>1, <1>1, <1>5 DEF Unclosed, StartsComment
  <2> QED
    BY SMTT(60), <2>2, <1>4, <1>5, TokenOfStates
<1>6. CASE t \in {2, 4, 7, 15, 17, 20, 23, 28, 31}
  <2>1. t \in Accepting /\ RetractBy(t) = 1
    BY <1>6 DEF Accepting, RetractBy, RetractOne, RetractTwo
  <2>2. TokenOf[t] # "INVALID"
    BY <1>6, TokenOfStates
  <2> QED
    BY <2>1, <2>2
<1> QED
  BY SMTT(30), <1>1, <1>2, <1>3, <1>4, <1>5, <1>6 DEF ReadSoFar

-----------------------------------------------------------------------------
(* What TokenStream says of the rest of the source, in the words above.     *)
LEMMA RestFacts ==
  ASSUME src \in Seq(Chars), covered \in 0 .. Len(src)
  PROVE  /\ Promise!Rest \in Seq(Chars) /\ Len(Promise!Rest) = Len(src) - covered
         /\ \A i \in 1 .. Len(src) - covered : Promise!Rest[i] = src[covered + i]
BY DropFacts DEF Promise!Rest

LEMMA LexemePrefixes ==
  ASSUME src \in Seq(Chars), covered \in 0 .. Len(src)
  PROVE  Promise!Prefixes(Promise!IsLexeme) = { n \in 1 .. Len(Promise!Rest) : Lexed(Promise!Rest, n) }
<1>1. Promise!Rest \in Seq(Chars)
  BY RestFacts
<1>2. \A n \in 1 .. Len(Promise!Rest) :
        Promise!IsLexeme(Promise!Take(Promise!Rest, n)) <=> Lexed(Promise!Rest, n)
  BY <1>1, PrefixIsLexeme
<1> QED
  BY <1>2 DEF Promise!Prefixes

LEMMA PrefixIsComment ==
  ASSUME NEW r \in Seq(Chars), NEW n \in 1 .. Len(r)
  PROVE  Promise!IsComment(Promise!Take(r, n)) <=> Comment(r, n)
<1> DEFINE w == Promise!Take(r, n)
<1>1. Len(w) = n /\ \A x \in 1 .. n : w[x] = r[x]
  BY TakeFacts
<1> HIDE DEF w
<1>2. \A i \in 1 .. n - 1 : Promise!Stars(w, i) <=> TwoStars(r, i)
  BY <1>1 DEF Promise!Stars, TwoStars
<1>3. n >= 4 => 1 \in 1 .. n - 1 /\ n - 1 \in 1 .. n - 1 /\ 3 .. n - 2 \subseteq 1 .. n - 1
  OBVIOUS
<1>4. Promise!IsComment(w) <=> Comment(r, n)
  BY <1>1, <1>2, <1>3 DEF Promise!IsComment, Comment
<1> QED
  BY <1>4 DEF w

LEMMA CommentPrefixes ==
  ASSUME src \in Seq(Chars), covered \in 0 .. Len(src)
  PROVE  Promise!Prefixes(Promise!IsComment) = { n \in 1 .. Len(Promise!Rest) : Comment(Promise!Rest, n) }
<1>1. Promise!Rest \in Seq(Chars)
  BY RestFacts
<1>2. \A n \in 1 .. Len(Promise!Rest) :
        Promise!IsComment(Promise!Take(Promise!Rest, n)) <=> Comment(Promise!Rest, n)
  BY <1>1, PrefixIsComment
<1> QED
  BY <1>2 DEF Promise!Prefixes

LEMMA CommentRest ==
  ASSUME src \in Seq(Chars), covered \in 0 .. Len(src)
  PROVE  /\ Promise!InComment <=> StartsComment(Promise!Rest)
         /\ Promise!InComment /\ Promise!Prefixes(Promise!IsComment) = {} <=> Unclosed(Promise!Rest)
         /\ Promise!HalfClosed <=>
              /\ Unclosed(Promise!Rest)
              /\ Len(Promise!Rest) >= 3 /\ Promise!Rest[Len(Promise!Rest)] = "*"
<1>1. Promise!InComment <=> StartsComment(Promise!Rest)
  BY DEF Promise!InComment, Promise!Stars, StartsComment, TwoStars
<1>2. Promise!Prefixes(Promise!IsComment) = {} <=>
        \A n \in 1 .. Len(Promise!Rest) : ~Comment(Promise!Rest, n)
  BY CommentPrefixes
<1> QED
  BY <1>1, <1>2 DEF Promise!HalfClosed, Unclosed

LEMMA MaxOf ==
  ASSUME NEW S \in SUBSET Int, NEW l \in S, \A m \in S : m <= l
  PROVE  Promise!Max(S) = l
<1> DEFINE x == CHOOSE x \in S : \A m \in S : m <= x
<1>1. x \in S /\ \A m \in S : m <= x
  OBVIOUS
<1>2. x = l
  <2> HIDE DEF x
  <2>1. x <= l /\ l <= x /\ x \in Int /\ l \in Int
    BY <1>1
  <2> QED
    BY <2>1
<1>3. Promise!Max(S) = x
  BY DEF Promise!Max
<1> QED
  BY <1>2, <1>3

LEMMA LongestLexeme ==
  ASSUME src \in Seq(Chars), covered \in 0 .. Len(src), NEW l \in 1 .. Len(Promise!Rest),
         Longest(Promise!Rest, l)
  PROVE  /\ Promise!Prefixes(Promise!IsLexeme) # {} /\ Promise!Longest = l
         /\ Promise!BadNumber <=> Half(Promise!Rest, l)
         /\ Promise!TooLong <=> Word(Promise!Rest, l) /\ l > MaxLexeme
<1> DEFINE r == Promise!Rest
           S == Promise!Prefixes(Promise!IsLexeme)
<1>1. r \in Seq(Chars) /\ Len(r) \in Nat
  BY RestFacts
<1>2. S = { n \in 1 .. Len(r) : Lexed(r, n) }
  BY LexemePrefixes
<1>3. l \in S /\ S \in SUBSET Int /\ \A m \in S : m <= l
  <2>1. ASSUME NEW m \in S, m > l
        PROVE  FALSE
    <3>1. m \in l + 1 .. Len(r) /\ Lexed(r, m)
      BY <2>1, <1>2
    <3> QED
      BY <3>1 DEF Longest
  <2> QED
    BY <2>1, <1>1, <1>2 DEF Longest
<1>4. Promise!Max(S) = l
  <2> HIDE DEF S
  <2> QED
    BY <1>3, MaxOf
<1>5. Promise!Longest = l
  BY <1>4 DEF Promise!Longest
<1>6. Promise!NextWord = Promise!Take(r, l)
  BY <1>5 DEF Promise!NextWord
<1>7. /\ Promise!IsNum(Promise!NextWord) <=> Digits(r, 1, l)
      /\ Promise!IsFixed(Promise!NextWord) <=> \E k \in 1 .. l : Fraction(r, k, l)
      /\ Promise!IsIdentifier(Promise!NextWord) <=> Word(r, l)
  BY <1>1, <1>6, PrefixIsLexeme
<1>8. \A x : Promise!After(Promise!Longest) = x /\ x # "NUL" <=> l < Len(r) /\ r[l + 1] = x /\ x # "NUL"
  BY <1>5 DEF Promise!After
<1>9. S # {}
  BY <1>3
<1> HIDE DEF r, S
<1>10. Promise!BadNumber <=>
         \/ /\ Digits(r, 1, l) /\ l < Len(r) /\ r[l + 1] = "."
            /\ ~(l + 1 < Len(r) /\ r[l + 2] = ".")
         \/ (\E k \in 1 .. l : Fraction(r, k, l)) /\ l < Len(r) /\ r[l + 1] = "e"
  <2>1. /\ Promise!After(Promise!Longest) = "." <=> l < Len(r) /\ r[l + 1] = "."
        /\ Promise!After(Promise!Longest) = "e" <=> l < Len(r) /\ r[l + 1] = "e"
    BY <1>8
  <2>2. Promise!BadNumber <=>
          \/ /\ Promise!IsNum(Promise!NextWord) /\ Promise!After(Promise!Longest) = "."
             /\ ~(l + 1 < Len(r) /\ r[l + 2] = ".")
          \/ Promise!IsFixed(Promise!NextWord) /\ Promise!After(Promise!Longest) = "e"
    BY <1>5, <1>9 DEF Promise!BadNumber, r, S
  <2> QED
    BY <2>1, <2>2, <1>7
<1> QED
  BY <1>5, <1>7, <1>9, <1>10 DEF Half, Promise!TooLong, r, S

(* The type of a lexeme.                                                    *)
LEMMA TypeOfKind ==
  ASSUME NEW r \in Seq(Chars), NEW l \in 1 .. Len(r), NEW y, Kind(r, l, y)
  PROVE  Promise!TypeOf(Promise!Take(r, l)) =
           IF y = "ID" THEN Lookup(Promise!Take(r, l)) ELSE y
<1> DEFINE w == Promise!Take(r, l)
<1>1. /\ w \in Seq(Chars) /\ Len(w) = l /\ w[1] = r[1]
      /\ \A x \in 1 .. l : w[x] = r[x]
  BY TakeFacts
<1>2. /\ Promise!IsIdentifier(w) <=> Word(r, l)
      /\ Promise!IsNum(w) <=> Digits(r, 1, l)
      /\ Promise!IsReal(w) <=> (\E k \in 1 .. l : Fraction(r, k, l)) \/ Float(r, l)
      /\ \A z : SignOf(w, l, z) <=> SignOf(r, l, z)
  BY PrefixIsLexeme
<1> HIDE DEF w
<1>3. ASSUME w \in Keywords
      PROVE  Word(r, l)
  <2>1. w \in Seq(Letter) /\ Len(w) = l
    BY <1>1, <1>3, KeywordAssumption DEF Letter
  <2>2. \A x \in 1 .. l : w[x] \in Letter
    BY <2>1
  <2> QED
    BY <2>2, <1>1 DEF Word, WordChar
<1>4. Word(r, l) => r[1] \in Letter /\ r[1] \notin Digit
  BY ClassesApart DEF Word
<1>5. Digits(r, 1, l) => r[1] \in Digit
  BY DEF Digits
<1>6. (\E k \in 1 .. l : Fraction(r, k, l)) => r[1] \in Digit /\ ~Digits(r, 1, l)
  BY FractionFacts
<1>7. Float(r, l) => r[1] \in Digit /\ ~Digits(r, 1, l)
  <2> SUFFICES ASSUME Float(r, l) PROVE r[1] \in Digit /\ ~Digits(r, 1, l)
    OBVIOUS
  <2>1. PICK k \in 1 .. l, e \in 1 .. l, m \in 1 .. l : Fraction(r, k, e - 1) /\ Exponent(r, e, m)
    BY DEF Float
  <2>2. r[e] \notin Digit /\ e - 1 \in Nat
    BY <2>1, ClassesApart DEF Exponent
  <2> QED
    BY <2>1, <2>2, FractionFacts DEF Digits
<1>8. ASSUME SignOf(r, l, y)
      PROVE  r[1] \notin Letter /\ r[1] \notin Digit /\ y \notin {"ID", "NUM", "RNUM"}
  <2>1. Sign(r, l)
    BY <1>8, SignHasToken
  <2>2. r[1] \notin Letter /\ r[1] \notin Digit
    BY <2>1, ClassesApart DEF Sign, Marks
  <2>3. y \notin {"ID", "NUM", "RNUM"}
    BY <1>8 DEF SignOf, OneSign, TwoSign, ThreeSign
  <2> QED
    BY <2>2, <2>3
<1>9. CASE y = "ID" /\ Word(r, l)
  BY <1>2, <1>9 DEF Promise!TypeOf, Lookup, w
<1>10. CASE y = "NUM" /\ Digits(r, 1, l)
  <2>1. w \notin Keywords /\ ~Promise!IsIdentifier(w) /\ Promise!IsNum(w)
    BY <1>2, <1>3, <1>4, <1>5, <1>10
  <2> QED
    BY <2>1, <1>10 DEF Promise!TypeOf, w
<1>11. CASE y = "RNUM" /\ ((\E k \in 1 .. l : Fraction(r, k, l)) \/ Float(r, l))
  <2>1. w \notin Keywords /\ ~Promise!IsIdentifier(w) /\ ~Promise!IsNum(w) /\ Promise!IsReal(w)
    BY <1>2, <1>3, <1>4, <1>6, <1>7, <1>11
  <2> QED
    BY <2>1, <1>11 DEF Promise!TypeOf, w
<1>12. CASE SignOf(r, l, y)
  <2>1. w \notin Keywords /\ ~Promise!IsIdentifier(w) /\ ~Promise!IsNum(w) /\ ~Promise!IsReal(w)
    BY <1>2, <1>3, <1>4, <1>5, <1>6, <1>7, <1>8, <1>12
  <2> DEFINE s == CHOOSE s \in Promise!Symbols : s[1] = w
  <2>2. s \in Promise!Symbols /\ s[1] = w
    <3>1. \E p \in Promise!Symbols : p[1] = w /\ p[2] = y
      BY <1>1, <1>2, <1>12, SymbolsAreSigns
    <3> QED
      BY <3>1
  <2>3. Promise!TypeOf(w) = s[2]
    BY <2>1 DEF Promise!TypeOf
  <2> HIDE DEF s
  <2>4. SignOf(r, l, s[2])
    BY <2>2, <1>1, <1>2, SymbolsAreSigns
  <2>5. s[2] = y
    BY <2>4, <1>12, SignHasOneToken
  <2> QED
    BY <2>3, <2>5, <1>8, <1>12 DEF w
<1> QED
  BY <1>9, <1>10, <1>11, <1>12 DEF Kind

(* A match is what Deliver takes from the source.                           *)
LEMMA MatchDelivers ==
  ASSUME src \in Seq(Chars), covered \in 0 .. Len(src), NEW l, NEW y, Match(Promise!Rest, l, y)
  PROVE  /\ Promise!Prefixes(Promise!IsLexeme) # {} /\ Promise!Longest = l
         /\ ~Promise!InComment /\ ~Promise!BadNumber
         /\ Promise!TooLong <=> y = "ID" /\ l > MaxLexeme
         /\ Promise!NextWord = Promise!Take(Promise!Rest, l)
         /\ Promise!TypeOf(Promise!NextWord) = IF y = "ID" THEN Lookup(Promise!NextWord) ELSE y
<1> DEFINE r == Promise!Rest
<1>1. r \in Seq(Chars) /\ l \in 1 .. Len(r) /\ Longest(r, l) /\ Kind(r, l, y) /\ ~Half(r, l)
      /\ ~StartsComment(r)
  BY RestFacts DEF Match
<1>2. /\ Promise!Prefixes(Promise!IsLexeme) # {} /\ Promise!Longest = l
      /\ Promise!BadNumber <=> Half(r, l)
      /\ Promise!TooLong <=> Word(r, l) /\ l > MaxLexeme
  BY <1>1, LongestLexeme
<1>3. Promise!NextWord = Promise!Take(r, l)
  BY <1>2 DEF Promise!NextWord
<1>4. Word(r, l) <=> y = "ID"
  <2>1. y = "ID" => ~SignOf(r, l, y)
    BY DEF SignOf, OneSign, TwoSign, ThreeSign
  <2>2. Word(r, l) => r[1] \in Letter /\ r[1] \notin Digit
    BY ClassesApart DEF Word
  <2>3. ASSUME Word(r, l)
        PROVE  y = "ID"
    <3>1. ~Digits(r, 1, l) /\ ~Float(r, l) /\ \A k \in 1 .. l : ~Fraction(r, k, l)
      <4>1. ~Digits(r, 1, l)
        BY <2>2, <2>3, <1>1 DEF Digits
      <4>2. \A k \in 1 .. l, j \in Int : ~Fraction(r, k, j)
        BY <2>2, <2>3 DEF Fraction, Digits
      <4> HIDE DEF r
      <4>3. ~Float(r, l)
        BY <4>2, <1>1 DEF Float
      <4> QED
        BY <4>1, <4>2, <4>3, <1>1
    <3>2. ~SignOf(r, l, y)
      <4>1. Sign(r, l) => r[1] \notin Letter
        BY ClassesApart DEF Sign, Marks
      <4>2. SignOf(r, l, y) => Sign(r, l)
        BY <1>1, SignHasToken
      <4> QED
        BY <4>1, <4>2, <2>2, <2>3
    <3> QED
      BY <3>1, <3>2, <1>1 DEF Kind
  <2> QED
    BY <2>1, <2>3, <1>1 DEF Kind
<1>5. Promise!TypeOf(Promise!NextWord) = IF y = "ID" THEN Lookup(Promise!NextWord) ELSE y
  BY <1>1, <1>3, TypeOfKind
<1> QED
  BY <1>1, <1>2, <1>3, <1>4, <1>5, CommentRest

(* What goes wrong is what Fail is about.                                   *)
LEMMA WrongFails ==
  ASSUME src \in Seq(Chars), covered \in 0 .. Len(src), Wrong(Promise!Rest)
  PROVE  \/ Promise!BadNumber \/ Promise!HalfClosed
         \/ /\ ~Promise!InComment /\ Promise!Rest[1] \notin Blank
            /\ Promise!Prefixes(Promise!IsLexeme) = {}
<1> DEFINE r == Promise!Rest
<1>1. CASE \E l \in 1 .. Len(r) : Longest(r, l) /\ Half(r, l)
  BY <1>1, LongestLexeme
<1>2. CASE (\A m \in 1 .. Len(r) : ~Lexed(r, m)) /\ ~StartsComment(r) /\ r[1] \notin Blank
  <2>1. Promise!Prefixes(Promise!IsLexeme) = {}
    BY <1>2, LexemePrefixes
  <2> QED
    BY <2>1, <1>2, CommentRest
<1>3. CASE Unclosed(r) /\ Len(r) >= 3 /\ r[Len(r)] = "*"
  BY <1>3, CommentRest
<1> QED
  BY <1>1, <1>2, <1>3 DEF Wrong

-----------------------------------------------------------------------------
(* The tokens before the first error of a log, and the lines of a source.   *)
ErrorsIn(s)  == { i \in 1 .. Len(s) : s[i].type = "ERROR" }
Before(s)    == IF ErrorsIn(s) = {} THEN s ELSE SubSeq(s, 1, Min(ErrorsIn(s)) - 1)
LineOf(s, p) == 1 + Cardinality({ i \in 1 .. p : s[i] = "nl" })

LEMMA MinOf ==
  ASSUME NEW S \in SUBSET Int, NEW l \in S, \A m \in S : l <= m
  PROVE  Min(S) = l
<1> DEFINE x == CHOOSE x \in S : \A m \in S : x <= m
<1>1. x \in S /\ \A m \in S : x <= m
  OBVIOUS
<1>2. x = l
  <2> HIDE DEF x
  <2>1. x <= l /\ l <= x /\ x \in Int /\ l \in Int
    BY <1>1
  <2> QED
    BY <2>1
<1>3. Min(S) = x
  BY DEF Min
<1> QED
  BY <1>2, <1>3

(* A nonempty set of naturals has a least element.                          *)
LEMMA MinIn ==
  ASSUME NEW S \in SUBSET Nat, S # {}
  PROVE  Min(S) \in S /\ \A m \in S : Min(S) <= m
<1> DEFINE R == OpToRel(<, Nat)
<1>1. IsWellFoundedOn(R, Nat)
  BY NatLessThanWellFounded
<1>2. \A m, n \in Nat : m < n => <<m, n>> \in R
  BY DEF OpToRel
<1> HIDE DEF R
<1>3. PICK n \in S : \A m \in S : ~ (<<m, n>> \in R)
  BY <1>1, WFMin
<1>4. ASSUME NEW m \in S PROVE n <= m
  <2>1. m \in Nat /\ n \in Nat /\ ~ (m < n)
    BY <1>2, <1>3
  <2> QED
    BY <2>1
<1>5. Min(S) = n
  <2>1. S \in SUBSET Int
    OBVIOUS
  <2> QED
    BY <2>1, <1>3, <1>4, MinOf
<1> QED
  BY <1>3, <1>4, <1>5

LEMMA TokenAppended ==
  ASSUME NEW s \in Seq(Tokens), NEW t \in Tokens, t.type # "ERROR", ErrorsIn(s) = {}
  PROVE  ErrorsIn(s \o <<t>>) = {} /\ Before(s \o <<t>>) = Append(Before(s), t)
<1>1. /\ s \o <<t>> = Append(s, t) /\ Len(Append(s, t)) = Len(s) + 1 /\ Len(s) \in Nat
      /\ \A i \in 1 .. Len(s) : Append(s, t)[i] = s[i]
      /\ Append(s, t)[Len(s) + 1] = t
  OBVIOUS
<1>2. ErrorsIn(Append(s, t)) = {}
  <2>1. \A i \in 1 .. Len(s) + 1 : i \in 1 .. Len(s) \/ i = Len(s) + 1
    BY <1>1
  <2> QED
    BY <1>1, <2>1 DEF ErrorsIn
<1> QED
  BY <1>1, <1>2 DEF Before

LEMMA ErrorAppended ==
  ASSUME NEW s \in Seq(Tokens), NEW t \in Seq(Tokens), t # <<>>, t[1].type = "ERROR", ErrorsIn(s) = {}
  PROVE  ErrorsIn(s \o t) # {} /\ Before(s \o t) = Before(s)
<1> DEFINE u == s \o t
<1>1. /\ u \in Seq(Tokens) /\ Len(u) = Len(s) + Len(t) /\ Len(s) \in Nat /\ Len(t) \in Nat
      /\ Len(t) >= 1
      /\ \A i \in 1 .. Len(s) + Len(t) : u[i] = IF i <= Len(s) THEN s[i] ELSE t[i - Len(s)]
  BY ConcatProperties
<1> HIDE DEF u
<1>2. Len(s) + 1 \in ErrorsIn(u)
  <2>1. u[Len(s) + 1] = t[1] /\ Len(s) + 1 \in 1 .. Len(u)
    BY <1>1
  <2> QED
    BY <2>1 DEF ErrorsIn
<1>3. ASSUME NEW m \in ErrorsIn(u)
      PROVE  Len(s) + 1 <= m
  <2>1. m \in 1 .. Len(u) /\ u[m].type = "ERROR"
    BY DEF ErrorsIn
  <2>2. ~(m \in 1 .. Len(s))
    BY SMTT(30), <2>1, <1>1 DEF ErrorsIn
  <2> QED
    BY <2>1, <2>2, <1>1
<1>4. Min(ErrorsIn(u)) = Len(s) + 1
  <2>1. ErrorsIn(u) \in SUBSET Int
    BY DEF ErrorsIn
  <2> QED
    BY <2>1, <1>2, <1>3, MinOf
<1>5. SubSeq(u, 1, Len(s)) = s
  <2>1. \A i \in 1 .. Len(s) : u[i] = s[i] /\ i \in 1 .. Len(u)
    BY <1>1
  <2> QED
    BY <2>1, <1>1
<1>6. Before(u) = s /\ ErrorsIn(u) # {}
  <2>1. Min(ErrorsIn(u)) - 1 = Len(s)
    BY <1>1, <1>4
  <2> QED
    BY <2>1, <1>2, <1>5 DEF Before
<1> QED
  BY <1>6 DEF Before, u

LEMMA AfterError ==
  ASSUME NEW s \in Seq(Tokens), NEW t \in Seq(Tokens), ErrorsIn(s) # {}
  PROVE  ErrorsIn(s \o t) # {} /\ Before(s \o t) = Before(s)
<1> DEFINE u == s \o t
           m == Min(ErrorsIn(s))
<1>1. /\ u \in Seq(Tokens) /\ Len(u) = Len(s) + Len(t) /\ Len(s) \in Nat /\ Len(t) \in Nat
      /\ \A i \in 1 .. Len(s) + Len(t) : u[i] = IF i <= Len(s) THEN s[i] ELSE t[i - Len(s)]
  BY ConcatProperties
<1>2. m \in ErrorsIn(s) /\ \A i \in ErrorsIn(s) : m <= i
  <2>1. ErrorsIn(s) \in SUBSET Nat
    BY <1>1 DEF ErrorsIn
  <2> QED
    BY <2>1, MinIn
<1> HIDE DEF u, m
<1>3. m \in 1 .. Len(s) /\ m \in ErrorsIn(u)
  BY <1>1, <1>2 DEF ErrorsIn
<1>4. ASSUME NEW i \in ErrorsIn(u)
      PROVE  m <= i
  <2>1. i \in 1 .. Len(u) /\ u[i].type = "ERROR"
    BY DEF ErrorsIn
  <2>2. CASE i <= Len(s)
    <3>1. i \in ErrorsIn(s)
      BY <2>1, <2>2, <1>1 DEF ErrorsIn
    <3> QED
      BY <3>1, <1>2
  <2>3. CASE i > Len(s)
    BY <2>1, <2>3, <1>1, <1>3
  <2> QED
    BY <2>1, <2>2, <2>3, <1>1
<1>5. Min(ErrorsIn(u)) = m
  <2>1. ErrorsIn(u) \in SUBSET Int
    BY DEF ErrorsIn
  <2> QED
    BY <2>1, <1>3, <1>4, MinOf
<1>6. SubSeq(u, 1, m - 1) = SubSeq(s, 1, m - 1)
  <2>1. \A i \in 1 .. m - 1 : u[i] = s[i] /\ i \in 1 .. Len(u) /\ i \in 1 .. Len(s)
    BY <1>1, <1>3
  <2>2. m - 1 \in Int /\ m - 1 <= Len(s) /\ m - 1 <= Len(u)
    BY <1>1, <1>3
  <2> QED
    BY <2>1, <2>2, <1>1, <1>3
<1>7. Before(u) = SubSeq(u, 1, m - 1) /\ Before(s) = SubSeq(s, 1, m - 1) /\ ErrorsIn(u) # {}
  BY <1>3, <1>5 DEF Before, m
<1> QED
  BY <1>6, <1>7 DEF u

(* One character further, and a stretch without a newline.                  *)
LEMMA LineSteps ==
  ASSUME NEW s, NEW p \in Nat
  PROVE  /\ LineOf(s, p) \in Nat
         /\ LineOf(s, p + 1) = LineOf(s, p) + (IF s[p + 1] = "nl" THEN 1 ELSE 0)
<1> DEFINE N == { i \in 1 .. p : s[i] = "nl" }
<1>1. IsFiniteSet(N)
  <2>1. IsFiniteSet(1 .. p)
    BY FS_Interval
  <2> QED
    BY <2>1, FS_Subset
<1>2. { i \in 1 .. p + 1 : s[i] = "nl" } = IF s[p + 1] = "nl" THEN N \cup {p + 1} ELSE N
  OBVIOUS
<1>3. p + 1 \notin N
  OBVIOUS
<1> HIDE DEF N
<1>4. Cardinality(N) \in Nat /\ Cardinality(N \cup {p + 1}) = Cardinality(N) + 1
  BY <1>1, <1>3, FS_AddElement, FS_CardinalityType
<1>5. LineOf(s, p) = 1 + Cardinality(N)
  BY DEF LineOf, N
<1>6. LineOf(s, p + 1) = 1 + Cardinality(IF s[p + 1] = "nl" THEN N \cup {p + 1} ELSE N)
  BY <1>2 DEF LineOf
<1>7. CASE s[p + 1] = "nl"
  BY <1>4, <1>5, <1>6, <1>7
<1>8. CASE s[p + 1] # "nl"
  BY <1>4, <1>5, <1>6, <1>8
<1> QED
  BY <1>7, <1>8

LEMMA SameLine ==
  ASSUME NEW s, NEW p \in Nat, NEW n \in Nat, \A i \in 1 .. n : s[p + i] # "nl"
  PROVE  LineOf(s, p + n) = LineOf(s, p)
<1>1. ASSUME NEW j \in 1 .. p + n, s[j] = "nl"
      PROVE  j \in 1 .. p
  <2>1. j > p => j - p \in 1 .. n /\ p + (j - p) = j
    OBVIOUS
  <2> QED
    BY <2>1, <1>1
<1>2. { i \in 1 .. p + n : s[i] = "nl" } = { i \in 1 .. p : s[i] = "nl" }
  BY <1>1
<1> QED
  BY <1>2 DEF LineOf

LEMMA LineAtStart == \A s : LineOf(s, 0) = 1
<1>1. \A s : { i \in 1 .. 0 : s[i] = "nl" } = {}
  OBVIOUS
<1> QED
  BY <1>1, FS_EmptySet DEF LineOf

-----------------------------------------------------------------------------
(* The scan of a plain source up to the first error that is reported: the   *)
(* characters ahead are the source's, except that a newline given back is   *)
(* blanked and counted already.                                             *)
Pending == forward < filePos - base /\ buffers[bufferNumber][forward] # src[base + forward + 1]
SourceAhead ==
  /\ \A i \in 0 .. filePos - base - 1 :
       i > forward => buffers[bufferNumber][i] = src[base + i + 1]
  /\ Pending => src[base + forward + 1] = "nl"
LineCounted == currentLine = LineOf(src, base + forward) + (IF Pending THEN 1 ELSE 0)

(* A word is not cut in two.                                                *)
WordsWhole == 0 < covered /\ covered < Len(src) =>
                src[covered] \notin Letter \/ src[covered + 1] \notin WordChar

(* The lexeme is read exactly, and the automaton is where it leads to.      *)
ExactLexeme ==
  /\ \A i \in 1 .. Len(lexeme) : lexeme[i] = src[covered + i]
  /\ lexeme # <<>> => ~Pending
  /\ ReadSoFar(state, Promise!Rest, Len(lexeme))
StartLine == startLine = LineOf(src, covered) \/ (covered < Len(src) /\ src[covered + 1] = "nl")

ExactInv == ErrorsIn(out) = {} =>
  /\ eofFrames = 0
  /\ ~Live => currentLine = LineOf(src, Len(src))
  /\ Live => SourceAhead /\ LineCounted /\ WordsWhole
  /\ Scanning => ExactLexeme /\ StartLine

CoveredInv == covered <= Len(src)
Clean == ErrorsIn(out) = {}

(* Reading an exact next character, or a newline that was given back.       *)
LEMMA BlankedNewline ==
  ASSUME NEW c, c # "nl", Same(c, "nl")
  PROVE  c \in Blank
BY Zenon DEF Same, Blanked, Blank

LEMMA SameDot == \A c : Same(c, ".") => c = "."
BY DEF Same, Blanked

LEMMA ReadsChar ==
  ASSUME AllPlain, ScanInv, PlainInv, ExactInv, CoveredInv, Clean, NEW c \in Chars, TakeChar(c)
  PROVE  /\ Promise!Rest \in Seq(Chars) /\ Len(lexeme) < Len(Promise!Rest)
         /\ \A i \in 1 .. Len(Promise!Rest) : Promise!Rest[i] # "$"
         /\ Promise!Rest[Len(lexeme) + 1] = src[base + forward + 1]
         /\ ReadSoFar(state, Promise!Rest, Len(lexeme))
         /\ \/ /\ c = Promise!Rest[Len(lexeme) + 1] /\ ~Pending
               /\ currentLine = LineOf(src, base + forward)
            \/ /\ lexeme = <<>> /\ state = 0 /\ c \in Blank /\ c # "nl" /\ Promise!Rest[1] = "nl"
               /\ currentLine = LineOf(src, base + forward) + 1
<1> DEFINE n == Len(lexeme)
           r == Promise!Rest
<1>1. /\ Live /\ Scanning /\ TypeOK /\ forward \in 0 .. filePos - base - 1
      /\ c = buffers[bufferNumber][forward] /\ Same(c, src[base + forward + 1])
      /\ base + forward = covered + Len(lexeme)
  BY TakeCharPlain DEF ScanInv
<1>2. /\ src \in Seq(Chars) /\ Len(src) \in Nat /\ filePos \in 0 .. Len(src) /\ base \in 0 .. Len(src)
      /\ covered \in 0 .. Len(src) /\ n \in Nat /\ lexeme \in Seq(Chars)
      /\ \A i \in 1 .. Len(src) : src[i] # "$"
  BY <1>1, SourceFacts DEF CoveredInv, Sentinel
<1>3. SourceAhead /\ LineCounted /\ ExactLexeme
  BY <1>1 DEF ExactInv, Clean
<1>4. /\ r \in Seq(Chars) /\ Len(r) = Len(src) - covered
      /\ \A i \in 1 .. Len(src) - covered : r[i] = src[covered + i]
  BY <1>2, RestFacts
<1> HIDE DEF n, r
<1>5. n < Len(r) /\ n + 1 \in 1 .. Len(src) - covered /\ covered + (n + 1) = base + forward + 1
  BY <1>1, <1>2, <1>4 DEF n
<1>6. r[n + 1] = src[base + forward + 1]
  BY <1>4, <1>5
<1>7. \A i \in 1 .. Len(r) : r[i] # "$"
  <2> SUFFICES ASSUME NEW i \in 1 .. Len(r) PROVE r[i] # "$"
    OBVIOUS
  <2>1. i \in 1 .. Len(src) - covered /\ covered + i \in 1 .. Len(src)
    BY <1>2, <1>4
  <2> QED
    BY <2>1, <1>2, <1>4
<1>8. forward < filePos - base
  BY <1>1, <1>2
<1>9. CASE ~Pending
  <2>1. c = r[n + 1]
    BY <1>1, <1>6, <1>8, <1>9 DEF Pending
  <2>2. currentLine = LineOf(src, base + forward)
    <3>1. LineOf(src, base + forward) \in Nat
      BY <1>1, <1>2, LineSteps
    <3> QED
      BY <3>1, <1>3, <1>9 DEF LineCounted
  <2> QED
    BY <2>1, <2>2, <1>3, <1>4, <1>5, <1>6, <1>7, <1>9 DEF ExactLexeme, n, r
<1>10. CASE Pending
  <2>1. lexeme = <<>> /\ state = 0
    BY <1>1, <1>3, <1>10 DEF ExactLexeme, ScanInv, LexemeOfState, Start
  <2>2. c # "nl" /\ c \in Blank /\ src[base + forward + 1] = "nl"
    <3>1. src[base + forward + 1] = "nl" /\ c # "nl"
      BY <1>1, <1>3, <1>10 DEF SourceAhead, Pending
    <3>2. Same(c, "nl")
      BY <3>1, <1>1
    <3> QED
      BY <3>1, <3>2, BlankedNewline
  <2>3. n = 0 /\ r[1] = "nl"
    BY <2>1, <2>2, <1>6 DEF n
  <2>4. currentLine = LineOf(src, base + forward) + 1
    BY <1>3, <1>10 DEF LineCounted
  <2> QED
    BY <2>1, <2>2, <2>3, <2>4, <1>3, <1>4, <1>5, <1>6, <1>7 DEF ExactLexeme, n, r
<1> QED
  BY <1>9, <1>10

(* What is ahead after a character, wherever the scan pointer is put then.  *)
LEMMA CharTaken ==
  ASSUME AllPlain, ScanInv, PlainInv, ExactInv, CoveredInv, Clean, NEW c \in Chars, TakeChar(c)
  PROVE  /\ currentLine' = LineOf(src, base + forward + 1)
         /\ \A i \in 0 .. filePos - base - 1 :
              i > forward => buffers'[bufferNumber][i] = src[base + i + 1]
         /\ \A i \in 0 .. forward - 1 : buffers'[bufferNumber][i] = buffers[bufferNumber][i]
         /\ buffers'[bufferNumber][forward] = IF c = "nl" THEN " " ELSE c
         /\ LineOf(src, base + forward) \in Nat
         /\ LineOf(src, base + forward + 1)
              = LineOf(src, base + forward) + (IF src[base + forward + 1] = "nl" THEN 1 ELSE 0)
<1>1. /\ Live /\ Scanning /\ TypeOK /\ forward \in 0 .. filePos - base - 1
      /\ filePos - base <= BufferSize - 1
      /\ c = buffers[bufferNumber][forward]
  BY TakeCharPlain DEF ScanInv
<1>2. /\ BufferSize \in Nat /\ filePos \in Nat /\ base \in Nat
      /\ bufferNumber \in {1, 2} /\ currentLine \in Nat
      /\ buffers \in [{1, 2} -> [0 .. BufferSize - 1 -> Chars]]
  <2>1. filePos \in 0 .. Len(src) /\ base \in 0 .. Len(src) /\ Len(src) \in Nat
    BY <1>1, SourceFacts
  <2>2. filePos \in Nat /\ base \in Nat
    BY <2>1
  <2> QED
    BY <1>1, <2>2, SourceFacts
<1>3. /\ \A i \in 0 .. BufferSize - 1 :
           buffers'[bufferNumber][i] = IF i = forward /\ c = "nl" THEN " "
                                       ELSE buffers[bufferNumber][i]
      /\ currentLine' = IF c = "nl" THEN currentLine + 1 ELSE currentLine
  <2>1. CASE c = "nl"
    <3>1. forward \in 0 .. BufferSize - 1
      BY <1>1, <1>2
    <3>2. c = "nl" /\ forward >= 0
      BY <2>1, <3>1
    <3>3. buffers' = [buffers EXCEPT ![bufferNumber][forward] = " "]
      BY <3>2 DEF TakeChar
    <3> QED
      BY <2>1, <3>1, <3>3, <1>2 DEF TakeChar
  <2>2. CASE c # "nl"
    BY <2>2 DEF TakeChar
  <2> QED
    BY <2>1, <2>2
<1>4. SourceAhead
  BY <1>1 DEF ExactInv, Clean
<1>5. \A i \in 0 .. filePos - base - 1 :
        i > forward => buffers'[bufferNumber][i] = src[base + i + 1]
  <2> SUFFICES ASSUME NEW i \in 0 .. filePos - base - 1, i > forward
               PROVE  buffers'[bufferNumber][i] = src[base + i + 1]
    OBVIOUS
  <2>1. i \in 0 .. BufferSize - 1 /\ i # forward
    BY <1>1, <1>2
  <2> QED
    BY <2>1, <1>3, <1>4 DEF SourceAhead
<1>6. /\ \A i \in 0 .. forward - 1 : buffers'[bufferNumber][i] = buffers[bufferNumber][i]
      /\ buffers'[bufferNumber][forward] = IF c = "nl" THEN " " ELSE c
  <2>1. \A i \in 0 .. forward - 1 : i \in 0 .. BufferSize - 1 /\ i # forward
    BY <1>1, <1>2
  <2>2. forward \in 0 .. BufferSize - 1
    BY <1>1, <1>2
  <2> QED
    BY <2>1, <2>2, <1>1, <1>3
<1>7. /\ LineOf(src, base + forward) \in Nat
      /\ LineOf(src, base + forward + 1)
           = LineOf(src, base + forward) + (IF src[base + forward + 1] = "nl" THEN 1 ELSE 0)
  <2>1. base + forward \in Nat
    BY <1>1, <1>2
  <2> QED
    BY <2>1, LineSteps
<1>8. currentLine' = LineOf(src, base + forward + 1)
  <2> DEFINE x == src[base + forward + 1]
             a == LineOf(src, base + forward)
             b == LineOf(src, base + forward + 1)
  <2>1. Promise!Rest[Len(lexeme) + 1] = x
    BY ReadsChar
  <2>2. \/ c = x /\ currentLine = a
        \/ c # "nl" /\ x = "nl" /\ currentLine = a + 1
    <3>1. lexeme = <<>> => Len(lexeme) + 1 = 1
      OBVIOUS
    <3> QED
      BY <2>1, <3>1, ReadsChar
  <2>3. a \in Nat /\ b = a + (IF x = "nl" THEN 1 ELSE 0)
    BY <1>7
  <2> HIDE DEF x, a, b
  <2>4. currentLine' = IF c = "nl" THEN currentLine + 1 ELSE currentLine
    BY <1>3
  <2>5. c = x /\ currentLine = a => currentLine' = b
    BY <2>3, <2>4
  <2>6. c # "nl" /\ x = "nl" /\ currentLine = a + 1 => currentLine' = b
    BY <2>3, <2>4
  <2>7. currentLine' = b
    BY <2>2, <2>5, <2>6
  <2> QED
    BY <2>7 DEF b
<1> QED
  BY <1>5, <1>6, <1>7, <1>8

(* Where the scan pointer may be put after a character.                     *)
LEMMA PointerMoved ==
  ASSUME AllPlain, ScanInv, PlainInv, ExactInv, CoveredInv, Clean, NEW c \in Chars, TakeChar(c),
         UNCHANGED <<src, filePos, base, bufferNumber>>,
         \/ forward' = forward + 1
         \/ forward' = forward /\ c = Promise!Rest[Len(lexeme) + 1]
         \/ /\ forward' = forward - 1 /\ forward >= 1
            /\ c = "." /\ src[base + forward] = "." /\ src[base + forward + 1] = "."
  PROVE  SourceAhead' /\ LineCounted'
<1>1. /\ Live /\ Scanning /\ TypeOK /\ forward \in 0 .. filePos - base - 1
  BY TakeCharPlain DEF ScanInv
<1>2. filePos \in Nat /\ base \in Nat /\ forward \in Nat
  <2>1. filePos \in 0 .. Len(src) /\ base \in 0 .. Len(src) /\ Len(src) \in Nat
    BY <1>1, SourceFacts
  <2>2. filePos \in Nat /\ base \in Nat
    BY <2>1
  <2> QED
    BY <1>1, <2>2
<1>3. /\ currentLine' = LineOf(src, base + forward + 1)
      /\ \A i \in 0 .. filePos - base - 1 :
           i > forward => buffers'[bufferNumber][i] = src[base + i + 1]
      /\ \A i \in 0 .. forward - 1 : buffers'[bufferNumber][i] = buffers[bufferNumber][i]
      /\ buffers'[bufferNumber][forward] = IF c = "nl" THEN " " ELSE c
      /\ LineOf(src, base + forward) \in Nat
      /\ LineOf(src, base + forward + 1)
           = LineOf(src, base + forward) + (IF src[base + forward + 1] = "nl" THEN 1 ELSE 0)
  BY CharTaken
<1>4. Promise!Rest[Len(lexeme) + 1] = src[base + forward + 1]
  BY ReadsChar
<1>5. /\ Pending' <=> forward' < filePos - base /\ buffers'[bufferNumber][forward'] # src[base + forward' + 1]
      /\ SourceAhead' <=>
           /\ \A i \in 0 .. filePos - base - 1 :
                i > forward' => buffers'[bufferNumber][i] = src[base + i + 1]
           /\ Pending' => src[base + forward' + 1] = "nl"
      /\ LineCounted' <=> currentLine' = LineOf(src, base + forward') + (IF Pending' THEN 1 ELSE 0)
  BY DEF Pending, SourceAhead, LineCounted
<1>6. CASE forward' = forward + 1
  <2>1. ~Pending'
    <3>1. forward' < filePos - base => forward' \in 0 .. filePos - base - 1 /\ forward' > forward
      BY <1>2, <1>6
    <3> QED
      BY <3>1, <1>3, <1>5
  <2>2. SourceAhead'
    <3>1. \A i \in 0 .. filePos - base - 1 : i > forward' => i > forward
      BY <1>2, <1>6
    <3> QED
      BY <3>1, <2>1, <1>3, <1>5
  <2>3. base + forward' = base + forward + 1
    BY <1>2, <1>6
  <2>4. LineOf(src, base + forward') \in Nat /\ currentLine' = LineOf(src, base + forward')
    <3>1. base + forward + 1 \in Nat
      BY <1>2
    <3> QED
      BY <2>3, <3>1, <1>3, LineSteps
  <2> QED
    BY <2>1, <2>2, <2>4, <1>5
<1>7. CASE forward' = forward /\ c = Promise!Rest[Len(lexeme) + 1]
  <2>1. c = src[base + forward' + 1] /\ base + forward' = base + forward
    BY <1>4, <1>7
  <2>2. Pending' <=> c = "nl"
    <3>1. buffers'[bufferNumber][forward'] = IF c = "nl" THEN " " ELSE c
      BY <1>3, <1>7
    <3>2. forward' < filePos - base
      BY <1>1, <1>2, <1>7
    <3> QED
      BY <2>1, <3>1, <3>2, <1>5
  <2>3. SourceAhead'
    BY <2>1, <2>2, <1>3, <1>5, <1>7
  <2>4. /\ currentLine' = LineOf(src, base + forward') + (IF c = "nl" THEN 1 ELSE 0)
    BY <2>1, <1>3, <1>7
  <2> QED
    BY <2>2, <2>3, <2>4, <1>5
<1>8. CASE /\ forward' = forward - 1 /\ forward >= 1
           /\ c = "." /\ src[base + forward] = "." /\ src[base + forward + 1] = "."
  <2>1. forward' \in 0 .. forward - 1 /\ base + forward' + 1 = base + forward /\ base + forward' \in Nat
    BY <1>2, <1>8
  <2>2. ~Pending'
    <3>1. forward' \in 0 .. filePos - base - 1
      BY <2>1, <1>1, <1>2
    <3>2. Same(buffers[bufferNumber][forward'], src[base + forward' + 1])
      BY <3>1, <1>1 DEF PlainInv, BufferHoldsBlock
    <3>3. buffers[bufferNumber][forward'] = "."
      BY <3>2, <2>1, <1>8, SameDot
    <3>4. buffers'[bufferNumber][forward'] = "."
      BY <3>3, <2>1, <1>3
    <3> QED
      BY <3>4, <2>1, <1>5, <1>8
  <2>3. SourceAhead'
    <3>1. ASSUME NEW i \in 0 .. filePos - base - 1, i > forward'
          PROVE  buffers'[bufferNumber][i] = src[base + i + 1]
      <4>1. i = forward \/ i > forward
        BY <3>1, <1>2, <1>8
      <4>2. CASE i = forward
        BY <4>2, <1>3, <1>8
      <4> QED
        BY <4>1, <4>2, <1>3
    <3> QED
      BY <3>1, <2>2, <1>5
  <2>4. LineOf(src, base + forward' + 1)
          = LineOf(src, base + forward') + (IF src[base + forward' + 1] = "nl" THEN 1 ELSE 0)
        /\ LineOf(src, base + forward') \in Nat
    BY <2>1, LineSteps
  <2>5. LineOf(src, base + forward) = LineOf(src, base + forward')
    BY <2>1, <2>4, <1>8
  <2>6. currentLine' = LineOf(src, base + forward')
    <3>1. LineOf(src, base + forward + 1) = LineOf(src, base + forward)
      BY <1>3, <1>8
    <3> QED
      BY <3>1, <2>5, <1>3
  <2> QED
    BY <2>2, <2>3, <2>4, <2>6, <1>5
<1> QED
  BY <1>6, <1>7, <1>8

(* Between two lexemes nothing is asked of the lexeme.                      *)
LEMMA ExactBetween ==
  ASSUME eofFrames' = 0, pc' = "call", Live', SourceAhead', LineCounted', WordsWhole'
  PROVE  ExactInv'
BY DEF ExactInv, Scanning

LEMMA ExactReadOn ==
  ASSUME AllPlain, ScanInv, PlainInv, ExactInv, CoveredInv, Clean, NEW c \in Chars, ReadOn(c)
  PROVE  ExactInv'
<1> DEFINE n == Len(lexeme)
           r == Promise!Rest
<1>1. /\ TakeChar(c) /\ forward' = forward + 1 /\ lexeme' = Scanned(c)
      /\ state' = Invoke[state][c] /\ Invoke[state][c] \notin Accepting \cup {48} /\ pc' = "scan"
      /\ UNCHANGED <<src, filePos, base, covered, bufferNumber, returnedDollar, fileOpen, eofFrames, startLine, out>>
  BY DEF ReadOn, Entered, ErrorState, fileVars
<1>2. /\ Live /\ Scanning /\ TypeOK /\ eofFrames = 0 /\ base + forward = covered + n
  BY <1>1, TakeCharPlain DEF ScanInv
<1>3. SourceAhead' /\ LineCounted'
  BY <1>1, PointerMoved
<1>4. ExactLexeme /\ StartLine /\ WordsWhole
  BY <1>2 DEF ExactInv, Clean
<1>5. /\ r \in Seq(Chars) /\ n < Len(r) /\ ReadSoFar(state, r, n)
      /\ r[n + 1] = src[base + forward + 1] /\ state \in States /\ n \in Nat
      /\ lexeme \in Seq(Chars) /\ base \in Nat /\ forward \in Nat /\ covered \in Nat
      /\ filePos \in Nat
  <2>1. filePos \in 0 .. Len(src) /\ base \in 0 .. Len(src) /\ Len(src) \in Nat
    BY <1>2, SourceFacts
  <2>2. filePos \in Nat /\ base \in Nat
    BY <2>1
  <2>3. forward \in 0 .. filePos - base - 1
    BY <1>1, TakeCharPlain
  <2>4. forward \in Nat
    BY <2>2, <2>3
  <2>5. lexeme \in Seq(Chars) /\ n \in Nat /\ covered \in Nat /\ state \in States
    BY <1>2, SourceFacts
  <2> QED
    BY <1>1, <2>2, <2>4, <2>5, ReadsChar
<1>6. c = r[n + 1]
  <2>1. CASE c = Promise!Rest[Len(lexeme) + 1]
    BY <2>1
  <2>2. CASE state = 0 /\ c \in Blank
    <3>1. Invoke[0][c] = 47
      BY <2>2, RowStart
    <3>2. 47 \in Accepting
      BY DEF Accepting
    <3> QED
      BY <3>1, <3>2, <2>2, <1>1
  <2> QED
    BY <2>1, <2>2, <1>1, ReadsChar
<1>7. /\ Len(lexeme') = n + 1 /\ lexeme'[n + 1] = c
      /\ \A i \in 1 .. n : lexeme'[i] = lexeme[i]
  BY <1>1, <1>5, ScannedType
<1>8. Promise!Rest' = r
  BY <1>1 DEF Promise!Rest, Promise!Drop
<1>9. ReadSoFar(Invoke[state][c], r, n + 1)
  <2> HIDE DEF n, r
  <2> QED
    BY <1>1, <1>5, <1>6, ReadsOn
<1>10. ~Pending'
  <2>1. Pending' => /\ forward + 1 < filePos - base
                    /\ buffers'[bufferNumber][forward + 1] # src[base + (forward + 1) + 1]
    BY <1>1 DEF Pending
  <2>2. forward + 1 < filePos - base => forward + 1 \in 0 .. filePos - base - 1 /\ forward + 1 > forward
    BY <1>5
  <2> QED
    BY <1>1, <2>1, <2>2, CharTaken
<1>11. ExactLexeme'
  <2>1. \A i \in 1 .. Len(lexeme') : lexeme'[i] = src[covered + i]
    <3> SUFFICES ASSUME NEW i \in 1 .. n + 1 PROVE lexeme'[i] = src[covered + i]
      BY <1>7
    <3>1. CASE i \in 1 .. n
      BY <3>1, <1>4, <1>7 DEF ExactLexeme
    <3>2. CASE i = n + 1
      <4>1. covered + i = base + forward + 1
        BY <3>2, <1>2, <1>5
      <4> QED
        BY <4>1, <3>2, <1>5, <1>6, <1>7
    <3> QED
      BY <3>1, <3>2, <1>5
  <2>2. ReadSoFar(state, Promise!Rest, Len(lexeme))' <=> ReadSoFar(state', r, n + 1)
    BY <1>7, <1>8 DEF ReadSoFar
  <2> QED
    BY <2>1, <2>2, <1>1, <1>9, <1>10 DEF ExactLexeme
<1>12. StartLine' /\ WordsWhole'
  BY <1>1, <1>4 DEF StartLine, WordsWhole
<1> QED
  BY <1>1, <1>2, <1>3, <1>11, <1>12 DEF ExactInv, Live

-----------------------------------------------------------------------------
(* The end of a lexeme.                                                     *)
LEMMA NoErrorToken == \A q \in States : TokenOf[q] # "ERROR" /\ (TokenOf[q] = "ID" <=> q = 2)
<1> SUFFICES ASSUME NEW q \in States
             PROVE  TokenOf[q] # "ERROR" /\ (TokenOf[q] = "ID" <=> q = 2)
  OBVIOUS
<1>1. \A r \in TokenTable : r[2] # "ERROR" /\ (r[2] = "ID" <=> r[1] = 2)
  BY DEF TokenTable
<1>2. TokenOf[q] = IF \E r \in TokenTable : r[1] = q
                   THEN (CHOOSE r \in TokenTable : r[1] = q)[2] ELSE "INVALID"
  BY DEF TokenOf
<1>3. CASE \E r \in TokenTable : r[1] = q
  <2> DEFINE r == CHOOSE r \in TokenTable : r[1] = q
  <2>1. r \in TokenTable /\ r[1] = q
    BY <1>3
  <2>2. TokenOf[q] = r[2]
    BY <1>2, <1>3
  <2> HIDE DEF r
  <2> QED
    BY <2>1, <2>2, <1>1
<1>4. CASE ~\E r \in TokenTable : r[1] = q
  <2>1. q # 2
    BY <1>4, Zenon DEF TokenTable
  <2> QED
    BY <2>1, <1>2, <1>4
<1> QED
  BY <1>3, <1>4

LEMMA FirstIsError ==
  ASSUME NEW lexs \in Seq(Seq(Chars)), lexs # <<>>, NEW line \in Nat
  PROVE  /\ Errors(lexs, line) \in Seq(Tokens) /\ Errors(lexs, line) # <<>>
         /\ Errors(lexs, line)[1].type = "ERROR"
<1>1. DOMAIN lexs = 1 .. Len(lexs) /\ Len(lexs) \in Nat /\ 1 \in 1 .. Len(lexs)
  OBVIOUS
<1>2. \A i \in 1 .. Len(lexs) : /\ Token("ERROR", lexs[i], line) \in Tokens
                                /\ Token("ERROR", lexs[i], line).type = "ERROR"
  BY TokenType DEF TokenTypes
<1>3. Errors(lexs, line) = [i \in 1 .. Len(lexs) |-> Token("ERROR", lexs[i], line)]
  BY <1>1 DEF Errors
<1>4. Errors(lexs, line) \in Seq(Tokens) /\ Len(Errors(lexs, line)) = Len(lexs)
  BY <1>1, <1>2, <1>3
<1>5. Errors(lexs, line)[1].type = "ERROR"
  BY <1>1, <1>2, <1>3
<1> QED
  BY <1>1, <1>4, <1>5

(* The first l characters of a sequence that starts as r does.              *)
LEMMA SamePrefix ==
  ASSUME NEW s \in Seq(Chars), NEW r \in Seq(Chars), NEW l \in Nat, l <= Len(s), l <= Len(r),
         \A i \in 1 .. l : s[i] = r[i]
  PROVE  SubSeq(s, 1, l) = Promise!Take(r, l)
<1>1. /\ SubSeq(s, 1, l) \in Seq(Chars) /\ Len(SubSeq(s, 1, l)) = l
      /\ \A i \in 1 .. l : SubSeq(s, 1, l)[i] = s[i]
  OBVIOUS
<1>2. /\ SubSeq(r, 1, l) \in Seq(Chars) /\ Len(SubSeq(r, 1, l)) = l
      /\ \A i \in 1 .. l : SubSeq(r, 1, l)[i] = r[i]
  OBVIOUS
<1>3. SubSeq(s, 1, l) = SubSeq(r, 1, l)
  BY <1>1, <1>2
<1> QED
  BY <1>3 DEF Promise!Take

(* What a token does to the log.                                            *)
LEMMA LogToken ==
  ASSUME out \in Seq(Tokens), Clean, NEW tok \in Tokens, tok.type # "ERROR", eofFrames = 0
  PROVE  /\ Return(tok, out) => /\ ErrorsIn(out') = {} /\ pc' = "call"
                                /\ Before(out') = Append(Before(out), tok)
         /\ \A lexs \in Seq(Seq(Chars)), line \in Nat :
              lexs # <<>> /\ Return(tok, out \o Errors(lexs, line)) =>
                ErrorsIn(out') # {} /\ Before(out') = Before(out)
<1>1. Return(tok, out) => out' = out \o <<tok>> /\ pc' = "call"
  BY DEF Return
<1>2. ErrorsIn(out \o <<tok>>) = {} /\ Before(out \o <<tok>>) = Append(Before(out), tok)
  BY TokenAppended DEF Clean
<1>3. ASSUME NEW lexs \in Seq(Seq(Chars)), NEW line \in Nat, lexs # <<>>,
             Return(tok, out \o Errors(lexs, line))
      PROVE  ErrorsIn(out') # {} /\ Before(out') = Before(out)
  <2> DEFINE e   == Errors(lexs, line)
             log == out \o e
  <2>1. out' = log \o <<tok>>
    BY <1>3 DEF Return
  <2>2. e \in Seq(Tokens) /\ e # <<>> /\ e[1].type = "ERROR"
    BY <1>3, FirstIsError
  <2> HIDE DEF e
  <2>3. ErrorsIn(log) # {} /\ Before(log) = Before(out)
    BY <2>2, ErrorAppended DEF Clean
  <2>4. log \in Seq(Tokens) /\ <<tok>> \in Seq(Tokens)
    BY <2>2, ConcatProperties
  <2> HIDE DEF log
  <2> QED
    BY <2>1, <2>3, <2>4, AfterError
<1> QED
  BY <1>1, <1>2, <1>3

LEMMA LogError ==
  ASSUME out \in Seq(Tokens), Clean, NEW lexs \in Seq(Seq(Chars)), NEW line \in Nat, lexs # <<>>
  PROVE  /\ ErrorsIn(out \o Errors(lexs, line)) # {}
         /\ Before(out \o Errors(lexs, line)) = Before(out)
<1> DEFINE e == Errors(lexs, line)
<1>1. e \in Seq(Tokens) /\ e # <<>> /\ e[1].type = "ERROR"
  BY FirstIsError
<1> HIDE DEF e
<1>2. ErrorsIn(out \o e) # {} /\ Before(out \o e) = Before(out)
  BY <1>1, ErrorAppended DEF Clean
<1> QED
  BY <1>2 DEF e

(* A token, whole and on its line, or an identifier that is too long.       *)
LEMMA ExactToken ==
  ASSUME AllPlain, ScanInv, PlainInv, ExactInv, CoveredInv, Clean, NEW c \in Chars, AcceptToken(c)
  PROVE  /\ ExactInv'
         /\ \E l, y :
              /\ Match(Promise!Rest, l, y) /\ covered' = covered + l
              /\ IF y = "ID" /\ l > MaxLexeme
                 THEN ErrorsIn(out') # {} /\ Before(out') = Before(out)
                 ELSE /\ ErrorsIn(out') = {}
                      /\ Before(out') = Append(Before(out),
                           Token(IF y = "ID" THEN Lookup(Promise!Take(Promise!Rest, l)) ELSE y,
                                 Promise!Take(Promise!Rest, l), LineOf(src, covered)))
<1> DEFINE n == Len(lexeme)
           r == Promise!Rest
           t == Invoke[state][c]
           y == TokenOf[t]
           k == RetractBy(t)
           l == n + 1 - k
           lex == Kept(c, k)
<1>1. /\ TakeChar(c) /\ t \in Accepting /\ y # "INVALID" /\ forward' = forward + 1 - k
      /\ covered' = covered + Len(Scanned(c)) - k
      /\ UNCHANGED <<src, filePos, base, bufferNumber, returnedDollar, fileOpen, eofFrames, startLine>>
  BY DEF AcceptToken, Accept, Entered, fileVars
<1>2. /\ Live /\ Scanning /\ TypeOK /\ eofFrames = 0 /\ base + forward = covered + n
      /\ forward \in 0 .. filePos - base - 1
  BY <1>1, TakeCharPlain DEF ScanInv
<1>3. /\ src \in Seq(Chars) /\ Len(src) \in Nat /\ covered \in 0 .. Len(src) /\ n \in Nat
      /\ state \in States /\ lexeme \in Seq(Chars) /\ out \in Seq(Tokens)
      /\ base \in Nat /\ forward \in Nat /\ startLine \in Nat
  <2>1. filePos \in 0 .. Len(src) /\ base \in 0 .. Len(src) /\ Len(src) \in Nat
    BY <1>2, SourceFacts
  <2>2. filePos \in Nat /\ base \in Nat
    BY <2>1
  <2>3. forward \in Nat
    BY <1>2, <2>2
  <2> QED
    BY <1>2, <2>1, <2>2, <2>3, SourceFacts DEF TypeOK, CoveredInv
<1>4. ExactLexeme /\ StartLine
  BY <1>2 DEF ExactInv, Clean
<1>5. /\ r \in Seq(Chars) /\ n < Len(r) /\ ReadSoFar(state, r, n)
      /\ r[n + 1] = src[base + forward + 1]
  BY <1>1, ReadsChar
<1>6. /\ Len(r) = Len(src) - covered /\ \A i \in 1 .. Len(src) - covered : r[i] = src[covered + i]
  BY <1>3, RestFacts
<1>7. c = r[n + 1]
  <2>1. state = 0 /\ c \in Blank => y = "INVALID"
    <3>1. c \in Blank => Invoke[0][c] = 47
      BY RowStart
    <3>2. TokenOf[47] = "INVALID"
      BY TokenOfStates
    <3> QED
      BY <3>1, <3>2
  <2> QED
    BY <2>1, <1>1, ReadsChar
<1>8. Match(r, l, y)
  <2>1. Follows(r, n, c) /\ n \in 0 .. Len(r)
    BY <1>3, <1>5, <1>7 DEF Follows
  <2> HIDE DEF n, r
  <2> QED
    BY <2>1, <1>1, <1>3, <1>5, ReadsToken
<1>9. k \in 0 .. 2 /\ k <= n + 1 /\ (k = 2 => t = 8) /\ t \in States
  <2>1. t \in States
    BY <1>3, InvokeType
  <2> QED
    BY <2>1, <1>1, AcceptBounds, RetractType DEF Entered
<1>10. /\ Scanned(c) \in Seq(Chars) /\ Len(Scanned(c)) = n + 1
       /\ \A i \in 1 .. n : Scanned(c)[i] = lexeme[i]
       /\ Scanned(c)[n + 1] = c
  BY <1>3, ScannedType
<1> HIDE DEF n, r, t, y, k
<1>11. covered' = covered + l /\ l \in 1 .. Len(r) /\ l <= n + 1
  BY <1>1, <1>3, <1>8, <1>9, <1>10 DEF Match
<1>12. \A i \in 1 .. n + 1 : Scanned(c)[i] = r[i]
  <2> SUFFICES ASSUME NEW i \in 1 .. n + 1 PROVE Scanned(c)[i] = r[i]
    OBVIOUS
  <2>1. CASE i \in 1 .. n
    <3>1. lexeme[i] = src[covered + i]
      BY <2>1, <1>4 DEF ExactLexeme, n
    <3>2. i \in 1 .. Len(src) - covered
      BY <2>1, <1>3, <1>5, <1>6
    <3> QED
      BY <3>1, <3>2, <2>1, <1>6, <1>10
  <2>2. CASE i = n + 1
    BY <2>2, <1>7, <1>10
  <2> QED
    BY <2>1, <2>2, <1>3
<1>13. lex = Promise!Take(r, l)
  <2>1. lex = SubSeq(Scanned(c), 1, l)
    <3>1. Kept(c, k) = SubSeq(Scanned(c), 1, Len(Scanned(c)) - k)
      BY DEF Kept
    <3>2. Len(Scanned(c)) - k = l
      BY <1>3, <1>9, <1>10
    <3> QED
      BY <3>1, <3>2, Zenon
  <2>2. l \in Nat /\ l <= Len(Scanned(c)) /\ l <= Len(r) /\ \A i \in 1 .. l : Scanned(c)[i] = r[i]
    BY <1>3, <1>10, <1>11, <1>12
  <2> HIDE DEF lex, l
  <2> QED
    BY <2>1, <2>2, <1>5, <1>10, SamePrefix
<1>14. lex \in Seq(Chars) /\ Len(lex) = l
  <2>1. l \in 0 .. Len(r)
    BY <1>11
  <2> HIDE DEF lex, l
  <2> QED
    BY <2>1, <1>5, <1>13, TakeFacts
<1>15. startLine = LineOf(src, covered)
  <2>1. 1 \in 1 .. l /\ 1 \in 1 .. Len(src) - covered
    BY <1>6, <1>11
  <2>2. r[1] # "nl" /\ r[1] = src[covered + 1]
    BY <2>1, <1>6, <1>8 DEF Match
  <2> QED
    BY <2>2, <1>4 DEF StartLine
<1>16. (t = IdentifierState <=> y = "ID") /\ y # "ERROR"
  BY <1>9, NoErrorToken DEF y, IdentifierState
<1> DEFINE long == t = IdentifierState /\ Len(lex) > MaxLexeme
           type == IF t = IdentifierState /\ ~long THEN Lookup(lex) ELSE y
           tok  == Token(type, lex, startLine)
<1>17. Return(tok, IF long THEN out \o Errors(<<lex>>, currentLine') ELSE out)
  BY DEF AcceptToken, Entered, y, k, t
<1>18. long <=> y = "ID" /\ l > MaxLexeme
  BY <1>14, <1>16
<1>19. tok \in Tokens /\ tok.type = type /\ type # "ERROR"
  <2>1. type \in TokenTypes
    BY SMTT(60), <1>1, <1>9, TokenOfType DEF Lookup, TokenTypes, TokenTable, y
  <2>2. type # "ERROR"
    BY <1>16 DEF Lookup
  <2> HIDE DEF type, lex
  <2> QED
    BY <2>1, <2>2, <1>3, <1>14, TokenType
<1>20. \E p, z :
         /\ Match(r, p, z) /\ covered' = covered + p
         /\ IF z = "ID" /\ p > MaxLexeme
            THEN ErrorsIn(out') # {} /\ Before(out') = Before(out)
            ELSE /\ ErrorsIn(out') = {}
                 /\ Before(out') = Append(Before(out),
                      Token(IF z = "ID" THEN Lookup(Promise!Take(r, p)) ELSE z,
                            Promise!Take(r, p), LineOf(src, covered)))
  <2>1. CASE long
    <3>1. <<lex>> \in Seq(Seq(Chars)) /\ <<lex>> # <<>>
      BY <1>14
    <3>2. currentLine' \in Nat
      BY <1>1, <1>2, TakeCharStep
    <3>3. ErrorsIn(out') # {} /\ Before(out') = Before(out)
      <4> HIDE DEF tok, lex, long, type
      <4> QED
        BY <2>1, <3>1, <3>2, <1>2, <1>3, <1>17, <1>19, LogToken
    <3> HIDE DEF l
    <3> QED
      BY <2>1, <3>3, <1>8, <1>11, <1>18
  <2>2. CASE ~long
    <3>1. ErrorsIn(out') = {} /\ Before(out') = Append(Before(out), tok)
      <4> HIDE DEF tok, lex, long, type
      <4> QED
        BY <2>2, <1>2, <1>3, <1>17, <1>19, LogToken
    <3>2. tok = Token(IF y = "ID" THEN Lookup(Promise!Take(r, l)) ELSE y,
                      Promise!Take(r, l), LineOf(src, covered))
      <4> HIDE DEF lex, l, long
      <4> QED
        BY <2>2, <1>13, <1>15, <1>16, Zenon
    <3> HIDE DEF l, tok
    <3> QED
      BY <2>2, <3>1, <3>2, <1>8, <1>11, <1>18
  <2> QED
    BY <2>1, <2>2
<1>21. ExactInv'
  <2>1. CASE ErrorsIn(out') # {}
    BY <2>1 DEF ExactInv, ErrorsIn
  <2>2. CASE ErrorsIn(out') = {}
    <3>1. pc' = "call"
      BY <1>2, <1>17 DEF Return
    <3>2. SourceAhead' /\ LineCounted'
      <4>1. CASE k \in {0, 1}
        <5>1. k = 0 => forward' = forward + 1
          BY <1>1, <1>3
        <5>2. k = 1 => forward' = forward
          BY <1>1, <1>3
        <5> QED
          BY <4>1, <5>1, <5>2, <1>1, <1>7, PointerMoved DEF n, r
      <4>2. CASE k = 2
        <5>1. Entered(c) = 8
          BY <4>2, <1>9 DEF t, Entered
        <5>2. state = 5 /\ c = "."
          BY <4>2, <1>3, <1>9, InvokeInto DEF t
        <5>3. forward >= 1
          BY <5>1, <1>1, RangeInBuffer
        <5>4. forward' = forward - 1
          BY <4>2, <1>1, <1>3
        <5>5. n >= 2 /\ lexeme[n] = "."
          BY <5>2, <1>2 DEF ScanInv, LexemeOfState, PlainInv, LexemeIsSource, n
        <5>6. src[base + forward] = "."
          <6>1. n \in 1 .. Len(lexeme)
            BY <5>5, <1>3 DEF n
          <6>2. lexeme[n] = src[covered + n]
            BY <6>1, <1>4 DEF ExactLexeme
          <6> QED
            BY <6>2, <5>5, <1>2
        <5>7. src[base + forward + 1] = "."
          BY <5>2, <1>5, <1>7
        <5> QED
          BY <5>2, <5>3, <5>4, <5>6, <5>7, <1>1, PointerMoved
      <4> QED
        BY <4>1, <4>2, <1>9
    <3>3. WordsWhole'
      <4> SUFFICES ASSUME covered' < Len(src), src[covered'] \in Letter
                   PROVE  src[covered' + 1] \notin WordChar
        BY <1>1 DEF WordsWhole
      <4>1. l < Len(r) /\ l \in 1 .. Len(src) - covered /\ l + 1 \in 1 .. Len(src) - covered
        BY <1>3, <1>6, <1>11
      <4>2. covered + (l + 1) = covered' + 1 /\ covered + l = covered'
        BY <1>3, <1>11
      <4>3. r[l] = src[covered'] /\ r[l + 1] = src[covered' + 1]
        BY <4>1, <4>2, <1>6
      <4> HIDE DEF l
      <4> QED
        BY <4>1, <4>3, <1>8 DEF Match
    <3>4. eofFrames' = 0 /\ Live'
      BY <1>1, <1>2 DEF Live
    <3> QED
      BY <3>1, <3>2, <3>3, <3>4, ExactBetween
  <2> QED
    BY <2>1, <2>2
<1> QED
  BY <1>20, <1>21 DEF r

(* A blank or a comment.                                                    *)
LEMMA ExactDrop ==
  ASSUME AllPlain, ScanInv, PlainInv, ExactInv, CoveredInv, Clean, NEW c \in Chars, DropLexeme(c)
  PROVE  /\ ExactInv' /\ out' = out
         /\ \E m \in 1 .. Len(Promise!Rest) :
              /\ covered' = covered + m
              /\ \/ m = 1 /\ Promise!Rest[1] \in Blank
                 \/ \A x \in 1 .. Len(Promise!Rest) : Comment(Promise!Rest, x) <=> x = m
<1> DEFINE n == Len(lexeme)
           r == Promise!Rest
           t == Invoke[state][c]
<1>1. /\ TakeChar(c) /\ t \in Accepting /\ TokenOf[t] = "INVALID"
      /\ forward' = forward + 1 - RetractBy(t)
      /\ covered' = covered + Len(Scanned(c)) - RetractBy(t) /\ out' = out /\ pc' = "call"
      /\ UNCHANGED <<src, filePos, base, bufferNumber, returnedDollar, fileOpen, eofFrames, startLine>>
  BY DEF DropLexeme, Accept, Entered, fileVars
<1>2. /\ Live /\ Scanning /\ TypeOK /\ eofFrames = 0 /\ base + forward = covered + n
      /\ forward \in 0 .. filePos - base - 1
  BY <1>1, TakeCharPlain DEF ScanInv
<1>3. /\ src \in Seq(Chars) /\ Len(src) \in Nat /\ covered \in 0 .. Len(src) /\ n \in Nat
      /\ state \in States /\ lexeme \in Seq(Chars) /\ base \in Nat /\ forward \in Nat
  <2>1. filePos \in 0 .. Len(src) /\ base \in 0 .. Len(src) /\ Len(src) \in Nat
    BY <1>2, SourceFacts
  <2>2. filePos \in Nat /\ base \in Nat
    BY <2>1
  <2>3. forward \in Nat
    BY <1>2, <2>2
  <2> QED
    BY <1>2, <2>1, <2>2, <2>3, SourceFacts DEF TypeOK, CoveredInv
<1>4. /\ r \in Seq(Chars) /\ n < Len(r) /\ ReadSoFar(state, r, n)
      /\ r[n + 1] = src[base + forward + 1]
  BY <1>1, ReadsChar
<1>5. /\ Len(r) = Len(src) - covered /\ \A i \in 1 .. Len(src) - covered : r[i] = src[covered + i]
  BY <1>3, RestFacts
<1>6. Len(Scanned(c)) = n + 1
  BY <1>3, ScannedType
<1>7. /\ RetractBy(t) = 0
      /\ \/ n = 0 /\ r[1] \in Blank
         \/ r[n + 1] = "*" /\ \A m \in 1 .. Len(r) : Comment(r, m) <=> m = n + 1
  <2>1. CASE c = r[n + 1]
    <3>1. Follows(r, n, c) /\ n \in 0 .. Len(r)
      BY <2>1, <1>3, <1>4 DEF Follows
    <3> HIDE DEF n, r
    <3> QED
      BY <3>1, <1>1, <1>3, <1>4, ReadsDropped
  <2>2. CASE n = 0 /\ state = 0 /\ c \in Blank /\ r[1] = "nl"
    <3>1. Invoke[0][c] = 47
      BY <2>2, RowStart
    <3>2. RetractBy(47) = 0
      BY DEF RetractBy, RetractOne, RetractTwo
    <3> QED
      BY <2>2, <3>1, <3>2, ClassesApart
  <2>3. lexeme = <<>> => n = 0
    OBVIOUS
  <2> QED
    BY <2>1, <2>2, <2>3, <1>1, ReadsChar
<1> HIDE DEF n, r, t
<1>8. covered' = covered + (n + 1) /\ forward' = forward + 1 /\ n + 1 \in 1 .. Len(r)
  BY <1>1, <1>3, <1>4, <1>6, <1>7
<1>9. SourceAhead' /\ LineCounted'
  BY <1>1, <1>8, PointerMoved
<1>10. WordsWhole'
  <2>1. r[n + 1] = src[covered']
    BY <1>5, <1>8
  <2>2. r[n + 1] \notin Letter
    <3>1. n = 0 => n + 1 = 1
      OBVIOUS
    <3> QED
      BY <3>1, <1>7, ClassesApart DEF Marks
  <2> QED
    BY <2>1, <2>2, <1>1 DEF WordsWhole
<1>11. ExactInv'
  BY <1>1, <1>2, <1>9, <1>10, ExactBetween DEF Live
<1>12. \E m \in 1 .. Len(r) :
         /\ covered' = covered + m
         /\ (m = 1 /\ r[1] \in Blank) \/ \A x \in 1 .. Len(r) : Comment(r, x) <=> x = m
  <2>1. n = 0 => n + 1 = 1
    OBVIOUS
  <2> QED
    BY <2>1, <1>7, <1>8
<1> QED
  BY <1>1, <1>11, <1>12 DEF r

(* A lexical error.                                                         *)
LEMMA ExactError ==
  ASSUME AllPlain, ScanInv, PlainInv, ExactInv, CoveredInv, Clean, NEW c \in Chars, LexicalError(c)
  PROVE  Wrong(Promise!Rest) /\ ErrorsIn(out') # {} /\ Before(out') = Before(out)
<1> DEFINE text == IF InAlphabet(c) \/ lexeme = <<>> THEN <<>> ELSE <<lexeme>>
           rest == IF InAlphabet(c) THEN <<lexeme>> ELSE <<<<c>>>>
<1>1. /\ TakeChar(c) /\ Invoke[state][c] = 48
      /\ out' = out \o Errors(text \o rest, currentLine')
  BY DEF LexicalError, Entered, ErrorState
<1>2. /\ TypeOK /\ state \in States /\ lexeme \in Seq(Chars) /\ Len(lexeme) \in Nat
      /\ out \in Seq(Tokens) /\ currentLine' \in Nat
  <2>1. TypeOK
    BY DEF ScanInv
  <2> QED
    BY <2>1, <1>1, TakeCharStep DEF TypeOK
<1>3. Wrong(Promise!Rest)
  <2> DEFINE n == Len(lexeme)
             r == Promise!Rest
  <2>1. /\ r \in Seq(Chars) /\ n < Len(r) /\ ReadSoFar(state, r, n)
        /\ \A i \in 1 .. Len(r) : r[i] # "$"
    BY <1>1, ReadsChar
  <2>2. c = r[n + 1]
    <3>1. c \in Blank => Invoke[0][c] = 47
      BY RowStart
    <3>2. ~(state = 0 /\ c \in Blank)
      BY <3>1, <1>1
    <3> QED
      BY <3>2, <1>1, ReadsChar
  <2>3. Follows(r, n, c) /\ n \in 0 .. Len(r)
    BY <2>1, <2>2, <1>2 DEF Follows
  <2> HIDE DEF n, r
  <2>4. Wrong(r)
    BY <2>1, <2>3, <1>1, <1>2, ReadsError
  <2> QED
    BY <2>4 DEF r
<1>4. text \o rest \in Seq(Seq(Chars)) /\ text \o rest # <<>>
  <2>1. <<c>> \in Seq(Chars) /\ <<>> \in Seq(Seq(Chars))
    OBVIOUS
  <2>2. text \in Seq(Seq(Chars)) /\ rest \in Seq(Seq(Chars)) /\ Len(rest) = 1
    BY <2>1, <1>2
  <2> HIDE DEF text, rest
  <2>3. text \o rest \in Seq(Seq(Chars)) /\ Len(text \o rest) = Len(text) + Len(rest)
    BY <2>2, ConcatProperties
  <2>4. Len(text \o rest) # 0
    BY <2>2, <2>3
  <2> QED
    BY <2>3, <2>4
<1> HIDE DEF text, rest
<1> QED
  BY <1>1, <1>2, <1>3, <1>4, LogError

(* The end of the file: the lexeme is the rest of the source.               *)
LEMMA ExactEof ==
  ASSUME AllPlain, ScanInv, PlainInv, ExactInv, CoveredInv, Clean, AtEof
  PROVE  /\ Promise!Rest \in Seq(Chars) /\ Len(Promise!Rest) = Len(lexeme) /\ lexeme = Promise!Rest
         /\ covered + Len(lexeme) = Len(src) /\ covered \in Nat /\ eofFrames = 0
         /\ \A i \in 1 .. Len(Promise!Rest) : Promise!Rest[i] # "$" /\ Promise!Rest[i] = src[covered + i]
         /\ ReadSoFar(state, Promise!Rest, Len(lexeme)) /\ state \in States
         /\ currentLine = LineOf(src, Len(src)) /\ WordsWhole /\ currentLine \in Nat
         /\ lexeme = <<>> <=> state = 0
<1> DEFINE r == Promise!Rest
<1>1. /\ TypeOK /\ Live /\ Scanning /\ forward = 0
      /\ filePos = Len(src) /\ base = Len(src) /\ covered + Len(lexeme) = Len(src)
  BY AtEofPlain
<1>2. /\ src \in Seq(Chars) /\ Len(src) \in Nat /\ covered \in 0 .. Len(src) /\ Len(lexeme) \in Nat
      /\ lexeme \in Seq(Chars) /\ state \in States /\ covered \in Nat /\ currentLine \in Nat
      /\ \A i \in 1 .. Len(src) : src[i] # "$"
  BY <1>1, SourceFacts DEF CoveredInv, Sentinel
<1>3. /\ ExactLexeme /\ LineCounted /\ WordsWhole /\ eofFrames = 0
  BY <1>1 DEF ExactInv, Clean
<1>4. /\ r \in Seq(Chars) /\ Len(r) = Len(src) - covered
      /\ \A i \in 1 .. Len(src) - covered : r[i] = src[covered + i]
  BY <1>2, RestFacts
<1>5. Len(r) = Len(lexeme)
  BY <1>1, <1>2, <1>4
<1>6. lexeme = r
  <2>1. \A i \in 1 .. Len(lexeme) : lexeme[i] = r[i]
    <3> SUFFICES ASSUME NEW i \in 1 .. Len(lexeme) PROVE lexeme[i] = r[i]
      OBVIOUS
    <3>1. i \in 1 .. Len(src) - covered
      BY <1>1, <1>2
    <3> QED
      BY <3>1, <1>3, <1>4 DEF ExactLexeme
  <2> HIDE DEF r
  <2> QED
    BY <2>1, <1>2, <1>4, <1>5
<1>7. \A i \in 1 .. Len(r) : r[i] # "$" /\ r[i] = src[covered + i]
  <2> SUFFICES ASSUME NEW i \in 1 .. Len(r) PROVE r[i] # "$" /\ r[i] = src[covered + i]
    OBVIOUS
  <2>1. i \in 1 .. Len(src) - covered /\ covered + i \in 1 .. Len(src)
    BY <1>2, <1>4
  <2> QED
    BY <2>1, <1>2, <1>4
<1>8. currentLine = LineOf(src, Len(src))
  <2>1. ~Pending
    BY <1>1, <1>2 DEF Pending
  <2>2. base + forward = Len(src) /\ LineOf(src, Len(src)) \in Nat
    BY <1>1, <1>2, LineSteps
  <2> QED
    BY <2>1, <2>2, <1>3 DEF LineCounted
<1>9. lexeme = <<>> <=> state = 0
  BY <1>1 DEF ScanInv, LexemeOfState, Start
<1> QED
  BY <1>1, <1>2, <1>3, <1>4, <1>5, <1>6, <1>7, <1>8, <1>9 DEF ExactLexeme

(* The lexer is done, without an error.                                     *)
LEMMA ExactDone ==
  ASSUME ~Live', pc' \in {"call", "unwind", "crashed"}, eofFrames' = 0,
         currentLine' = LineOf(src, Len(src)), src' = src
  PROVE  ExactInv'
<1>1. LineOf(src, Len(src))' = LineOf(src', Len(src'))
  OBVIOUS
<1> QED
  BY <1>1 DEF ExactInv, Scanning

LEMMA ExactBegin ==
  ASSUME AllPlain, ScanInv, PlainInv, ExactInv, CoveredInv, Clean, BeginLexeme
  PROVE  ExactInv'
<1>1. /\ Live /\ pc = "call" /\ pc' = "scan" /\ state' = 0 /\ lexeme' = <<>> /\ startLine' = currentLine
      /\ UNCHANGED <<src, fileOpen, filePos, base, covered, buffers, bufferNumber, forward, currentLine,
                     returnedDollar, eofFrames, out>>
  BY DEF BeginLexeme, Live, Start, fileVars
<1>2. SourceAhead /\ LineCounted /\ WordsWhole /\ eofFrames = 0 /\ base + forward = covered
  BY <1>1 DEF ExactInv, Clean, PlainInv, LexemeIsSource
<1>3. TypeOK /\ 0 <= forward /\ base <= filePos
  BY <1>1 DEF ScanInv, PlainInv, BufferHoldsBlock
<1>4. /\ filePos \in 0 .. Len(src) /\ base \in 0 .. Len(src) /\ Len(src) \in Nat /\ forward \in Int
      /\ covered \in Nat
  BY <1>3, SourceFacts
<1>5. SourceAhead' /\ LineCounted' /\ WordsWhole' /\ eofFrames' = 0 /\ Live'
  BY <1>1, <1>2 DEF SourceAhead, LineCounted, WordsWhole, Pending, Live, LineOf
<1>6. StartLine'
  <2>1. CASE Pending
    <3>1. src[covered + 1] = "nl"
      BY <2>1, <1>2 DEF SourceAhead
    <3>2. covered < Len(src)
      BY <2>1, <1>2, <1>4 DEF Pending
    <3> QED
      BY <3>1, <3>2, <1>1 DEF StartLine
  <2>2. CASE ~Pending
    <3>1. LineOf(src, covered) \in Nat
      BY <1>4, LineSteps
    <3>2. currentLine = LineOf(src, covered)
      BY <2>2, <3>1, <1>2 DEF LineCounted
    <3> QED
      BY <3>2, <1>1 DEF StartLine, LineOf
  <2> QED
    BY <2>1, <2>2
<1>7. ExactLexeme'
  <2>1. Len(lexeme') = 0
    BY <1>1
  <2>2. ReadSoFar(state, Promise!Rest, Len(lexeme))'
    BY <2>1, <1>1 DEF ReadSoFar
  <2> QED
    BY <2>1, <2>2, <1>1 DEF ExactLexeme
<1> QED
  BY <1>5, <1>6, <1>7 DEF ExactInv

LEMMA ExactRefill ==
  ASSUME AllPlain, ScanInv, PlainInv, ExactInv, CoveredInv, Clean, Refill
  PROVE  ExactInv'
<1>1. /\ TypeOK /\ Live /\ Scanning /\ Reload /\ Sentinel \in NextChars /\ pc' = "refilled"
      /\ UNCHANGED <<src, fileOpen, covered, currentLine, returnedDollar, lexeme, state, startLine,
                     eofFrames, out>>
  BY DEF Refill, ScanInv, Calls, Scanning, scanVars
<1>2. /\ src \in Seq(Chars) /\ Len(src) \in Nat /\ filePos \in 0 .. Len(src) /\ base \in 0 .. Len(src)
  BY <1>1, SourceFacts
<1>3. PICK read \in 0 .. BufferSize - 1 :
        /\ filePos' = filePos + read /\ base' = filePos /\ forward' = 0
        /\ \A i \in 0 .. read - 1 : buffers'[bufferNumber'][i] = src[filePos + i + 1]
  BY <1>1, ReloadStep
<1>4. filePos \in Nat /\ read \in Nat /\ base \in Nat
  BY <1>2
<1>5. forward = filePos - base
  <2>1. /\ 0 <= forward /\ forward <= filePos - base /\ forward \in Int
        /\ \A i \in 0 .. filePos - base - 1 : buffers[bufferNumber][i] # Sentinel
    BY <1>1, SourceFacts DEF PlainInv, BufferHoldsBlock
  <2>2. buffers[bufferNumber][forward] = Sentinel
    BY <1>1, <2>1 DEF NextChars
  <2>3. forward \notin 0 .. filePos - base - 1
    BY <2>1, <2>2
  <2> QED
    BY <2>1, <2>3, <1>2
<1>6. LineCounted /\ WordsWhole /\ ExactLexeme /\ StartLine /\ eofFrames = 0
  BY <1>1 DEF ExactInv, Clean
<1>7. \A i \in 0 .. filePos' - base' - 1 : buffers'[bufferNumber'][i] = src[base' + i + 1]
  <2>1. filePos' - base' = read
    BY <1>3, <1>4
  <2> QED
    BY <2>1, <1>3
<1>8. ~Pending'
  <2>1. 0 < filePos' - base' => 0 \in 0 .. filePos' - base' - 1
    BY <1>3, <1>4
  <2>2. Pending' <=> forward' < filePos' - base' /\ buffers'[bufferNumber'][forward'] # src[base' + forward' + 1]
    BY <1>1 DEF Pending
  <2> QED
    BY <2>1, <2>2, <1>3, <1>7
<1>9. SourceAhead'
  <2>1. /\ \A i \in 0 .. filePos' - base' - 1 :
             i > forward' => buffers'[bufferNumber'][i] = src'[base' + i + 1]
    BY <1>1, <1>7
  <2> QED
    BY <2>1, <1>8 DEF SourceAhead
<1>10. LineCounted'
  <2>1. ~Pending
    BY <1>4, <1>5 DEF Pending
  <2>2. base + forward = filePos /\ base' + forward' = filePos
    BY <1>3, <1>4, <1>5
  <2>3. LineOf(src, filePos) \in Nat
    BY <1>4, LineSteps
  <2>4. currentLine = LineOf(src, filePos)
    BY <2>1, <2>2, <2>3, <1>6 DEF LineCounted
  <2>5. LineOf(src, base + forward)' = LineOf(src, filePos)
    BY <2>2, <1>1
  <2> QED
    BY <2>3, <2>4, <2>5, <1>1, <1>8 DEF LineCounted
<1>11. WordsWhole' /\ StartLine'
  BY <1>1, <1>6 DEF WordsWhole, StartLine, LineOf
<1>12. ExactLexeme'
  <2>1. ReadSoFar(state, Promise!Rest, Len(lexeme))'
    <3>1. Promise!Rest' = Promise!Rest
      BY <1>1 DEF Promise!Rest, Promise!Drop
    <3> QED
      BY <3>1, <1>1, <1>6 DEF ExactLexeme, ReadSoFar
  <2> QED
    BY <2>1, <1>1, <1>6, <1>8 DEF ExactLexeme
<1> QED
  BY <1>1, <1>6, <1>9, <1>10, <1>11, <1>12 DEF ExactInv, Live

-----------------------------------------------------------------------------
(* The steps, as steps of TokenStream.                                      *)
LEMMA Mapped ==
  /\ ErrorAt = ErrorsIn(out) /\ Delivered = Before(out)
  /\ (ErrorAt # {})' <=> ErrorsIn(out') # {}
  /\ Delivered' = Before(out')
  /\ \A p : Promise!Line(p) = LineOf(src, p)
<1>1. ErrorAt = ErrorsIn(out) /\ ErrorAt' = ErrorsIn(out')
  BY DEF ErrorAt, ErrorsIn
<1>2. Delivered = Before(out)
  BY <1>1 DEF Delivered, Before
<1>3. Delivered' = Before(out')
  BY <1>1 DEF Delivered, Before
<1>4. \A p : Promise!Line(p) = LineOf(src, p)
  <2>1. \A S : Promise!Cardinality(S) = Cardinality(S)
    BY Zenon DEF Promise!Cardinality, Cardinality
  <2> QED
    BY <2>1, Zenon DEF Promise!Line, LineOf
<1> QED
  BY <1>1, <1>2, <1>3, <1>4

LEMMA TokenImplemented ==
  ASSUME src \in Seq(Chars), covered \in 0 .. Len(src), Clean, src' = src,
         NEW l, NEW y, Match(Promise!Rest, l, y), covered' = covered + l,
         IF y = "ID" /\ l > MaxLexeme
         THEN ErrorsIn(out') # {} /\ Before(out') = Before(out)
         ELSE /\ ErrorsIn(out') = {}
              /\ Before(out') = Append(Before(out),
                   Token(IF y = "ID" THEN Lookup(Promise!Take(Promise!Rest, l)) ELSE y,
                         Promise!Take(Promise!Rest, l), LineOf(src, covered)))
  PROVE  Promise!TSNext
<1>1. /\ Promise!Prefixes(Promise!IsLexeme) # {} /\ Promise!Longest = l
      /\ ~Promise!InComment /\ ~Promise!BadNumber
      /\ Promise!TooLong <=> y = "ID" /\ l > MaxLexeme
      /\ Promise!NextWord = Promise!Take(Promise!Rest, l)
      /\ Promise!TypeOf(Promise!NextWord) = IF y = "ID" THEN Lookup(Promise!NextWord) ELSE y
  BY MatchDelivers
<1>2. ~(ErrorAt # {})
  BY Mapped DEF Clean
<1>3. CASE y = "ID" /\ l > MaxLexeme
  <2>1. (ErrorAt # {})' /\ Delivered' = Delivered
    BY <1>3, Mapped
  <2>2. l \in 1 .. Len(Promise!Rest) /\ Len(Promise!Rest) = Len(src) - covered
    BY RestFacts DEF Match
  <2>3. covered' \in covered .. Len(src)
    BY <2>2
  <2>4. Promise!Rest # <<>>
    BY <2>2
  <2>5. Promise!Fail
    BY <1>1, <1>2, <1>3, <2>1, <2>3, <2>4 DEF Promise!Fail
  <2> QED
    BY <2>5 DEF Promise!TSNext
<1>4. CASE ~(y = "ID" /\ l > MaxLexeme)
  <2>1. ~(ErrorAt # {})'
    BY <1>4, Mapped
  <2>2. Delivered' = Append(Delivered,
          [type |-> Promise!TypeOf(Promise!NextWord), lexeme |-> Promise!NextWord,
           line |-> Promise!Line(covered)])
    <3>1. Before(out') = Append(Before(out),
            Token(IF y = "ID" THEN Lookup(Promise!Take(Promise!Rest, l)) ELSE y,
                  Promise!Take(Promise!Rest, l), LineOf(src, covered)))
      BY <1>4
    <3>2. Token(IF y = "ID" THEN Lookup(Promise!Take(Promise!Rest, l)) ELSE y,
                Promise!Take(Promise!Rest, l), LineOf(src, covered))
          = [type |-> Promise!TypeOf(Promise!NextWord), lexeme |-> Promise!NextWord,
             line |-> Promise!Line(covered)]
      BY <1>1, Mapped DEF Token
    <3> QED
      BY <3>1, <3>2, Mapped
  <2>3. Promise!Deliver
    BY <1>1, <1>2, <1>4, <2>1, <2>2 DEF Promise!Deliver
  <2> QED
    BY <2>3 DEF Promise!TSNext
<1> QED
  BY <1>3, <1>4

LEMMA ErrorImplemented ==
  ASSUME src \in Seq(Chars), covered \in 0 .. Len(src), Clean, src' = src,
         Wrong(Promise!Rest), Promise!Rest # <<>>, covered' \in covered .. Len(src),
         ErrorsIn(out') # {}, Before(out') = Before(out)
  PROVE  Promise!TSNext
<1>1. \/ Promise!BadNumber \/ Promise!HalfClosed
      \/ /\ ~Promise!InComment /\ Promise!Rest[1] \notin Blank
         /\ Promise!Prefixes(Promise!IsLexeme) = {}
  BY WrongFails
<1>2. ~(ErrorAt # {}) /\ (ErrorAt # {})' /\ Delivered' = Delivered
  BY Mapped DEF Clean
<1>3. Promise!Fail
  BY <1>1, <1>2 DEF Promise!Fail
<1> QED
  BY <1>3 DEF Promise!TSNext

LEMMA DropImplemented ==
  ASSUME src \in Seq(Chars), covered \in 0 .. Len(src), Clean, src' = src, out' = out,
         NEW m \in 1 .. Len(Promise!Rest), covered' = covered + m,
         \/ m = 1 /\ Promise!Rest[1] \in Blank
         \/ \A x \in 1 .. Len(Promise!Rest) : Comment(Promise!Rest, x) <=> x = m
  PROVE  Promise!TSNext
<1>1. ~(ErrorAt # {}) /\ ~(ErrorAt # {})' /\ Delivered' = Delivered
  BY Mapped DEF Clean
<1>2. CASE m = 1 /\ Promise!Rest[1] \in Blank
  <2>1. Promise!Rest # <<>>
    <3>1. Promise!Rest \in Seq(Chars)
      BY RestFacts
    <3> QED
      BY <3>1
  <2>2. Promise!DropBlank
    BY <1>1, <1>2, <2>1 DEF Promise!DropBlank
  <2> QED
    BY <2>2 DEF Promise!TSNext
<1>3. CASE \A x \in 1 .. Len(Promise!Rest) : Comment(Promise!Rest, x) <=> x = m
  <2> DEFINE S == Promise!Prefixes(Promise!IsComment)
  <2>1. S = { x \in 1 .. Len(Promise!Rest) : Comment(Promise!Rest, x) }
    BY CommentPrefixes
  <2>2. S = {m}
    BY <2>1, <1>3
  <2> HIDE DEF S
  <2>3. Promise!Max(S) = m
    <3>1. S \in SUBSET Int /\ m \in S /\ \A x \in S : x <= m
      BY <2>2
    <3> QED
      BY <3>1, MaxOf
  <2>4. S # {} /\ covered' = covered + Promise!Max(S)
    BY <2>2, <2>3
  <2>5. Promise!DropComment
    BY <1>1, <2>4 DEF Promise!DropComment, S
  <2> QED
    BY <2>5 DEF Promise!TSNext
<1> QED
  BY <1>2, <1>3

LEMMA EndImplemented ==
  ASSUME src \in Seq(Chars), covered \in 0 .. Len(src), Clean, src' = src, covered' = Len(src),
         out \in Seq(Tokens), NoDollarIn(out),
         Promise!Rest = <<>> \/ (Unclosed(Promise!Rest) /\
            ~(Len(Promise!Rest) >= 3 /\ Promise!Rest[Len(Promise!Rest)] = "*")),
         ErrorsIn(out') = {}, Before(out') = Append(Before(out), Dollar(LineOf(src, Len(src))))
  PROVE  Promise!TSNext
<1>1. ~(ErrorAt # {}) /\ ~(ErrorAt # {})' /\ Delivered = out
  BY Mapped DEF Clean, Before
<1>2. Delivered' = Append(Delivered, [type |-> "DOLLAR", lexeme |-> <<"$">>,
                                      line |-> Promise!Line(Len(src))])
  BY Mapped DEF Dollar, Token
<1>3. Delivered = <<>> \/ Delivered[Len(Delivered)].type # "DOLLAR"
  <2>1. out # <<>> => Len(out) \in 1 .. Len(out)
    OBVIOUS
  <2> QED
    BY <1>1, <2>1 DEF NoDollarIn
<1>4. \/ Promise!Rest = <<>> /\ (Delivered = <<>> \/ Delivered[Len(Delivered)].type # "DOLLAR")
      \/ Promise!InComment /\ Promise!Prefixes(Promise!IsComment) = {} /\ ~Promise!HalfClosed
  BY <1>3, CommentRest
<1>5. Promise!End
  BY <1>1, <1>2, <1>4 DEF Promise!End
<1> QED
  BY <1>5 DEF Promise!TSNext

(* After an error anything is allowed.                                      *)
LEMMA RecoverImplemented ==
  ASSUME ErrorsIn(out) # {}, src' = src, covered' \in covered .. Len(src),
         NEW s \in Seq(Tokens), out \in Seq(Tokens), out' = out \o s
  PROVE  Promise!TSNext
<1>1. ErrorsIn(out') # {} /\ Before(out') = Before(out)
  BY AfterError
<1>2. ErrorAt # {} /\ (ErrorAt # {})' /\ Delivered' = Delivered
  BY <1>1, Mapped
<1>3. Promise!Recover
  BY <1>2 DEF Promise!Recover
<1> QED
  BY <1>3 DEF Promise!TSNext

-----------------------------------------------------------------------------
(* The end of the file.                                                     *)
LEMMA LetterClasses ==
  /\ Alpha \cup {"_"} = Letter
  /\ Alpha \cup Digit \cup {"_"} = WordChar
<1>1. \A c : c \in Alpha \cup Digit \cup {"_"} <=> c \in WordChar
  BY Zenon DEF WordChar, Letter
<1>2. Alpha \cup Digit \cup {"_"} = WordChar
  BY <1>1, Zenon
<1>3. Alpha \cup {"_"} = Letter
  BY DEF Letter
<1> QED
  BY <1>2, <1>3

(* A word that the file ends in does not have exactly the limit's length.   *)
LEMMA NotAtLimit ==
  ASSUME src \in Seq(Chars), covered \in 0 .. Len(src), NEW n \in Nat, n >= 1, covered + n = Len(src),
         ~EndsAtLimit(src), WordsWhole, Word(Promise!Rest, n)
  PROVE  n # MaxLexeme
<1> SUFFICES ASSUME n = MaxLexeme PROVE FALSE
  OBVIOUS
<1>1. Len(src) \in Nat /\ Len(src) - MaxLexeme = covered /\ Len(src) >= MaxLexeme
      /\ (Len(src) > MaxLexeme => 0 < covered) /\ covered < Len(src)
  OBVIOUS
<1>2. \A i \in 1 .. n : Promise!Rest[i] = src[covered + i]
  BY RestFacts
<1>3. \A i \in covered + 1 .. Len(src) : src[i] \in WordChar
  <2> SUFFICES ASSUME NEW i \in covered + 1 .. Len(src) PROVE src[i] \in WordChar
    OBVIOUS
  <2>1. i - covered \in 1 .. n /\ covered + (i - covered) = i
    OBVIOUS
  <2> QED
    BY <2>1, <1>2 DEF Word
<1>4. src[covered + 1] \in Letter
  BY <1>2 DEF Word
<1>5. Len(src) > MaxLexeme => src[covered] \notin Letter
  BY <1>1, <1>3 DEF WordsWhole
<1>6. EndsAtLimit(src) <=>
        /\ Len(src) >= MaxLexeme
        /\ src[Len(src) - MaxLexeme + 1] \in Letter
        /\ \A i \in Len(src) - MaxLexeme + 1 .. Len(src) : src[i] \in WordChar
        /\ Len(src) > MaxLexeme => src[Len(src) - MaxLexeme] \notin Letter
  BY LetterClasses, Zenon DEF EndsAtLimit
<1> QED
  BY <1>1, <1>3, <1>4, <1>5, <1>6

LEMMA DollarLogged ==
  ASSUME out \in Seq(Tokens), Clean, eofFrames = 0, currentLine \in Nat, Return(Dollar(currentLine), out)
  PROVE  ErrorsIn(out') = {} /\ pc' = "call" /\ Before(out') = Append(Before(out), Dollar(currentLine))
<1>1. Dollar(currentLine) \in Tokens /\ Dollar(currentLine).type = "DOLLAR"
  BY DollarType
<1> QED
  BY <1>1, LogToken

LEMMA ExactEofToken ==
  ASSUME AllPlain, ScanInv, PlainInv, ExactInv, CoveredInv, Clean, ~EndsAtLimit(src), EofToken
  PROVE  ExactInv' /\ Promise!TSNext
<1> DEFINE r == Promise!Rest
           n == Len(lexeme)
           q == Invoke[state]["$"]
           y == TokenOf[q]
<1>1. AtEof /\ state # 0 /\ q # 48 /\ y # "INVALID"
  BY DEF EofToken, Start, ErrorState, Sentinel
<1>2. /\ r \in Seq(Chars) /\ Len(r) = n /\ lexeme = r
      /\ covered + n = Len(src) /\ covered \in Nat /\ eofFrames = 0
      /\ \A i \in 1 .. Len(r) : r[i] # "$" /\ r[i] = src[covered + i]
      /\ ReadSoFar(state, r, n) /\ state \in States
      /\ currentLine = LineOf(src, Len(src)) /\ WordsWhole /\ currentLine \in Nat
      /\ lexeme = <<>> <=> state = 0
  BY <1>1, ExactEof
<1>3. /\ src \in Seq(Chars) /\ Len(src) \in Nat /\ lexeme \in Seq(Chars) /\ n \in Nat
      /\ out \in Seq(Tokens) /\ covered \in 0 .. Len(src)
  BY SourcesAssumption DEF ScanInv, TypeOK, CoveredInv
<1>4. n >= 1
  BY <1>1, <1>2, <1>3
<1>5. q \in Accepting /\ RetractBy(q) = 1 /\ q \in States
  <2>1. ReadSoFar(state, r, Len(r)) /\ Len(r) >= 1
    BY <1>2, <1>4
  <2>2. q \in States
    BY <1>2, CharTypes, InvokeType DEF Sentinel
  <2> HIDE DEF r, n
  <2> QED
    BY <2>1, <2>2, <1>1, <1>2, ReadsEnd
<1>6. Match(r, n, y)
  <2>1. "$" \in Chars
    BY CharTypes DEF Sentinel
  <2>2. Follows(r, n, "$") /\ n \in 0 .. Len(r)
    BY <1>2, <1>3, <1>4 DEF Follows
  <2> HIDE DEF r, n
  <2>3. Match(r, n + 1 - RetractBy(q), TokenOf[q])
    BY <2>1, <2>2, <1>1, <1>2, <1>5, ReadsToken
  <2>4. n + 1 - RetractBy(q) = n
    BY <1>3, <1>5
  <2> QED
    BY <2>3, <2>4
<1>7. currentLine = LineOf(src, covered)
  <2>1. \A i \in 1 .. n : src[covered + i] # "nl"
    BY <1>2, <1>6 DEF Match
  <2> HIDE DEF n
  <2>2. LineOf(src, covered + n) = LineOf(src, covered)
    BY <2>1, <1>2, <1>3, SameLine
  <2> QED
    BY <2>2, <1>2
<1>8. lexeme = Promise!Take(r, n)
  <2>1. SubSeq(lexeme, 1, n) = lexeme
    BY <1>3
  <2> QED
    BY <2>1, <1>2 DEF Promise!Take
<1>9. (q = IdentifierState <=> y = "ID") /\ y # "ERROR"
  BY <1>5, NoErrorToken DEF IdentifierState
<1>10. y = "ID" => n # MaxLexeme
  <2>1. y = "ID" => Word(r, n)
    <3>1. \A x : SignOf(r, x, "ID") => FALSE
      BY DEF SignOf, OneSign, TwoSign, ThreeSign
    <3> QED
      BY <3>1, <1>6 DEF Match, Kind
  <2> QED
    BY <2>1, <1>2, <1>3, <1>4, NotAtLimit
<1> DEFINE long == q = IdentifierState /\ Len(lexeme) >= MaxLexeme
           type == IF q = IdentifierState /\ ~long THEN Lookup(lexeme) ELSE y
           tok  == Token(type, lexeme, currentLine)
<1>11. /\ covered' = covered + n /\ fileOpen' = FALSE /\ src' = src /\ currentLine' = currentLine
       /\ eofFrames' = eofFrames
       /\ Return(tok, IF long THEN out \o Errors(<<lexeme>>, currentLine) ELSE out)
  BY DEF EofToken, Sentinel
<1>12. long <=> y = "ID" /\ n > MaxLexeme
  BY <1>3, <1>9, <1>10, LexemeAssumption
<1>13. tok \in Tokens /\ tok.type = type /\ type # "ERROR"
  <2>1. type \in TokenTypes
    BY SMTT(30), <1>1, <1>5, TokenOfType DEF Lookup, TokenTypes, TokenTable
  <2>2. type # "ERROR"
    BY <1>9 DEF Lookup
  <2> HIDE DEF type
  <2> QED
    BY <2>1, <2>2, <1>2, <1>3, TokenType
<1> HIDE DEF r, n, q, y
<1>14. IF y = "ID" /\ n > MaxLexeme
       THEN ErrorsIn(out') # {} /\ Before(out') = Before(out)
       ELSE /\ ErrorsIn(out') = {}
            /\ Before(out') = Append(Before(out),
                 Token(IF y = "ID" THEN Lookup(Promise!Take(r, n)) ELSE y,
                       Promise!Take(r, n), LineOf(src, covered)))
  <2>1. CASE long
    <3>1. <<lexeme>> \in Seq(Seq(Chars)) /\ <<lexeme>> # <<>>
      BY <1>3
    <3>2. ErrorsIn(out') # {} /\ Before(out') = Before(out)
      <4> HIDE DEF tok, long, type
      <4> QED
        BY <2>1, <3>1, <1>2, <1>3, <1>11, <1>13, LogToken
    <3> QED
      BY <2>1, <3>2, <1>12
  <2>2. CASE ~long
    <3>1. ErrorsIn(out') = {} /\ Before(out') = Append(Before(out), tok)
      <4> HIDE DEF tok, long, type
      <4> QED
        BY <2>2, <1>2, <1>3, <1>11, <1>13, LogToken
    <3>2. tok = Token(IF y = "ID" THEN Lookup(Promise!Take(r, n)) ELSE y,
                      Promise!Take(r, n), LineOf(src, covered))
      <4>1. type = IF y = "ID" THEN Lookup(Promise!Take(r, n)) ELSE y
        <5> HIDE DEF long
        <5> QED
          BY <2>2, <1>8, <1>9, Zenon
      <4> HIDE DEF type, long
      <4>2. tok = Token(IF y = "ID" THEN Lookup(Promise!Take(r, n)) ELSE y, lexeme, LineOf(src, covered))
        BY <4>1, <1>7
      <4> QED
        BY <4>2, <1>8
    <3> HIDE DEF tok
    <3> QED
      BY <2>2, <3>1, <3>2, <1>12
  <2> QED
    BY <2>1, <2>2
<1>15. Promise!TSNext
  BY <1>3, <1>6, <1>11, <1>14, TokenImplemented DEF r
<1>16. ExactInv'
  <2>1. pc' = "call" /\ ~Live'
    BY <1>2, <1>11 DEF Return, Live
  <2> QED
    BY <2>1, <1>2, <1>11, ExactDone
<1> QED
  BY <1>15, <1>16

LEMMA ExactEofDrop ==
  ASSUME AllPlain, ScanInv, PlainInv, ExactInv, CoveredInv, Clean, EofDrop \/ EofAtStart
  PROVE  ExactInv' /\ Promise!TSNext
<1> DEFINE r == Promise!Rest
<1>1. /\ AtEof /\ Return(Dollar(currentLine), out) /\ returnedDollar' = TRUE
      /\ UNCHANGED <<src, currentLine, eofFrames>>
  BY DEF EofDrop, EofAtStart, fileVars
<1>2. /\ r \in Seq(Chars) /\ Len(r) = Len(lexeme) /\ lexeme = r
      /\ covered + Len(lexeme) = Len(src) /\ covered \in Nat /\ eofFrames = 0
      /\ ReadSoFar(state, r, Len(lexeme)) /\ state \in States
      /\ currentLine = LineOf(src, Len(src)) /\ currentLine \in Nat
      /\ lexeme = <<>> <=> state = 0
  BY <1>1, ExactEof
<1>3. /\ src \in Seq(Chars) /\ Len(src) \in Nat /\ lexeme \in Seq(Chars) /\ Len(lexeme) \in Nat
      /\ out \in Seq(Tokens) /\ covered \in 0 .. Len(src) /\ NoDollarIn(out)
  BY <1>1, AtEofStep, SourcesAssumption DEF ScanInv, TypeOK, CoveredInv
<1>4. /\ covered' = Len(src)
      /\ r = <<>> \/ (Unclosed(r) /\ ~(Len(r) >= 3 /\ r[Len(r)] = "*"))
  <2>1. CASE EofAtStart
    <3>1. lexeme = <<>> /\ covered' = covered
      BY <2>1, <1>2 DEF EofAtStart, Start
    <3>2. Len(lexeme) = 0
      BY <3>1
    <3> QED
      BY <3>1, <3>2, <1>2, <1>3
  <2>2. CASE EofDrop
    <3>1. /\ state # 0 /\ Invoke[state]["$"] # 48 /\ TokenOf[Invoke[state]["$"]] = "INVALID"
          /\ covered' = covered + Len(lexeme)
      BY <2>2 DEF EofDrop, Start, ErrorState, Sentinel
    <3>2. ReadSoFar(state, r, Len(r)) /\ Len(r) >= 1
      BY <3>1, <1>2, <1>3
    <3> HIDE DEF r
    <3> QED
      BY <3>1, <3>2, <1>2, <1>3, ReadsEnd
  <2> QED
    BY <2>1, <2>2
<1>5. /\ ErrorsIn(out') = {} /\ pc' = "call"
      /\ Before(out') = Append(Before(out), Dollar(LineOf(src, Len(src))))
  BY <1>1, <1>2, <1>3, DollarLogged
<1>6. Promise!TSNext
  BY <1>1, <1>3, <1>4, <1>5, EndImplemented
<1>7. ExactInv'
  BY <1>1, <1>2, <1>5, ExactDone DEF Live
<1> QED
  BY <1>6, <1>7

LEMMA ExactReturnDollar ==
  ASSUME AllPlain, ScanInv, PlainInv, ExactInv, CoveredInv, Clean, ReturnDollar
  PROVE  ExactInv' /\ Promise!TSNext
<1>1. /\ ~Live /\ ~returnedDollar /\ Return(Dollar(currentLine), out) /\ returnedDollar' = TRUE
      /\ UNCHANGED <<src, covered, currentLine, eofFrames>>
  BY DEF ReturnDollar, Live, fileVars
<1>2. /\ src \in Seq(Chars) /\ Len(src) \in Nat /\ out \in Seq(Tokens) /\ NoDollarIn(out)
      /\ covered = Len(src) /\ currentLine \in Nat
  BY <1>1, SourcesAssumption DEF ScanInv, TypeOK, DollarAtEnd, PlainInv, AllRead
<1>3. eofFrames = 0 /\ currentLine = LineOf(src, Len(src))
  BY <1>1 DEF ExactInv, Clean
<1>4. Promise!Rest = <<>>
  <2>1. covered \in 0 .. Len(src)
    BY <1>2
  <2>2. Promise!Rest \in Seq(Chars) /\ Len(Promise!Rest) = 0
    BY <2>1, <1>2, RestFacts
  <2> QED
    BY <2>2
<1>5. /\ ErrorsIn(out') = {} /\ pc' = "call"
      /\ Before(out') = Append(Before(out), Dollar(LineOf(src, Len(src))))
  BY <1>1, <1>2, <1>3, DollarLogged
<1>6. Promise!TSNext
  BY <1>1, <1>2, <1>4, <1>5, EndImplemented
<1>7. ExactInv'
  BY <1>1, <1>3, <1>5, ExactDone DEF Live
<1> QED
  BY <1>6, <1>7

LEMMA ExactEofError ==
  ASSUME AllPlain, ScanInv, PlainInv, ExactInv, CoveredInv, Clean, EofError
  PROVE  ExactInv' /\ Promise!TSNext
<1> DEFINE r == Promise!Rest
           n == Len(lexeme)
<1>1. /\ AtEof /\ state # 0 /\ Invoke[state]["$"] = 48 /\ covered' = covered + n
      /\ out' = out \o Errors(<<lexeme>>, currentLine) /\ src' = src
  BY DEF EofError, Start, ErrorState, Sentinel, fileVars
<1>2. /\ r \in Seq(Chars) /\ Len(r) = n /\ lexeme = r
      /\ covered + n = Len(src) /\ covered \in Nat
      /\ \A i \in 1 .. Len(r) : r[i] # "$"
      /\ ReadSoFar(state, r, n) /\ state \in States /\ currentLine \in Nat
      /\ lexeme = <<>> <=> state = 0
  BY <1>1, ExactEof
<1>3. /\ src \in Seq(Chars) /\ Len(src) \in Nat /\ lexeme \in Seq(Chars) /\ n \in Nat
      /\ out \in Seq(Tokens) /\ covered \in 0 .. Len(src)
  BY SourcesAssumption DEF ScanInv, TypeOK, CoveredInv
<1>4. n >= 1
  BY <1>1, <1>2, <1>3
<1>5. Wrong(r)
  <2>1. "$" \in Chars
    BY CharTypes DEF Sentinel
  <2>2. Follows(r, n, "$") /\ n \in 0 .. Len(r)
    BY <1>2, <1>3, <1>4 DEF Follows
  <2> HIDE DEF r, n
  <2> QED
    BY <2>1, <2>2, <1>1, <1>2, ReadsError
<1>6. ErrorsIn(out') # {} /\ Before(out') = Before(out)
  <2>1. <<lexeme>> \in Seq(Seq(Chars)) /\ <<lexeme>> # <<>>
    BY <1>3
  <2> QED
    BY ZenonT(40), <2>1, <1>1, <1>2, <1>3, LogError
<1>7. Promise!TSNext
  <2>1. covered' \in covered .. Len(src)
    BY <1>1, <1>2, <1>3
  <2>2. r # <<>>
    BY <1>2, <1>4
  <2> QED
    BY <2>1, <2>2, <1>1, <1>3, <1>5, <1>6, ErrorImplemented
<1>8. ExactInv'
  BY <1>6 DEF ExactInv, ErrorsIn
<1> QED
  BY <1>7, <1>8

-----------------------------------------------------------------------------
(* Every step of the scan.                                                  *)
LEMMA CoveredFits == ASSUME AllPlain PROVE ScanInv /\ PlainInv => CoveredInv
<1> SUFFICES ASSUME ScanInv, PlainInv PROVE covered <= Len(src)
  BY DEF CoveredInv
<1>1. /\ TypeOK /\ pc \in {"call", "scan", "refilled", "unwind", "crashed"}
      /\ Len(src) \in Nat /\ covered \in Nat /\ Len(lexeme) \in Nat /\ forward \in Int
  <2>1. TypeOK
    BY DEF ScanInv
  <2> QED
    BY <2>1, SourceFacts DEF TypeOK
<1>2. filePos \in 0 .. Len(src) /\ base \in 0 .. Len(src)
  BY <1>1, SourceFacts
<1>3. CASE eofFrames > 0 \/ ~Live
  BY <1>1, <1>3 DEF PlainInv, AllRead
<1>4. CASE Live /\ ~(eofFrames > 0)
  <2>1. forward <= filePos - base
    BY <1>4 DEF PlainInv, BufferHoldsBlock
  <2>2. CASE Scanning
    <3>1. base + forward = covered + Len(lexeme)
      BY <1>4, <2>2 DEF PlainInv, LexemeIsSource
    <3> QED
      BY <3>1, <2>1, <1>1, <1>2
  <2>3. CASE ~Scanning
    <3>1. pc = "call"
      BY <1>1, <1>4, <2>3 DEF Scanning, ScanInv, Calls
    <3>2. base + forward = covered
      BY <1>4, <3>1 DEF PlainInv, LexemeIsSource
    <3> QED
      BY <3>2, <2>1, <1>1, <1>2
  <2> QED
    BY <2>2, <2>3
<1> QED
  BY <1>3, <1>4

(* The lexemes never give back what was covered, and the file is the same.  *)
LEMMA CoveredGrows ==
  ASSUME AllPlain, ScanInv, [Next]_vars
  PROVE  src' = src /\ covered' >= covered /\ covered' \in Nat
<1>1. covered \in Nat /\ Len(lexeme) \in Nat /\ lexeme \in Seq(Chars)
  BY DEF ScanInv, TypeOK
<1>2. CASE ReturnDollar \/ BeginLexeme \/ Refill \/ EofAtStart \/ Unwind \/ UNCHANGED vars
  <2>1. UNCHANGED <<src, covered>>
    BY <1>2 DEF ReturnDollar, BeginLexeme, Refill, EofAtStart, Unwind, vars, fileVars
  <2> QED
    BY <2>1, <1>1
<1>3. CASE EofError \/ EofToken \/ EofDrop
  BY <1>1, <1>3 DEF EofError, EofToken, EofDrop, fileVars
<1>4. ASSUME NEW c \in Chars, ReadOn(c)
      PROVE  src' = src /\ covered' >= covered /\ covered' \in Nat
  BY <1>1, <1>4 DEF ReadOn, fileVars
<1>5. ASSUME NEW c \in Chars, AcceptToken(c) \/ DropLexeme(c)
      PROVE  src' = src /\ covered' >= covered /\ covered' \in Nat
  <2> DEFINE r == RetractBy(Entered(c))
  <2>1. TakeChar(c) /\ Entered(c) \in Accepting /\ src' = src
        /\ covered' = covered + Len(Scanned(c)) - r
    BY <1>5 DEF AcceptToken, DropLexeme, Accept, fileVars
  <2>2. r \in 0 .. 2 /\ r <= Len(lexeme) + 1
    BY <2>1, AcceptBounds
  <2>3. Len(Scanned(c)) = Len(lexeme) + 1
    BY <1>1, ScannedType
  <2> HIDE DEF r
  <2> QED
    BY <1>1, <2>1, <2>2, <2>3
<1>6. ASSUME NEW c \in Chars, LexicalError(c)
      PROVE  src' = src /\ covered' >= covered /\ covered' \in Nat
  <2>1. src' = src /\ covered' = covered + Len(Scanned(c)) - (IF InAlphabet(c) THEN 1 ELSE 0)
    BY <1>6 DEF LexicalError, fileVars
  <2>2. Len(Scanned(c)) = Len(lexeme) + 1
    BY <1>1, ScannedType
  <2> QED
    BY <1>1, <2>1, <2>2
<1> QED
  BY <1>2, <1>3, <1>4, <1>5, <1>6 DEF Next

(* The log is only appended to.                                             *)
Grows == \E s \in Seq(Tokens) : out' = out \o s

LEMMA GrowsByNothing == ASSUME out \in Seq(Tokens), out' = out PROVE Grows
<1>1. <<>> \in Seq(Tokens) /\ out \o <<>> = out
  OBVIOUS
<1> QED
  BY <1>1 DEF Grows

LEMMA GrowsByErrors ==
  ASSUME out \in Seq(Tokens), NEW lexs \in Seq(Seq(Chars)), NEW line \in Nat,
         out' = out \o Errors(lexs, line)
  PROVE  Grows
BY ErrorsType DEF Grows

LEMMA GrowsByToken ==
  ASSUME out \in Seq(Tokens), NEW e \in Seq(Tokens), NEW tok \in Tokens, Return(tok, out \o e)
  PROVE  Grows
<1>1. e \o <<tok>> \in Seq(Tokens) /\ out \o (e \o <<tok>>) = (out \o e) \o <<tok>>
  OBVIOUS
<1>2. out' = (out \o e) \o <<tok>> \/ out' = out \o e
  BY DEF Return
<1> QED
  BY <1>1, <1>2 DEF Grows

LEMMA GrowsByDollar ==
  ASSUME out \in Seq(Tokens), currentLine \in Nat, Return(Dollar(currentLine), out)
  PROVE  Grows
<1>1. <<>> \in Seq(Tokens) /\ out \o <<>> = out
  OBVIOUS
<1> QED
  BY <1>1, DollarType, GrowsByToken

LEMMA OutGrows ==
  ASSUME ScanInv, [Next]_vars
  PROVE  Grows
<1>1. TypeOK /\ out \in Seq(Tokens) /\ currentLine \in Nat /\ lexeme \in Seq(Chars)
  BY DEF ScanInv, TypeOK
<1>2. CASE BeginLexeme \/ Refill \/ UNCHANGED vars
  <2>1. out' = out
    BY <1>2 DEF BeginLexeme, Refill, vars
  <2> QED
    BY <1>1, <2>1, GrowsByNothing
<1>3. CASE ReturnDollar \/ EofAtStart \/ EofDrop
  <2>1. Return(Dollar(currentLine), out)
    BY <1>3 DEF ReturnDollar, EofAtStart, EofDrop
  <2> QED
    BY <1>1, <2>1, GrowsByDollar
<1>4. CASE Unwind
  <2>1. out' = out \/ out' = Append(out, Dollar(currentLine))
    BY <1>4 DEF Unwind
  <2>2. /\ <<Dollar(currentLine)>> \in Seq(Tokens)
        /\ Append(out, Dollar(currentLine)) = out \o <<Dollar(currentLine)>>
    BY <1>1, DollarType
  <2> QED
    BY <1>1, <2>1, <2>2, GrowsByNothing DEF Grows
<1>5. CASE EofError
  <2>1. out' = out \o Errors(<<lexeme>>, currentLine)
    BY <1>5 DEF EofError
  <2>2. <<lexeme>> \in Seq(Seq(Chars))
    BY <1>1
  <2> QED
    BY <1>1, <2>1, <2>2, GrowsByErrors
<1>6. CASE EofToken
  <2> DEFINE q    == Invoke[state][Sentinel]
             long == q = IdentifierState /\ Len(lexeme) >= MaxLexeme
             type == IF q = IdentifierState /\ ~long THEN Lookup(lexeme) ELSE TokenOf[q]
             log  == IF long THEN out \o Errors(<<lexeme>>, currentLine) ELSE out
             e    == IF long THEN Errors(<<lexeme>>, currentLine) ELSE <<>>
  <2>1. AtEof /\ TokenOf[q] # "INVALID" /\ Return(Token(type, lexeme, currentLine), log)
    BY <1>6 DEF EofToken
  <2>2. q \in States /\ Errors(<<lexeme>>, currentLine) \in Seq(Tokens)
    BY <2>1, AtEofStep
  <2>3. type \in TokenTypes
    BY <2>1, <2>2, TokenOfType DEF Lookup, TokenTypes, TokenTable
  <2>4. e \in Seq(Tokens) /\ log = out \o e
    BY <1>1, <2>2
  <2> HIDE DEF type, log, e
  <2>5. Token(type, lexeme, currentLine) \in Tokens
    BY <1>1, <2>3, TokenType
  <2> QED
    BY <1>1, <2>1, <2>4, <2>5, GrowsByToken
<1>7. ASSUME NEW c \in Chars, ReadOn(c) \/ DropLexeme(c)
      PROVE  Grows
  <2>1. out' = out
    BY <1>7 DEF ReadOn, DropLexeme
  <2> QED
    BY <1>1, <2>1, GrowsByNothing
<1>8. ASSUME NEW c \in Chars, AcceptToken(c)
      PROVE  Grows
  <2> DEFINE lex  == Kept(c, RetractBy(Entered(c)))
             long == Entered(c) = IdentifierState /\ Len(lex) > MaxLexeme
             type == IF Entered(c) = IdentifierState /\ ~long THEN Lookup(lex)
                     ELSE TokenOf[Entered(c)]
             log  == IF long THEN out \o Errors(<<lex>>, currentLine') ELSE out
             e    == IF long THEN Errors(<<lex>>, currentLine') ELSE <<>>
  <2>1. Accept(c) /\ TokenOf[Entered(c)] # "INVALID" /\ Return(Token(type, lex, startLine), log)
    BY <1>8 DEF AcceptToken
  <2>2. lex \in Seq(Chars) /\ currentLine' \in Nat /\ Entered(c) \in States /\ startLine \in Nat
    BY <1>1, <2>1, AcceptStep DEF TypeOK
  <2>3. type \in TokenTypes
    BY <2>1, <2>2, TokenOfType DEF Lookup, TokenTypes, TokenTable
  <2> HIDE DEF lex
  <2>4. e \in Seq(Tokens) /\ log = out \o e
    <3>1. <<lex>> \in Seq(Seq(Chars))
      BY <2>2
    <3>2. Errors(<<lex>>, currentLine') \in Seq(Tokens)
      BY <2>2, <3>1, ErrorsType
    <3> QED
      BY <1>1, <3>2
  <2> HIDE DEF type, log, e
  <2>5. Token(type, lex, startLine) \in Tokens
    BY <2>2, <2>3, TokenType
  <2> QED
    BY <1>1, <2>1, <2>4, <2>5, GrowsByToken
<1>9. ASSUME NEW c \in Chars, LexicalError(c)
      PROVE  Grows
  <2> DEFINE text == IF InAlphabet(c) \/ lexeme = <<>> THEN <<>> ELSE <<lexeme>>
             rest == IF InAlphabet(c) THEN <<lexeme>> ELSE <<<<c>>>>
  <2>1. TakeChar(c) /\ out' = out \o Errors(text \o rest, currentLine')
    BY <1>9 DEF LexicalError
  <2>2. currentLine' \in Nat
    BY <1>1, <2>1, TakeCharStep
  <2>3. text \o rest \in Seq(Seq(Chars))
    BY <1>1
  <2> HIDE DEF text, rest
  <2> QED
    BY <1>1, <2>1, <2>2, <2>3, GrowsByErrors
<1> QED
  BY <1>2, <1>3, <1>4, <1>5, <1>6, <1>7, <1>8, <1>9 DEF Next

(* A step that the promise does not see.                                    *)
LEMMA Unseen ==
  ASSUME UNCHANGED <<src, covered, out>>
  PROVE  UNCHANGED Promise!tsVars
<1>1. Delivered' = Delivered /\ (ErrorAt # {})' = (ErrorAt # {})
  BY DEF Delivered, ErrorAt
<1> QED
  BY <1>1 DEF Promise!tsVars

LEMMA ExactInit ==
  ASSUME AllPlain, Init
  PROVE  ExactInv /\ Promise!TSInit
<1>1. /\ src \in Seq(Chars) /\ Len(src) \in Nat /\ src \in Sources
      /\ filePos = 0 /\ base = 0 /\ covered = 0 /\ forward = 0 /\ currentLine = 1
      /\ pc = "call" /\ out = <<>> /\ eofFrames = 0 /\ Live
  BY SourcesAssumption DEF Init, Live
<1>2. ErrorsIn(out) = {}
  BY <1>1 DEF ErrorsIn
<1>3. SourceAhead /\ ~Pending
  BY <1>1 DEF SourceAhead, Pending
<1>4. LineOf(src, base + forward) = 1
  BY <1>1, LineAtStart
<1>5. ExactInv
  BY <1>1, <1>2, <1>3, <1>4 DEF ExactInv, LineCounted, WordsWhole, Scanning
<1>6. Promise!TSInit
  <2>1. ErrorAt = {} /\ Delivered = <<>>
    BY <1>1, <1>2, Mapped DEF Before
  <2> QED
    BY <1>1, <2>1 DEF Promise!TSInit
<1> QED
  BY <1>5, <1>6

(* After an error the promise asks for nothing but going on.                *)
LEMMA StepAfterError ==
  ASSUME AllPlain, ScanInv, CoveredInv', [Next]_vars, ~Clean
  PROVE  ExactInv' /\ Promise!TSNext
<1>1. src' = src /\ covered' >= covered /\ covered' \in Nat
  BY CoveredGrows
<1>2. covered' \in covered .. Len(src)
  <2>1. covered \in Nat /\ Len(src) \in Nat /\ covered' \in Int
    BY SourceFacts, CoveredGrows DEF ScanInv
  <2> QED
    BY <1>1, <2>1 DEF CoveredInv
<1>3. out \in Seq(Tokens)
  BY DEF ScanInv, TypeOK
<1>4. PICK s \in Seq(Tokens) : out' = out \o s
  BY OutGrows DEF Grows
<1>5. ErrorsIn(out) # {}
  BY DEF Clean
<1>6. ErrorsIn(out') # {}
  BY <1>3, <1>4, <1>5, AfterError
<1>7. ErrorsIn(out)' # {}
  BY <1>6 DEF ErrorsIn
<1>8. ExactInv'
  BY <1>7 DEF ExactInv
<1> QED
  BY <1>1, <1>2, <1>3, <1>4, <1>5, <1>8, RecoverImplemented

LEMMA ExactStutter ==
  ASSUME ExactInv, UNCHANGED vars
  PROVE  ExactInv'
<1>1. UNCHANGED <<src, fileOpen, filePos, base, covered, buffers, bufferNumber, forward, currentLine,
                  returnedDollar, state, lexeme, startLine, eofFrames, pc, out>>
  BY DEF vars, fileVars, scanVars
<1>2. Pending' = Pending /\ Live' = Live /\ Scanning' = Scanning
      /\ (ErrorsIn(out) = {})' = (ErrorsIn(out) = {})
  BY <1>1 DEF Pending, Live, Scanning
<1>3. SourceAhead' = SourceAhead
  BY <1>1, <1>2 DEF SourceAhead
<1>4. LineCounted' = LineCounted /\ WordsWhole' = WordsWhole /\ StartLine' = StartLine
      /\ (currentLine = LineOf(src, Len(src)))' = (currentLine = LineOf(src, Len(src)))
  BY <1>1, <1>2 DEF LineCounted, WordsWhole, StartLine
<1>5. ExactLexeme' = ExactLexeme
  <2>1. (Promise!Rest)' = Promise!Rest
    BY <1>1 DEF Promise!Rest
  <2>2. ReadSoFar(state, Promise!Rest, Len(lexeme))' = ReadSoFar(state, Promise!Rest, Len(lexeme))
    BY <1>1, <2>1
  <2> QED
    BY <1>1, <1>2, <2>2 DEF ExactLexeme
<1> QED
  BY <1>1, <1>2, <1>3, <1>4, <1>5 DEF ExactInv

(* Before an error every step is one of the promise's, or none.             *)
LEMMA StepBeforeError ==
  ASSUME AllPlain, ~EndsAtLimit(src), ScanInv, PlainInv, ExactInv, CoveredInv, CoveredInv',
         [Next]_vars, Clean
  PROVE  ExactInv' /\ [Promise!TSNext]_Promise!tsVars
<1>1. /\ src \in Seq(Chars) /\ Len(src) \in Nat /\ covered \in 0 .. Len(src)
      /\ src' = src /\ covered' \in covered .. Len(src)
  <2>1. /\ src \in Seq(Chars) /\ Len(src) \in Nat /\ covered \in Nat
        /\ src' = src /\ covered' >= covered /\ covered' \in Nat
    BY SourceFacts, CoveredGrows DEF ScanInv
  <2> QED
    BY <2>1 DEF CoveredInv
<1>2. CASE ReturnDollar
  BY <1>2, ExactReturnDollar
<1>3. CASE BeginLexeme
  <2>1. UNCHANGED <<src, covered, out>>
    BY <1>3 DEF BeginLexeme, fileVars
  <2> QED
    BY <1>3, <2>1, ExactBegin, Unseen
<1>4. CASE Refill
  <2>1. UNCHANGED <<src, covered, out>>
    BY <1>4 DEF Refill
  <2> QED
    BY <1>4, <2>1, ExactRefill, Unseen
<1>5. ASSUME NEW c \in Chars, ReadOn(c)
      PROVE  ExactInv' /\ [Promise!TSNext]_Promise!tsVars
  <2>1. UNCHANGED <<src, covered, out>>
    BY <1>5 DEF ReadOn, fileVars
  <2> QED
    BY <1>5, <2>1, ExactReadOn, Unseen
<1>6. ASSUME NEW c \in Chars, AcceptToken(c)
      PROVE  ExactInv' /\ Promise!TSNext
  <2>1. /\ ExactInv'
        /\ \E l, y :
             /\ Match(Promise!Rest, l, y) /\ covered' = covered + l
             /\ IF y = "ID" /\ l > MaxLexeme
                THEN ErrorsIn(out') # {} /\ Before(out') = Before(out)
                ELSE /\ ErrorsIn(out') = {}
                     /\ Before(out') = Append(Before(out),
                          Token(IF y = "ID" THEN Lookup(Promise!Take(Promise!Rest, l)) ELSE y,
                                Promise!Take(Promise!Rest, l), LineOf(src, covered)))
    BY <1>6, ExactToken
  <2> QED
    BY <1>1, <2>1, TokenImplemented
<1>7. ASSUME NEW c \in Chars, DropLexeme(c)
      PROVE  ExactInv' /\ Promise!TSNext
  <2>1. /\ ExactInv' /\ out' = out
        /\ \E m \in 1 .. Len(Promise!Rest) :
             /\ covered' = covered + m
             /\ \/ m = 1 /\ Promise!Rest[1] \in Blank
                \/ \A x \in 1 .. Len(Promise!Rest) : Comment(Promise!Rest, x) <=> x = m
    BY <1>7, ExactDrop
  <2> QED
    BY <1>1, <2>1, DropImplemented
<1>8. ASSUME NEW c \in Chars, LexicalError(c)
      PROVE  ExactInv' /\ Promise!TSNext
  <2>1. Wrong(Promise!Rest) /\ ErrorsIn(out') # {} /\ Before(out') = Before(out)
    BY <1>8, ExactError
  <2>2. Promise!Rest # <<>>
    <3>1. /\ Promise!Rest \in Seq(Chars) /\ Len(lexeme) < Len(Promise!Rest)
      BY <1>8, ReadsChar DEF LexicalError
    <3>2. Len(lexeme) \in Nat
      BY SourceFacts DEF ScanInv
    <3> QED
      BY <3>1, <3>2
  <2>3. ExactInv'
    <3>1. ErrorsIn(out)' # {}
      BY <2>1 DEF ErrorsIn
    <3> QED
      BY <3>1 DEF ExactInv
  <2> QED
    BY <1>1, <2>1, <2>2, <2>3, ErrorImplemented
<1>9. CASE EofDrop \/ EofAtStart
  BY <1>9, ExactEofDrop
<1>10. CASE EofError
  BY <1>10, ExactEofError
<1>11. CASE EofToken
  BY <1>11, ExactEofToken
<1>12. ~Unwind
  <2>1. eofFrames = 0
    BY DEF ExactInv, Clean
  <2> QED
    BY <2>1 DEF Unwind, ScanInv, Calls
<1>13. CASE UNCHANGED vars
  <2>1. UNCHANGED <<src, covered, out>>
    BY <1>13 DEF vars, fileVars
  <2>2. ExactInv'
    BY <1>13, ExactStutter
  <2> QED
    BY <2>1, <2>2, Unseen
<1> QED
  BY <1>2, <1>3, <1>4, <1>5, <1>6, <1>7, <1>8, <1>9, <1>10, <1>11, <1>12, <1>13 DEF Next

(* The tokens of a plain source are the longest matches of the lexical      *)
(* rules, each with the line it starts on, up to the first lexical error,   *)
(* and that error is one the rules ask for: get_next_token() implements     *)
(* TokenStream, whatever the buffers' size, the length limit and the        *)
(* keywords, on files that do not end in a word of exactly the limit.       *)
THEOREM ScannerImplementsTokenStream ==
  ASSUME AllPlain, \A s \in Sources : ~EndsAtLimit(s)
  PROVE  Spec => TokensAreLongestMatches
<1>1. Init => ExactInv /\ Promise!TSInit
  BY ExactInit
<1>2. ScanInv /\ PlainInv => CoveredInv
  BY CoveredFits
<1>3. ScanInv /\ PlainInv /\ ExactInv /\ CoveredInv /\ CoveredInv' /\ [Next]_vars
        => ExactInv' /\ [Promise!TSNext]_Promise!tsVars
  <2> SUFFICES ASSUME ScanInv, PlainInv, ExactInv, CoveredInv, CoveredInv', [Next]_vars
               PROVE  ExactInv' /\ [Promise!TSNext]_Promise!tsVars
    OBVIOUS
  <2>1. ~EndsAtLimit(src)
    BY DEF ScanInv, TypeOK
  <2> QED
    BY <2>1, StepBeforeError, StepAfterError
<1> QED
  BY <1>1, <1>2, <1>3, ScanInvariant, PlainInvariant, PTL
  DEF Spec, TokensAreLongestMatches, Promise!TSSpec
=============================================================================
