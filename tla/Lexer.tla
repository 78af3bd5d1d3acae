------------------------------- MODULE Lexer -------------------------------
(***************************************************************************)
(* The twin-buffer scanner of compiler/lexer/core/lexer.c.                 *)
(*                                                                         *)
(* The source file is read through two buffers of buffer_size bytes used   *)
(* in turn; the byte after the last one read is the sentinel "$".  Every   *)
(* get_next_token() runs the automaton from its start state and ends in a  *)
(* token, in a dropped lexeme (blank or comment), in a lexical error or at *)
(* the end of the file; a dropped lexeme and an error make a tail call of  *)
(* get_next_token(), so they lead back to "call".  The client calls until  *)
(* it has the DOLLAR token, as run_lexer_independently_on_and_print_to()   *)
(* and the parser do.                                                      *)
(*                                                                         *)
(* filePos, base and covered are offsets into the source: what fread() has *)
(* consumed, where the current buffer starts, and how much of the source   *)
(* is accounted for by finished lexemes.  base and covered are history     *)
(* variables, as is out, which logs the tokens returned and the errors     *)
(* reported.                                                               *)
(***************************************************************************)
EXTENDS Dfa, Integers, Sequences, FiniteSets

CONSTANTS
  Sources,     \* the source files considered
  BufferSize,  \* DEFAULT_LEXER_BUFFER_SIZE
  MaxLexeme,   \* MAX_LEXEME_LENGTH
  Keywords     \* the lexemes in the lexer's symbol table

ASSUME SourcesAssumption == Sources \subseteq Seq(Chars)
ASSUME BufferAssumption  == BufferSize \in Nat /\ BufferSize >= 2
ASSUME LexemeAssumption  == MaxLexeme \in Nat /\ MaxLexeme >= 1
ASSUME KeywordAssumption == \A w \in Keywords : w # <<>> /\ w \in Seq(Alpha \cup {"_"})

VARIABLES
  src,            \* the contents of the file
  fileOpen,       \* lexer->file # NULL
  filePos, base, covered,
  buffers,        \* buffer1 and buffer2
  bufferNumber,
  forward,
  currentLine,
  returnedDollar,
  currentToken,   \* lexer->current_token, what the parser's actions look at
  state,          \* dfa->current_state_id
  lexeme,
  allowed,        \* current_max_allowed
  capacity,       \* bytes allocated for the lexeme
  startLine,      \* started_at_line
  eofFrames,      \* handle_eof() frames that wait for their handle_error_state()
  pc,
  out

fileVars == <<src, fileOpen, filePos, base>>
scanVars == <<state, lexeme, allowed, capacity, startLine>>
vars == <<fileVars, covered, buffers, bufferNumber, forward, currentLine, returnedDollar,
          currentToken, scanVars, eofFrames, pc, out>>

Token(type, lex, line) == [type |-> type, lexeme |-> lex, line |-> line]
Dollar(line)  == Token("DOLLAR", <<"$">>, line)
Errors(lexs, line) == [i \in DOMAIN lexs |-> Token("ERROR", lexs[i], line)]
NoToken == Token("NONE", <<>>, 0)

Init ==
  /\ src \in Sources
  /\ fileOpen = TRUE /\ filePos = 0 /\ base = 0 /\ covered = 0
  /\ buffers = [b \in {1, 2} |-> [i \in 0 .. BufferSize - 1 |->
                                    IF i = 0 THEN Sentinel ELSE "NUL"]]
  /\ bufferNumber = 1 /\ forward = 0 /\ currentLine = 1
  /\ returnedDollar = FALSE /\ currentToken = NoToken
  /\ state = Start /\ lexeme = <<>> /\ allowed = MaxLexeme /\ capacity = MaxLexeme + 1
  /\ startLine = 1 /\ eofFrames = 0 /\ pc = "call" /\ out = <<>>

-----------------------------------------------------------------------------
(* get_next_token() returns tok: to the client, or to the handle_eof() that *)
(* called it through handle_error_state() and that drops it.                *)
Return(tok, log) ==
  IF eofFrames = 0
  THEN out' = log \o <<tok>> /\ pc' = "call"
  ELSE out' = log /\ pc' = "unwind"

(* The file is closed: the DOLLAR token, current_token not updated.        *)
ReturnDollar ==
  /\ pc = "call" /\ ~returnedDollar /\ ~fileOpen
  /\ returnedDollar' = TRUE
  /\ Return(Dollar(currentLine), out)
  /\ UNCHANGED <<fileVars, covered, buffers, bufferNumber, forward, currentLine,
                 currentToken, scanVars, eofFrames>>

(* Start on a lexeme.                                                      *)
BeginLexeme ==
  /\ pc = "call" /\ ~returnedDollar /\ fileOpen
  /\ state' = Start /\ lexeme' = <<>>
  /\ allowed' = MaxLexeme /\ capacity' = MaxLexeme + 1
  /\ startLine' = currentLine
  /\ pc' = "scan"
  /\ UNCHANGED <<fileVars, covered, buffers, bufferNumber, forward, currentLine,
                 returnedDollar, currentToken, eofFrames, out>>

-----------------------------------------------------------------------------
(* What lexer_buffer[lexer->forward] may be.  Below the buffer's start it  *)
(* is whatever byte precedes the allocation.                               *)
NextChars == IF forward >= 0 THEN {buffers[bufferNumber][forward]} ELSE Chars


(* reload_buffer_for(): switch buffers, read a block, append the sentinel. *)
Reload ==
  LET other == 3 - bufferNumber
      left  == Len(src) - filePos
      read  == IF left < BufferSize - 1 THEN left ELSE BufferSize - 1
  IN  /\ bufferNumber' = other
      /\ buffers' = [buffers EXCEPT ![other] = [i \in 0 .. BufferSize - 1 |->
                       IF i < read THEN src[filePos + i + 1]
                       ELSE IF i = read THEN Sentinel ELSE @[i]]]
      /\ filePos' = filePos + read
      /\ base' = filePos
      /\ forward' = 0

(* Mutant of Refill: it waits for the file to have more to read.           *)
RefillOnlyIfMore ==
  /\ pc = "scan" /\ Sentinel \in NextChars
  /\ filePos < Len(src)
  /\ Reload
  /\ pc' = "refilled"
  /\ UNCHANGED <<src, fileOpen, covered, currentLine, returnedDollar, currentToken,
                 scanVars, eofFrames, out>>

(* The sentinel inside a scan: go on in the other buffer.                  *)
Refill ==
  /\ pc = "scan" /\ Sentinel \in NextChars
  /\ Reload
  /\ pc' = "refilled"
  /\ UNCHANGED <<src, fileOpen, covered, currentLine, returnedDollar, currentToken,
                 scanVars, eofFrames, out>>

(* Mutant of TakeChar: the newline stays in the buffer.                    *)
TakeCharNoBlank(c) ==
  /\ pc \in {"scan", "refilled"} /\ c \in NextChars /\ c # Sentinel
  /\ UNCHANGED buffers
  /\ currentLine' = IF c = "nl" THEN currentLine + 1 ELSE currentLine

(* One character: a newline is counted and blanked in the buffer, so that  *)
(* reading it again after a retraction does not count it twice.            *)
TakeChar(c) ==
  /\ pc \in {"scan", "refilled"} /\ c \in NextChars /\ c # Sentinel
  /\ buffers' = IF c = "nl" /\ forward >= 0
                THEN [buffers EXCEPT ![bufferNumber][forward] = " "] ELSE buffers
  /\ currentLine' = IF c = "nl" THEN currentLine + 1 ELSE currentLine

Scanned(c)   == Append(lexeme, c)
Kept(c, n)   == SubSeq(Scanned(c), 1, Len(Scanned(c)) - n)
Entered(c)   == Invoke[state][c]

(* Mutant of GrowLexeme: grown one character too late.                     *)
GrowLexemeLate(c) ==
  IF Len(Scanned(c)) > allowed
  THEN allowed' = 2 * allowed + 1 /\ capacity' = 2 * allowed + 1
  ELSE UNCHANGED <<allowed, capacity>>

(* The lexeme array is doubled when it is full.                            *)
GrowLexeme(c) ==
  IF Len(Scanned(c)) = allowed
  THEN allowed' = 2 * allowed + 1 /\ capacity' = 2 * allowed + 1
  ELSE UNCHANGED <<allowed, capacity>>

(* Neither an accepting state nor the error state: the loop goes on.       *)
ReadOn(c) ==
  /\ TakeChar(c)
  /\ Entered(c) \notin Accepting \cup {ErrorState}
  /\ forward' = forward + 1
  /\ lexeme' = Scanned(c) /\ GrowLexeme(c)
  /\ state' = Entered(c)
  /\ pc' = "scan"
  /\ UNCHANGED <<fileVars, covered, bufferNumber, returnedDollar, currentToken, startLine,
                 eofFrames, out>>

(* handle_accept(), common part: retract and cut the lexeme.               *)
Accept(c) ==
  LET retract == RetractBy(Entered(c))
  IN  /\ TakeChar(c)
      /\ Entered(c) \in Accepting
      /\ forward' = forward + 1 - retract
      /\ lexeme' = Kept(c, retract) /\ GrowLexeme(c)
      /\ state' = Entered(c)
      /\ covered' = covered + Len(Scanned(c)) - retract
      /\ UNCHANGED <<fileVars, bufferNumber, returnedDollar, startLine, eofFrames>>

(* An identifier is looked up among the keywords.                          *)
Lookup(lex) == IF lex \in Keywords THEN "KEYWORD" ELSE "ID"

(* handle_accept(): a token.  An identifier that is too long is reported   *)
(* and returned without the keyword lookup.                                *)
AcceptToken(c) ==
  LET lex  == Kept(c, RetractBy(Entered(c)))
      long == Entered(c) = IdentifierState /\ Len(lex) > MaxLexeme
      type == IF Entered(c) = IdentifierState /\ ~long THEN Lookup(lex)
              ELSE TokenOf[Entered(c)]
      log  == IF long THEN out \o Errors(<<lex>>, currentLine') ELSE out
  IN  /\ Accept(c)
      /\ TokenOf[Entered(c)] # "INVALID"
      /\ currentToken' = Token(type, lex, startLine)
      /\ Return(Token(type, lex, startLine), log)

(* handle_accept(): a blank or a comment, and get_next_token() again.      *)
DropLexeme(c) ==
  /\ Accept(c)
  /\ TokenOf[Entered(c)] = "INVALID"
  /\ pc' = "call"
  /\ UNCHANGED <<currentToken, out>>

(* Mutant of LexicalError: the character is never given back.              *)
LexicalErrorNoRetract(c) ==
  /\ TakeChar(c)
  /\ Entered(c) = ErrorState
  /\ forward' = forward + 1
  /\ lexeme' = Kept(c, 1) /\ GrowLexeme(c)
  /\ state' = ErrorState
  /\ covered' = covered + Len(Scanned(c)) - (IF InAlphabet(c) THEN 1 ELSE 0)
  /\ out' = out \o Errors(<<lexeme>>, currentLine')
  /\ pc' = "call"
  /\ UNCHANGED <<fileVars, bufferNumber, returnedDollar, currentToken, startLine,
                 eofFrames>>

(* handle_error_state(): a character of the alphabet is given back, any    *)
(* other is dropped; get_next_token() again.                               *)
LexicalError(c) ==
  LET back == IF InAlphabet(c) THEN 1 ELSE 0
      text == IF InAlphabet(c) \/ lexeme = <<>> THEN <<>> ELSE <<lexeme>>
      rest == IF InAlphabet(c) THEN <<lexeme>> ELSE <<<<c>>>>
  IN  /\ TakeChar(c)
      /\ Entered(c) = ErrorState
      /\ forward' = forward + 1 - back
      /\ lexeme' = Kept(c, 1) /\ GrowLexeme(c)
      /\ state' = ErrorState
      /\ covered' = covered + Len(Scanned(c)) - back
      /\ out' = out \o Errors(text \o rest, currentLine')
      /\ pc' = "call"
      /\ UNCHANGED <<fileVars, bufferNumber, returnedDollar, currentToken, startLine,
                     eofFrames>>

-----------------------------------------------------------------------------
(* Mutant of AtEof: any sentinel is the end of the file.                   *)
AtAnySentinel == pc \in {"scan", "refilled"} /\ Sentinel \in NextChars

(* handle_eof(): the sentinel is the first byte of a buffer just filled.   *)
AtEof == pc = "refilled" /\ Sentinel \in NextChars

(* Mutant of EofAtStart: returned_dollar_token is not set.                 *)
EofAtStartForgets ==
  /\ AtEof /\ state = Start
  /\ forward' = forward + 1
  /\ currentToken' = Dollar(currentLine)
  /\ Return(Dollar(currentLine), out)
  /\ UNCHANGED <<fileVars, covered, buffers, bufferNumber, currentLine, returnedDollar,
                 scanVars, eofFrames>>

(* Nothing of a lexeme was read: DOLLAR, and the file stays open.          *)
EofAtStart ==
  /\ AtEof /\ state = Start
  /\ forward' = forward + 1
  /\ returnedDollar' = TRUE
  /\ currentToken' = Dollar(currentLine)
  /\ Return(Dollar(currentLine), out)
  /\ UNCHANGED <<fileVars, covered, buffers, bufferNumber, currentLine, scanVars, eofFrames>>

(* The lexeme cannot end here: it is reported by handle_error_state(),     *)
(* which gives one character back, calls get_next_token() and drops what   *)
(* it returns.  The last character read is always one of the alphabet.     *)
EofError ==
  /\ AtEof /\ state # Start /\ Invoke[state][Sentinel] = ErrorState
  /\ UNCHANGED forward
  /\ covered' = covered + Len(lexeme)
  /\ out' = out \o Errors(<<lexeme>>, currentLine)
  /\ state' = ErrorState
  /\ eofFrames' = eofFrames + 1
  /\ pc' = "call"
  /\ UNCHANGED <<fileVars, buffers, bufferNumber, currentLine, returnedDollar, currentToken,
                 lexeme, allowed, capacity, startLine>>

(* Back in handle_eof() after EofError: the file is closed and DOLLAR      *)
(* returned.  A file closed by an inner frame makes fclose(NULL).          *)
Unwind ==
  /\ pc = "unwind"
  /\ IF fileOpen
     THEN /\ eofFrames' = eofFrames - 1
          /\ fileOpen' = FALSE /\ returnedDollar' = TRUE
          /\ currentToken' = Dollar(currentLine)
          /\ IF eofFrames = 1 THEN out' = Append(out, Dollar(currentLine)) /\ pc' = "call"
             ELSE UNCHANGED <<out, pc>>
     ELSE /\ pc' = "crashed"
          /\ UNCHANGED <<eofFrames, fileOpen, returnedDollar, currentToken, out>>
  /\ UNCHANGED <<src, filePos, base, covered, buffers, bufferNumber, forward, currentLine,
                 scanVars>>

(* The lexeme ends here: a token, dated with the current line.             *)
EofToken ==
  LET q    == Invoke[state][Sentinel]
      long == q = IdentifierState /\ Len(lexeme) >= MaxLexeme
      type == IF q = IdentifierState /\ ~long THEN Lookup(lexeme) ELSE TokenOf[q]
      log  == IF long THEN out \o Errors(<<lexeme>>, currentLine) ELSE out
  IN  /\ AtEof /\ state # Start
      /\ q # ErrorState /\ TokenOf[q] # "INVALID"
      /\ forward' = forward + 1
      /\ covered' = covered + Len(lexeme)
      /\ state' = q
      /\ fileOpen' = FALSE
      /\ currentToken' = Token(type, lexeme, currentLine)
      /\ Return(Token(type, lexeme, currentLine), log)
      /\ UNCHANGED <<src, filePos, base, buffers, bufferNumber, currentLine, returnedDollar,
                     lexeme, allowed, capacity, startLine, eofFrames>>

(* The file ends in a comment: it is dropped without a report, and the     *)
(* get_next_token() called next finds the file closed.                     *)
EofDrop ==
  LET q == Invoke[state][Sentinel]
  IN  /\ AtEof /\ state # Start
      /\ q # ErrorState /\ TokenOf[q] = "INVALID"
      /\ forward' = forward + 1
      /\ covered' = covered + Len(lexeme)
      /\ state' = q
      /\ fileOpen' = FALSE /\ returnedDollar' = TRUE
      /\ currentToken' = Dollar(currentLine)
      /\ Return(Dollar(currentLine), out)
      /\ UNCHANGED <<src, filePos, base, buffers, bufferNumber, currentLine,
                     lexeme, allowed, capacity, startLine, eofFrames>>

-----------------------------------------------------------------------------
(* The client has the DOLLAR token: it stops calling, and any further call *)
(* returns NULL and changes nothing.                                       *)
Finished == pc = "call" /\ returnedDollar

Next ==
  \/ ReturnDollar \/ BeginLexeme \/ Refill
  \/ \E c \in Chars : ReadOn(c) \/ AcceptToken(c) \/ DropLexeme(c) \/ LexicalError(c)
  \/ EofAtStart \/ EofError \/ Unwind \/ EofToken \/ EofDrop
  \/ Finished /\ UNCHANGED vars

(* The callers loop until they have DOLLAR and nothing else runs, so a     *)
(* step that can be taken is taken.                                        *)
Spec == Init /\ [][Next]_vars /\ WF_vars(Next)

-----------------------------------------------------------------------------
(* Properties.                                                             *)

Scanning   == pc \in {"scan", "refilled"}
TokenTypes == { r[2] : r \in TokenTable } \cup {"KEYWORD", "DOLLAR", "ERROR", "NONE"}
Tokens     == [type : TokenTypes, lexeme : Seq(Chars), line : Nat]

(* The type invariant; the scan pointer may stand one byte before the      *)
(* buffer (a retraction by two, just after a reload) but never past it.    *)
TypeOK ==
  /\ src \in Sources
  /\ fileOpen \in BOOLEAN /\ returnedDollar \in BOOLEAN
  /\ filePos \in 0 .. Len(src) /\ base \in 0 .. Len(src) /\ covered \in Nat
  /\ buffers \in [{1, 2} -> [0 .. BufferSize - 1 -> Chars]]
  /\ bufferNumber \in {1, 2}
  /\ forward \in -1 .. BufferSize
  /\ currentLine \in Nat /\ startLine \in Nat
  /\ state \in States /\ lexeme \in Seq(Chars)
  /\ allowed \in Nat /\ capacity \in Nat
  /\ eofFrames \in Nat
  /\ pc \in {"call", "scan", "refilled", "unwind", "crashed"}
  /\ currentToken \in Tokens /\ out \in Seq(Tokens)

(* What the properties below ask of a source: it has no byte "$", and no   *)
(* range right after a number has its two dots in different buffers.       *)
Straddles(s) == \E i \in 2 .. Len(s) - 1 :
  /\ s[i - 1] \in Digit /\ s[i] = "." /\ s[i + 1] = "."
  /\ i % (BufferSize - 1) = 0
Plain(s) == (\A i \in 1 .. Len(s) : s[i] # Sentinel) /\ ~Straddles(s)

(* Blanking a newline is the only change scanning makes to the source.     *)
Blanked(c) == IF c = "nl" THEN " " ELSE c
Same(c, d) == Blanked(c) = Blanked(d)

(* The lexemes cover the source without gap or overlap: get_next_token()   *)
(* starts where the last lexeme ended, and what it has read is the source  *)
(* from there on, across retractions and buffer switches.                  *)
LexemesCoverSource ==
  /\ pc = "call" /\ fileOpen /\ ~returnedDollar /\ eofFrames = 0 => base + forward = covered
  /\ Scanning /\ eofFrames = 0 =>
       /\ base + forward = covered + Len(lexeme)
       /\ base + forward <= Len(src)
       /\ \A i \in 1 .. Len(lexeme) : Same(lexeme[i], src[covered + i])

(* Every newline is either counted in current_line or still unread, never  *)
(* both, "irrespective of retraction".                                     *)
NewlinesIn(f, S) == Cardinality({i \in S : f[i] = "nl"})
Unread == { i \in 0 .. BufferSize - 1 : i >= forward /\ base + i < filePos }
EachNewlineCountedOnce ==
  (currentLine - 1) + NewlinesIn(buffers[bufferNumber], Unread)
    + NewlinesIn(src, filePos + 1 .. Len(src)) = NewlinesIn(src, 1 .. Len(src))

(* DOLLAR is the last token returned: once, at the end, and exactly when   *)
(* the lexer says so.                                                      *)
DollarIsLast ==
  /\ \A i \in 1 .. Len(out) : out[i].type = "DOLLAR" => i = Len(out)
  /\ (pc = "call" /\ eofFrames = 0) =>
       (returnedDollar <=> out # <<>> /\ out[Len(out)].type = "DOLLAR")

(* The lexeme array always has room for the next character, or for the     *)
(* zero that terminates it.                                                *)
LexemeFits == Scanning => Len(lexeme) < capacity

(* The end-of-file handling of the twin buffers drops nothing: the lexer   *)
(* returns DOLLAR only when the whole file was read and cut into lexemes.  *)
DollarMeansWholeFile == returnedDollar => filePos = Len(src) /\ covered = Len(src)

(* Every source is scanned to its end.                                     *)
ReachesDollar == <>Finished
=============================================================================
