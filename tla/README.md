# TLA+ models of the ERPLAG compiler

This directory holds TLA+ specifications of the compiler under `src/`, the TLC
configurations that check them on small instances, and proofs for TLAPS. Paths
below are relative to the repository's `src/`.

The compiler is a sequential C program. A driver (`main.c`, `main2.c`) reads
one source file and runs a lexer, a table-driven LL(1) parser that builds a
syntax tree as it goes, a pass that builds the scopes, a semantic analyzer, and
a code generator that prints NASM text. There are no threads and nothing is
persisted. What is hard to test in it is long sequences of small steps over
shared state: two buffers and a pointer into them, a table that grows while it
is being filled, fixpoints with a hand-made stop test, error recovery, and 85
semantic actions that talk to each other through one untyped stack.

## Inventory

| Part | Source | State | Operations | Module |
|---|---|---|---|---|
| Lexer | `compiler/lexer/core`, `constructor`, `dfa`, `files/lexer_files` | two buffers, which one is current, `forward`, the file position, the lexeme array and its capacity, the automaton state, the line, `current_token`, whether the file is closed | `get_next_token`, `handle_accept`, `handle_eof`, `handle_error_state`, buffer reload, automaton `invoke` | `Dfa`, `Lexer` |
| Hash table of a scope | `compiler/symbol_table/interface` | `records`, `size`, `capacity`, `prime_size_index` | `insert_in_symbol_table`, `search_in_symbol_table`, `grow_symbol_table` | `SymbolTable` |
| Grammar loader | `compiler/parser/grammar/grammar_populator`, `files/grammar_files/productions.txt` | the productions and the names of the symbols | `get_initialized_grammar` | `Grammar` |
| FIRST, FOLLOW, parse table | `compiler/parser/grammar/first_follow`, `core/parse_table` | one set per nonterminal, the sizes of the last pass, the table | `set_first_sets_for`, `set_follow_sets_for`, `get_parse_table_for` | `FirstFollow` |
| Parser driver | `compiler/parser/core/parse_tree`, `core/interface` | the stack of grammar symbols, the token, the line of the last error | `construct_parse_tree`, `handle_terminal_on_top`, `handle_non_terminal_on_top` | `Parser` |
| Semantic actions | `compiler/parser/core/ast` | the semantic stack of tree nodes | `execute_action_on_semantic_stack`, 85 actions | `Ast` |
| Scopes | `compiler/symbol_table/constructor` | a tree of tables with a parent, children and a running offset; `was_assigned` | one case per node kind | `Nodes`, `Scopes` |
| Semantic analyzer, type descriptors | `compiler/semantic_analyzer`, `symbol_table.c:414-495` | type descriptors in the nodes, the global table | one case per node kind; `get_function_call_type`; type equivalence | `Nodes`, `Semantics` |
| Code generator | `compiler/code_generator` | the label counter, temporaries per table, the output file | emission per node kind | `CodeGen`; `Machine` runs the output |
| Error reporter | `compiler/error_reporter` | `GOT_SEMANTIC_ERROR_GLOBAL` | `report_error` | the variable `errors` of `Scopes` |
| Drivers | `main.c`, `main2.c` | the choice from the menu | one request after another | `Compiler` (one request: report errors, or generate code) |
| Containers | `datastructures` | chained buckets, counters | add, remove, contains, grow, iterate | not modelled; sets, functions and sequences stand in |
| Utility | `utility` | none | file opening, string splitting, a comment remover no code calls | not modelled |

How they interact: the parser owns the lexer and *pulls* tokens
(`get_next_token`); semantic actions do not get the token from the parser but
read `lexer->current_token`, the lookahead, which the lexer set as a side
effect. The parser also makes a symbol table of its own, filled with the
keywords, in which the lexer looks up every identifier (`handle_accept`). The
parse table is made before, from sets that `first.c` and `follow.c` leave in the
grammar. The tree and a boolean (`got_syntax_error`) are what the scopes and
the analyzer get. The walks behind the parser talk to each other through the
tree: the first writes into each use of a name what it found and the table to
look in, the second writes types, the third looks some names up again and takes
others from the tree. They also share the tables, whose offsets the first
hands out and above whose ends the third puts its temporaries. Everything
reports through `report_error`, whose flag decides whether the third walk
happens.

What makes each part correct:

* *Lexer*: the tokens are the longest matches of the lexical rules over the
  file, whatever the position of the buffer boundary; no character is lost or
  read twice; lines are counted once per newline; `DOLLAR` comes once, last,
  and only at the end of the file; the scan pointer and the lexeme array stay
  in bounds.
* *Hash table*: it is a map; the probe loops end; growing keeps every entry.
* *FIRST, FOLLOW, table*: they are the ones the definitions give, whatever
  the order of the productions, and conflicts are noticed.
* *Parser*: a first error is real; recovery leaves a state it can go on from
  and always stops; errors come in order; nothing is dropped unreported; an
  accepted source has been read to its end.
* *Semantic actions*: each finds on the stack the nodes it casts them to; the
  tree holds the source and groups expressions by precedence.
* *Scopes*: an identifier resolves to the innermost declaration before it; a
  variable counts as assigned exactly if a statement assigns to it and not to
  another of its name; the storage of live variables does not overlap.
* *Analyzer*: what it accepts is legal, and it reports nothing in a legal
  program: types, switches, calls, bounds, counters and returned variables.
* *Code generator*: the output assembles (labels once, jumps to labels that
  exist); every module returns to its caller with the stack as it was; the frame
  is accessed only where space has been taken; what the program prints is what
  its source says.
* *Drivers*: a program with an error gets no code; a program that gets code
  comes to its end.

The places where these can go wrong are in `PROJECT.json` under `hazards`,
each at its line.

## Plan

1. Lexer, against `TokenStream`. **Done.**
2. The hash table, against `NameMap`, with proofs. **Done.**
3. The grammar as data; FIRST, FOLLOW and the table against `LL1`. **Done.**
4. Parser driver with the semantic actions, over the real grammar. **Done.**
5. `Scopes`: the symbol table constructor over small programs; offsets,
   resolution, `was_assigned`, duplicate names; with proofs. **Done.**
6. `Semantics`: types, calls, lists, switches, counters; composes with
   `Scopes`. **Done.**
7. `CodeGen` over `Machine`, a model of the processor and the C library for
   which the output is meant. **Done.**
8. `Compiler`: the walks one after the other, the error flag, the run of the
   program; with proofs. **Done.**
9. The menu of the drivers as a sequence of requests; the containers (growth
   and removal of the hash set). Left.

## Modules

### `Dfa`, `Lexer`, `TokenStream`, `TokenRefinement`, `LexerProofs`

`Dfa` has the automaton as data: `Edges` from `edges.txt`, `Others`,
`RetractOne`, `RetractTwo` and `Accepting` from `accept_retract_other.txt`,
`TokenTable` from `id_to_token_type.txt`; `Invoke` is `invoke()`.

`Lexer` is `get_next_token()` one character per step. The two blocks are
modelled as the code has them (a sentinel `$` after each, the reload into the
other one when it is met, two sentinels in a row as the end of the file); a
retraction is a subtraction from the pointer, which is why a pointer that leaves
its buffer can happen in the model as in the code. `Accept` and its successors
are `handle_accept()`, the `Eof` actions `handle_eof()`, `LexicalError`
`handle_error_state()`. `covered` and `out` are history: what the lexemes cover
of the file and the tokens handed over.

`TokenStream` is the abstract specification: a stream that repeatedly takes the
longest match of the lexical rules, stated as regular patterns with no automaton,
buffers or retraction. `TokenRefinement` maps the scanner to it: `pos` is what
the finished lexemes cover, `delivered` the tokens up to the first error that is
reported, after which the code promises nothing precise. `TokensAreLongestMatches`
is checked on short files and proved for all of them.

`Keywords` is the set of names put into the lexer's symbol table
(`parser.c:29`, from `KEYWORDS` in `grammar_constants.c`), in the model's classes
of characters. `KeywordAssumption` says that each of them is a nonempty word of
letters and underscores, as all 31 are; a keyword that were no identifier
could never be found by the lookup.

### `SymbolTable`, `NameMap`, `SymbolTableProofs`

One table with quadratic probing over a list of primes. A probe is a step. An
insertion that reaches the load factor starts `grow_symbol_table()`, which
allocates the next capacity and inserts the old entries one by one through the
same insertion code; the frame in `growing` remembers the old array and the position in
it, so a growth *inside* a growth is possible in the model and excluded by a
property. Names, values and the hash function are parameters. `NameMap` is a
map with `Insert` and `Search` as single steps; a table refines it with the
map read off the array that is current (the old one while growing).

### `Grammar`, `LL1`, `FirstFollow`, `LL1Proofs`, `FirstFollowProofs`

`Grammar` has the 139 lines of `productions.txt`, symbol by symbol, with the
actions as the symbols `501` to `585`. `LL1` defines FIRST, FOLLOW and the
predictions by derivation: relations of one derivation step and their closure.
`FirstFollow` is what the code does: a step per production of a pass, a step
that ends a pass by comparing sizes, a step per production of the table. The
loops inside a step are written by what they add: `FirstTemp` is the set `temp`
of first.c, `Trailer` the set `trailer` of follow.c when a symbol is met from
the right, `FollowTemp` what a production adds to one FOLLOW set.
`follow.c:21` clears the sizes by the number of nonterminals but indexes them
by symbol number, so all but those of the first fourteen nonterminals are
uninitialised when they are first compared; `Leftovers` is the set of values
they may have, and the run shows that the result does not depend on them. A
conflict ends the construction of the table: `Conflict` is the outcome,
whatever becomes of the program after it (`destroy_parse_table()` frees rows that
have not been allocated yet, `parse_table.c:117`, and may crash there).

### `Ast`, `Prediction`, `Parser`, `ParserProofs`, `MCParser`

`Prediction` says, of any sets and any table, what the parser takes for granted
of them: `TableFits` and `Predictive`. `Parser` assumes both of its constants, and
`FirstFollowProofs` proves both of what the passes compute.

`Parser` is the loop of `construct_parse_tree()`: match, mismatch, expand, run
an action, and the three ways of recovery (drop an assignment up to its
semicolon; scan to a token of FIRST; scan to a token of FOLLOW, of the
synchronizing keywords, or to the end). It is written over the real grammar, not
a toy one. The lexer is an input that decides on each token as it is
read, between fixed beginnings and ends (`Sources`).

`Ast` is the semantic stack. A node keeps its tag (what the code casts it to)
and the tokens it holds in the order the tree reaches them, with brackets for
grouping; `Apply` is the effect of one action, `Fits` what the action takes for
granted about the stack. Where nodes do not fit the program may go on with a
misread structure or crash, and the model allows both.

Two readings of expressions are the code's and not the usual ones; the
reference `Group` in `MCParser` states them. A sign in front of a parenthesis
applies to the rest of the expression: `a[-(3)+4]` is `-((3)+4)`. A sign
anywhere else in an index applies to the first factor.

### `Nodes`, `Scopes`, `Semantics`, `ScopesProofs`

`Nodes` is the syntax tree behind the parser, reduced to tags, kids and the
attributes the walks look at, and the type descriptors with their sizes and
equivalence. Nodes are numbered in the order of the source, and `lines` has the
line of each: `get_function_call_type()` compares lines, with `>`, and two
nodes may share one. `WellFormed` says what the parser guarantees of a tree; it is
the assumption `ProgramsWellFormed`.

A walk is recursive in C. Here its recursion is the agenda `todo`: the head is
the call that comes next, the rest is what the callers still have to do. A step
is one case of a `switch` over the node kinds, or one turn of a loop over
declarations; `Call` replaces the head by the calls it makes, in order.

`Scopes` is `construct_symbol_table_helper()`. A table has its parent, the set
of tables its parent pointers lead to (`chain`), the running `offset` copied
from the table around it (`base`), the `size` that counts toward the frame, and
its entries. `note` is what the walk writes into an `IDNode` or a call; `owned`
is the table a node made; `errors` are the reports. `declared` is history: the
storage given out, in order.

`Semantics` is `perform_semantic_analysis()`, a second walk with the driver
first; `result` is the type descriptor put into an expression. `CallIs` is
`get_function_call_type()`, `ListFaults` the parameter and return lists. The
nodes of integer and boolean literals hold their type from the moment they are
made (`BornWith`); an operator holds whatever `malloc` gave it until it has been
checked, which the operators in the predicate of a `while` never are: the model
has `Undefined` there. For an index on a name that is not an array the code reads
the element type from the wrong member of a union; the model lets it be any form
(`ElementForms`).

### `CodeGen`, `Machine`, `Compiler`, `CompilerProofs`, `AssemblesProofs`, `MCCompiler`

`CodeGen` is `generate_code_from()`. `code` is the output as records, one per
line or per few lines that always stand together. `temps` is what temporaries
have added to a table, `place` where an expression's value is stored, `labels`
the static counter. Some decisions of the code show only when the program runs:
rsp is moved by the generated code as temporaries come up, a `while` takes its space
anew in every turn and restores rsp from rcx, registers are pushed and popped
around calls. Strings for sizes and offsets keep three digits; `Printed` does
that. Labels are of two sorts: `Numbered(k)` for the k-th of the counter, of
which four digits fit into the buffer (`LABEL_LENGTH_MAX`), so that label 10000 is
`label1000` again; and `Named(x)` for a module or for what `Prelude` prints: the
data section, `_main`, `exit`, `exit_array_error` and the routines of the
library (`Reserved`). In the file they share one namespace, and so they do in
the model: a module called `exit` or `printFalse` puts a second such label into the
file, and `NumberSpelt` says of the names of modules which read like a made label
(`label9`), for which `Named` is that label. The words that the assembler keeps
to itself, of registers and instructions, are left out: a module called `rax`
does not assemble.

`Machine` is external: a processor and a C library as far as the output needs
them. Memory is a set of cells that instructions have written. A cell
overwritten in part is gone, a call of the library destroys all below rsp and
the registers it may use, and what cannot be read back is `Garbage`; flags
that came from `Garbage` may be either way.

`Compiler` composes them as the requests 8 (errors) and 9 (code) of `main2.c`
do: the walks, then the run of the output by the user. `request` says whether the user asks
for errors or for code. `MCCompiler` has the programs and the references: `Uses`
finds what every name means by going through the text with an environment,
`Legal` says over the whole program what the language allows, by the rules that the
tests of the repository state in their comments and not by those of the analyzer,
`Exec` executes the text. None of them uses tables, offsets, agenda or
instructions.

## Runs

| Run | Question | Bounds | Result |
|---|---|---|---|
| `lexer` | Are the tokens the longest matches, with the right lines, to the end of the file? | all files of up to 5 characters over the characters of numbers, of up to 5 over those of words and comments, of up to 4 over those of operators and of up to 2 over all (one letter, digit, and so on stands for its class), without `$` and without the two cases below; buffers of 3 (two characters and the sentinel), lexeme limit 2 | passes |
| `lexer_any_source` | Do pointer and lexeme array stay in bounds, is `DOLLAR` last, on any file? | all files of up to 5 characters of a digit, a dot, `=`, a letter and `$`; blocks of 3, lexeme limit 2 | passes |
| `lexer_range` | `7..7` is NUM RANGEOP NUM | the files of `lexer`, the two cases included | violated |
| `lexer_limit` | only names longer than the limit are reported | the same | violated |
| `symbol_table` | Does the table implement a map, do the loops end? | 5 names that collide, 2 values, 2 growths | passes |
| `first_follow` | Do the passes compute FIRST, FOLLOW and the table? | the ERPLAG grammar, and every order of the productions of four grammars of 4 to 6 productions; leftovers 0 to 2 | passes |
| `parser` | Are errors real, ordered and recovered from; do the actions fit, keep the source, group by precedence; does it stop? | 18 contexts, one or more for each part of the grammar, with 4 to 6 free tokens over alphabets of 3 to 9 and up to 3 lines | passes |
| `parser_accepts` | An accepted source has been read to its end, and no statement of it was dropped | a driver with an assignment that has no operator, and a second driver behind it | violated |
| `parser_misfits` | The name of an array is an ID, or what ends as a switch is one | a parameter `-A[v]`, and 3 free tokens for the statement behind it | violated |
| `compiler` | Do names resolve, is storage disjoint, are exactly the legal programs accepted, has everything accepted been checked, and does the output assemble, keep the stack and the program counter in bounds, and print what the source says? | 2830 programs (below); inputs 0, 1, 2 | passes |
| `compiler_rules` | The reports are at what the tests find fault with | one program with four statements | violated |
| `compiler_returns` | Two returned values arrive in the caller | the shape of `c10.txt` | violated |

Why the bounds are enough. *Lexer*: a lexeme of the operators has at most two
characters and the longest retraction is two, so with two characters in a buffer every
position of a lexeme relative to a boundary occurs, and files of five
characters cross it, end in it and end on it; names go past the limit and the
array grows. *Table*: capacities grow twice, the hash sends all names to few
slots, and entries are replaced before, between and after growths. *FIRST and
FOLLOW*: nullable chains, left and right recursion, both kinds of conflict, and
orders for which one, two or three passes are needed. *Parser*: the automaton
has no counter; every action and every alternative of `Next` fires, and nesting
goes up to three parentheses or brackets. *Compiler*: the walks have no state
but tables and lists, so what matters is which constructs meet. The families
are: each of four constructs around each pair of ten statements, with one of
three statements behind (`ScopePrograms`: hiding, late declaration, marking);
an assignment between all sorts of names and expressions (`TypePrograms`);
switches with all pairs of case types (`SwitchPrograms`); calls with the callee
above, below, on both sides or nowhere, declared or not, right and wrong lists,
recursion (`CallPrograms`, `ArrayCallPrograms`); and programs that run: each
construct inside each, around arithmetic, printing and calls that loop
themselves (`NestedPrograms`), all relations and logic on values read
(`RelationPrograms`), arrays read, indexed in and out of range, printed
(`ArrayPrograms`), switches with scopes of their own (`SwitchRunPrograms`), a
counter that is assigned to (`CounterPrograms`), and what the generator prints
for reals, divisions and `!=` (`RealPrograms`). A loop turns two or three times, which
is enough for a stack that does not balance or space taken once too often to
show.

Assumptions on fairness. The program is sequential: a call that has begun
keeps running. So the lexer and the parser have weak fairness of `Next`, and the
table weak fairness of the steps of a call that is under way (`Insert`, `Grow`,
`Search`) but none for new calls. `Compiler` states the same as `[]<>Over \/
[]<><<Next>>_vars`: as long as compilation or run is not over, a step is taken.
That is weak fairness of `Next` once it is known that a step that changes
something is enabled until then, which the check for deadlock of the same run
shows (`Ended`, the only step that changes nothing, needs `Over`). The liveness properties say that a file is
read to `DOLLAR` (`ReachesDollar`), that probing and growing end (`CallsEnd`),
that the fixpoints end (`TableIsMade`), that the parser stops (`ParserStops`)
and that a program that gets code runs to its end (`RunEnds`). Deadlock is not checked where the program really stops: after
an out-of-bounds pointer in `lexer_any_source`, after the table is made, after
the parse.

### Disagreements found

* `lexer.c:130`: after a number, `..` is read in full and given back; if
  the second dot is the first character of a block, the pointer goes to -1 and
  the range operator is lost. The pass run excludes this case.
* `lexer.c:196`: at the end of the file a name of exactly the limit is
  reported as too long; elsewhere only longer ones are.
* `parse_tree.c:97`: the loop ends when `DOLLAR` is on the stack, without a
  look at the token: what comes after the driver's `end` may be skipped.
* `parse_tree.c:226`: an assignment without its operator disappears and no
  error is reported or recorded. The counterexample of `parser_accepts`
  shows both in one source.
* `ast.c:806`: for the parameter `-A[v]` (used in `t3.txt`) a unary operator
  is cast to an ID.
* `ast.c:244`: a statement may start with a comma or `:=` (`productions.txt:32`
  and `33`; `test_ast/t14x.txt` has some), and ends with action 512, which casts the
  expression to a switch and puts it among the statements. The property of
  `parser_misfits` is a disjunction, so that its counterexample is a source with
  both misfits. The sources of the run `parser` have neither.
* `semantic_analyzer.c:381`: a `while` that assigns none of the variables in its
  condition is accepted; `t5.txt:24` and `t6.txt:53` mark it as an error.
* `semantic_analyzer.c:586`: a call of a declared module below its definition is
  reported, though another call needed the declaration; `t7.txt:71`,
  `t8.txt:74` and `t9.txt:141` want it accepted.
* `symbol_table_constructor.c:308`: a variable with the name of a returned one is
  reported as declared twice; `t3.txt:13` declares such variables and marks no
  error, and uses them at line 24.
* `semantic_analyzer.c:578`: a module that is not declared may be called from
  the line it is defined on, in front of it, since lines are compared with `>`; the
  comment there asks for a definition before the call.
  The program of `compiler_rules` has these four: in the counterexample the
  second and third are reported, the first and last are not, and `Faults` has the
  first and last. `Legal` has all four rules; the programs of `compiler` are
  those on which the code follows the tests, so that no such statement is
  among them.
* `code_generator.c:1002`: the values a module returns are in rax, r10, r12, ...
  and the caller's registers are popped before they are stored, so that r10
  has its old value again and the second result is lost (`c10.txt` prints two
  results). The programs of the run `compiler` take at most one.

Seen while modelling, and not put into a run because the repository states no
rule that decides them: the type of the predicate of a `while` is never checked
(`semantic_analyzer.c:379`); the predicate is looked up in the table of the body
(`symbol_table_constructor.c:398`); modules that call each other are not
recognised as recursive (`semantic_analyzer.c:573`); a dynamic array fits one of
another element type (`symbol_table.c:444`); the bounds of an array may be
reversed; the message for a wrong number of returns is chosen by the parameters
(`semantic_analyzer.c:415`); request 7 of `main2.c` goes on into request 8; the
error flag is never cleared between requests (`error_report.c:25`).

Further properties of the parser hold while no error was met and no statement
was dropped (`Sound`), because afterwards the code makes no use of the stack or,
in the dropped case, has lost part of the source.

What the programs of `compiler` that get code leave out. In each case the
output is known not to assemble, not to balance or to print nothing, or the
walk reads what it has not set, so the reference has nothing to be
compared with: a `while` inside a `while` and `get_value` inside a `while` (both
overwrite rcx, `code_generator.c:928`); predicates that are not a binary operation;
frames of 1000 bytes or more; the values of reals, divisions and `!=` (the
operands are loaded and nothing is done with them; that is modelled, and the
reference gives `Garbage`); dynamic arrays, arrays
of booleans, `print` of one element (nothing is printed); array parameters, expressions and
elements as arguments, more than six of them, a boolean as the fourth
(`code_generator.c:15` names a register that does not exist); signs on booleans;
an inner variable declared after its name was used for an outer one, and a
variable with the name of a module called; names such as `t1`, which temporaries
take; modules named like another label of the output (`exit`, `label0`; a module
`label9` in a program with fewer labels is among them); more than 10000 labels.

## Proofs

`SymbolTableProofs` proves, for every finite set of names, every set of values,
every hash function and every list of primes that meets the assumptions:

* the type invariant (`TypeCorrect`) and the safety invariants that the run
  checks (`EntriesReachable`, `NamesUnique`, `SizeCorrect`, `ProbingBounded`,
  `NoNestedGrowth`);
* that the table implements the map (`ImplementsMap`): each step is an
  insertion of the map, a search of the map, or a stutter.

Assumptions, named in `SymbolTable`: `NamesAssumption` (finitely many names),
`NullAssumption` (no name and no value is NULL), `HashAssumption` (a hash is a
number), `PrimesAssumption` (at least 2, each more than one above the one
before), `RoomAssumption` (the names do not outgrow the last prime: the
code does not test this, and 102880 names in one scope would be needed),
`ProbesAssumption` (the first half of a quadratic probe sequence over a prime
has no slot twice: a fact of arithmetic that TLC evaluates for the primes of
the run).

The argument. No invariant above is inductive alone. `IInv` adds: the state of
a growth in progress (entries already copied are exactly those of the old slots
passed; the rest is in the old array), a load below one half at every moment an
insertion probes, and that the probes made so far met occupied slots. From load
below one half and distinct probes the pigeonhole principle gives a free slot
within the first half (`SomeProbeIsFree`), which is why loops end and why
nothing passes its bound. Reachability survives insertion because slots never
become free; it survives growth because every entry is inserted again. A growth
starts with the first entry that makes the table half full, so there are at
most (old capacity + 1) / 2 entries to insert again, which is less than half of
the new capacity: growing never nests. The refinement
then follows from reachability and uniqueness: the first slot that holds the
name or is free tells whether the name is in the map.

`LexerProofs` proves, for every size of the buffers, every length limit and
every set of keywords, on any file at all: the types (`LexerTypeCorrect`: the
pointer leaves its buffer by at most the one byte before it), that the lexeme
array is grown in time (`LexemeAlwaysFits`), and that `DOLLAR` comes once, last,
and when the lexer says so (`DollarComesLast`). The inductive invariant
`ScanInv` adds that a sentinel is ahead in the current buffer while the file is
open, and that a lexeme of the state in which the second dot of a range may
follow has two characters, so that the retraction by two stays in reach.
On *plain* files (hypothesis `AllPlain`: no byte `$`, and no `..` of a range with
its dots in two blocks, which are the two cases of `lexer_range` and
`lexer_any_source`) it proves that the lexemes cover the file without gap or
overlap (`LexemesCoverPlainSource`), that `DOLLAR` means the whole file was read
(`DollarAfterWholeFile`) and that each newline is counted once
(`NewlinesCountedOnce`). `PlainInv` ties the buffers to the file: the current one
holds the block that starts at `base`, with its newlines blanked as far as they
have been read, and `base + forward` is what the lexemes and the one in hand
cover. None of the three properties says anything about buffers, so none is
inductive.

`ScannerImplementsTokenStream` is the refinement: on plain files that do not end
in a word of exactly the limit (the case of `lexer_limit`), every step of the
scanner is a step of `TokenStream` or leaves it alone. It needs that the text is
read *exactly*, not just up to blanked newlines, and that the automaton is where
the text leads. `ExactInv` says this as long as no error has been reported: the
characters ahead are those of the file, but for one newline that was given back,
which is blanked and already counted; the line is the one of the pointer; a word
is never cut in two; and `ReadSoFar` tells, for every state, what the characters
read since the start of the lexeme are. The argument has three parts.

* *The rules.* `TokenStream` states them on prefixes of the rest. The first lemmas
  restate them by position (`Word`, `Digits`, `Fraction`, `Float`, `Sign`,
  `Comment`), up to `PrefixIsLexeme` and `PrefixIsComment`.
* *The automaton.* One lemma per row of the edge table (`RowStart`, `Row1`, ...)
  gives the successor of each class of characters. `ReadsOn` shows that
  `ReadSoFar` is kept by every transition that goes on; `ReadsToken`, that an
  accepting state leaves, after its retraction, the longest match at the head of
  the rest; `ReadsError`, that the error state is reached only where the rules
  fail; `ReadsDropped` and `ReadsEnd` do the same for blanks, comments and the
  end of the file.
* *The buffers.* `ExactReadOn`, `ExactRefill`, `ExactToken` and the like carry
  `ExactInv` through each action, and `TokenImplemented`, `ErrorImplemented`,
  `DropImplemented`, `EndImplemented` and `RecoverImplemented` name the step of
  `TokenStream` it is.

`LL1Proofs` shows that the recursive definitions of `LL1`, which count steps up
to the number of nonterminals, are the least sets closed under their rule: a
chain that has not yet become constant has gained an element in every step, and
there are no more elements than steps. `FirstFollowProofs` then proves, for every
grammar that meets `GrammarsAssumption`, every order of its productions and
every value of the memory follow.c reads before it writes it, that the
passes stop with exactly these sets (`FirstPassesExact`, `FollowPassesExact`),
that the table has each production in its own cells or a conflict is real
(`TableHoldsProductions`), and that these cells are the predictions
(`TableIsPrediction`). Its invariant says what the stop test is worth: as long as
no set has changed its size in the present pass, all the productions handled in
it are satisfied (`FirstInv`, `FollowInv`). Sets only grow, so equal sizes
mean equal sets, and a pass without a change leaves a closed family; that nothing
too much is added is leastness, kept by every single step (`FirstLeast`,
`FollowLeast`). The uncleared sizes of follow.c cannot end its loop early because
the size of `Pro` is among the cleared ones while its set has `DOLLAR` from the
start. The third part of `GrammarsAssumption`, that EPSILON stands alone, delimits
the files for which `Trailer` is what follow.c does: a terminal EPSILON between
other symbols would be put into the trailer there.

`ParserProofs` proves, on every source (`SourcesAssumption`): the types
(`ParserTypeCorrect`), that errors are reported down the source
(`ErrorsGoDownTheSource`), that the recovery from a bad assignment always finds
a list of statements (`StatementsAlwaysFound`), that what is accepted is a
sentence of the grammar (`AcceptedIsSentence`), and that the first error is a real
one (`FirstErrorOnlyOnFaults`). The grammar enters through assumptions that TLC
evaluates on the one of `productions.txt` with the sets of `LL1`:
`GrammarAssumption` (symbols; a symbol that belongs to a statement is followed by
`statements` in its production or stands in a production of such a symbol),
`TableAssumption` (a cell of a row has a production of that row) and
`PredictAssumption` (no EPSILON is pushed, FOLLOW is closed under what is pushed,
and no cell that FIRST and FOLLOW ask for is empty). `TableIsForTheParser`, in
`FirstFollowProofs`, proves the last two of the sets and the table with which
`FirstFollow` ends on these productions. What is pushed has actions
between its symbols, and the passes have left them out, so the proof
follows each symbol from its place in the one to its place in the other (`Rank`);
of the productions it uses `ProductionsAssumption` in `LL1`, which TLC evaluates: the body of a
production is what is pushed without the actions, and only an empty right-hand
side derives the empty string. The invariant `ParserInv` bounds the
reports by the line reached, or by the line of the culprit during a scan, and
says that below every symbol of a statement on the stack a `statements` is found
(`Anchored`). For the sentences, `Matching`: the tokens matched and the stack
together are a form that the grammar derives, where *derives* is stated without
induction, as membership in every set of forms that is closed under the
productions. For the first error, `Guided`: what the symbols under a nonterminal
of the stack can begin with is in the nonterminal's FOLLOW set, which knows
nothing of the stack.

`ScopesProofs` proves, for every sequence of well-formed programs
(`ProgramsWellFormed`, the only assumption), that the walk that makes the tables
is type correct (`ScopesTypeCorrect`) and that no variable is given bytes of a
variable declared before it that it can see (`StorageIsDisjoint`).

The argument. `StorageDisjoint` compares places given out long ago with the
table a new declaration goes into, and the offset of that table was copied when
its scope was entered, so nothing about offsets is inductive alone. `IInv` has: the
program is one of `Programs` (`ProgramInv`); the tables, with parents before children and
chains closed under them (`TablesInv`, `ChainsInv`); the agenda's items
are about nodes and tables that exist (`AgendaInv`); *the tables of the agenda
nest*: a later item's table is on the chain of an earlier one's (`NestedInv`);
the history names tables that exist (`HistoryInv`). On these rests `StorageInv`:
the offset of an agenda table is at least that of every table on its chain
(`RisingInv`), and what was given out in a table lies below the offset of that
table (`UnderInv`). There are three kinds of
steps, and each action is shown to be one of them: those that
touch no offset (`QuietStep`), those that open a table (`OpenStep`: the new
offset is that of the table around it) and those that declare (`DeclareStep`).
In the last, the one table whose offset grows is that of the head of the agenda; it
lies around another agenda table only if it is that table, because agenda tables
nest. So the new variable begins at or above every offset along its
chain. The premise `BoundsOrdered` is needed: a reversed range has a negative
width.

`CompilerProofs` carries this to the whole (`CompilerStorage`): the later walks
and the run leave `prog`, `table` and `declared` alone (`CompilerInv`).
It also proves that reports are never taken back (`ErrorsStay`), and that a
program with a report gets no code (`FaultyGetsNoCode`).

`AssemblesProofs` proves `Assembles` for every sequence of well-formed programs
(`EveryProgramAssembles`): when the generator is done, no label stands twice and
every jump and call has a label to go to. Two hypotheses are needed, and they are
what the code does not check. `NamesFree`: no module has a name in `Reserved`, the
labels of the prelude and the data section, or one that reads like a made label.
`[]LabelsFit`: no more than 10000 labels (`LabelsMax`) are ever made, after which the
buffer for a label has no room for another digit. The assumption `NumbersSpelt`
only says that `NumberSpelt` maps names to numbers, and none that is reserved. The argument has two
parts.

*Books of labels.* `Accounted` says of what has been printed and of the agenda
that is left: each item has labels only it may place (`Own`), some it is sure to
place (`Will`), and some its code will go to (`Wants`); what has been printed
places each label once and none that an item owns; and every label gone to has
been printed, or some item will place it. Labels not yet made are larger than all of
these. A step keeps the books if what it prints and what it leaves to do `Fits`
the item it took: own labels or newly minted ones, each in one place, and no
goal without a place (`AccountedStep`). Each of the 28 actions behind `BeginGenerate` is
shown to fit (`LiteralStep` to `SwitchStep`). Switches are why the books are
needed: labels of cases, default, tests and end are made together, placed
by different items, and gone to before and after they are placed. `FlattenFacts` and its
neighbours say what joining a list of pieces does, by induction on numbers with a
set for the property (`LeastNumber`), which the prover can do.

*What the generator takes for granted.* It prints no default for a boolean switch
and goes to one for an integer; it calls any name. That this is safe is the work
of the walks before it, so the proof goes through all three. `FirstInv`
(constructor): tables and notes hold types, the top table has one entry per module
defined so far, and the names are distinct when nothing has been reported.
`SecondInv` (analyzer): every switch it has judged has the default its type
asks for, and each module used is defined, unless something has been
reported. `AssemblyInv` joins these two by phases, for all programs. `ThirdInv`
(generator): the nodes still to come are among those so judged, and the books; this
holds under the two hypotheses only (`BooksInv`, `BooksInvariant`).

*The run.* `EveryRunStaysInCode` proves `StaysInCode` under the same hypotheses:
while a program runs, the program counter is on one of its instructions, and what
calls have left on the stack is the place behind a call. That needs `Assembles`
of the finished output, and one thing of the generator which is not about labels:
the last thing on its agenda is always one that closes the code, with an exit or a
`ret`, or the code ends so already (`Ending`). Without it the processor
could walk over the last instruction. `RunInv` has this together with the
processor at rest before it starts, and each instruction of `Machine` is shown to
keep it (`StaysInvariant`).

*What the analyzer lets pass.* `AcceptedWasChecked` proves `AcceptedIsChecked`:
in a program with no report every assignment, operation, switch, loop,
module and call keeps its rule, judged by types that were there at that moment.
The rules are those of the analyzer; where they differ from the tests' is the
subject of the run `compiler_rules`.
The danger is order: the code gives types on the way back from the operands, puts
some checks off (`Postponed`) and passes over an operand whose type is missing, since an
error is assumed to have been reported there. `CheckedInv` has three parts while
the walk goes on without a report. `Typed`: each type given so far fits its
operands. `Tasked`: each pending task is about a node of its kind and has the
tasks that give the types it needs ahead of it. `Fitting`: every node already
visited keeps its rule, or its task is still ahead; "visited" is some set of
nodes that contains the root and spreads to the children of each of its members, except below
the nodes still to come. When the agenda is empty, such a set has every node, which
is shown by the least node outside it (`AllReached`), so no tree induction is
needed. For this `SecondInv` also says that the parts of a program are where
the first walk has left them: names resolve to entries with proper types, the walk stays
inside the tree, and what a node needs was noted at it.

The hypothesis `IndexedAreArrays` is needed: of a name with an index that is no
array, `type_of_expression` takes whatever is in the place of the element type, so
that the result may be its own `Error`, which silences every check above
it without a report. The run `compiler` checks `AcceptedIsChecked` on its programs
without the hypothesis.

Only model-checked: liveness everywhere (under fairness, out of the prover's
reach); of the parser `NodesFit`,
`AstHoldsSource`, `ExpressionsGroup` and `ProgramAtEnd`, which do not hold on
every source (the run `parser_misfits` shows one) and depend on
what 85 actions leave on a stack of unbounded depth. Of the compiler:
`InnermostBinding`, `AssignedExactly`, `AcceptedIsLegal`, `LegalIsAccepted` and
`OutputMatchesSource`, whose references are recursions over programs;
`ReturnsToCaller` and `AccessAllocated`, which do not hold of every program (a
while loop inside another overwrites the `rcx` that is to restore the stack, and
sizes from 1000 on are printed with three digits only; the run's programs have neither);
`CompilerTypeOK` beyond the part that is `ScopesTypeOK`, since the code
generator looks names up again, and finds no bounds where a name was declared again
as no array.

## Not modelled

* Printing, logs, statistics, prompts and the wording of messages; line numbers
  but for the order of calls and definitions; parse-tree nodes, which are not used after the
  tree is built; memory exhaustion; the reading of the grammar file line by
  line.
* The containers of `datastructures`: sets, functions and sequences stand in.
  `remove_from_hashset()` does not count down, but the passes that compare
  sizes only add.
* `utility`: file opening, string splitting, and a comment remover that no code
  calls. Build output (`cmake-build-debug`) and grammars that no code loads.
* The menu of `main2.c` and the requests that only print; a behaviour of
  `Compiler` serves one request.
* In the code generator: the code for dynamic arrays and array parameters.
  REAL values have no code to model: the generator prints none for their values.
