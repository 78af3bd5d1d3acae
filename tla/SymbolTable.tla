---------------------------- MODULE SymbolTable ----------------------------
(***************************************************************************)
(* One symbol table: the open-addressing hash table of symbol_table.c, with *)
(* quadratic probing and a capacity that moves along a list of primes.     *)
(*                                                                         *)
(* Entries are never removed.  insert_in_symbol_table() probes for the     *)
(* name, replaces its entry or takes the first free slot, and grows the    *)
(* table when it is half full; grow_symbol_table() inserts every old entry *)
(* again, through the same function.  One step is one iteration of a loop  *)
(* of the code.                                                            *)
(***************************************************************************)
EXTENDS Integers, Sequences, FiniteSets

CONSTANTS
  Names,    \* the names that may be inserted or looked up
  Values,   \* what the rest of an entry may be
  NULL,     \* an empty slot, a failed search
  Hash,     \* the value hash() computes for a name before the final "%"
  Primes    \* PRIMES, the capacities

ASSUME NamesAssumption  == IsFiniteSet(Names)
ASSUME NullAssumption   == NULL \notin Names \cup Values \cup [name : Names, value : Values]
ASSUME HashAssumption   == Hash \in [Names -> Nat]
ASSUME PrimesAssumption ==
  /\ Primes \in Seq(Nat) /\ Primes # <<>>
  /\ \A i \in 1 .. Len(Primes) : Primes[i] >= 2
  /\ \A i \in 1 .. Len(Primes) - 1 : Primes[i + 1] > Primes[i] + 1
(* The list is long enough for the names of the program.                   *)
ASSUME RoomAssumption   == 2 * Cardinality(Names) < Primes[Len(Primes)]
(* What the choice of primes is for: no two probes in the first half of a  *)
(* probe sequence meet.                                                    *)
ASSUME ProbesAssumption ==
  \A i \in 1 .. Len(Primes) : \A h \in 0 .. Primes[i] - 1 :
    \A x, y \in 0 .. Primes[i] \div 2 :
      (h + x * x) % Primes[i] = (h + y * y) % Primes[i] => x = y

Entries == [name : Names, value : Values]

VARIABLES
  records,     \* symbol_table->records
  primeIndex,  \* symbol_table->prime_size_index, counted from 1
  size,        \* symbol_table->size
  pc,          \* "idle", "insert", "grow" or "search"
  entry,       \* the entry being inserted
  key,         \* the name being looked up
  x,           \* the number of the probe
  growing,     \* the grow_symbol_table() calls in progress, innermost last:
               \* the old records and how far their loop has come
  result       \* what the last search_in_symbol_table() returned

vars == <<records, primeIndex, size, pc, entry, key, x, growing, result>>

capacity == Primes[primeIndex]
Slots    == 0 .. capacity - 1
Empty(cap) == [i \in 0 .. cap - 1 |-> NULL]

(* hash() and the probing sequence.                                        *)
Home(n)     == Hash[n] % capacity
Slot(n, k)  == (Home(n) + k * k) % capacity

Init ==
  /\ primeIndex = 1
  /\ records = Empty(Primes[1])
  /\ size = 0
  /\ pc = "idle" /\ entry = NULL /\ key = NULL /\ x = 0
  /\ growing = <<>>
  /\ result = NULL

-----------------------------------------------------------------------------
(* insert_in_symbol_table(), called by a client.                           *)
BeginInsert(e) ==
  /\ pc = "idle"
  /\ pc' = "insert" /\ entry' = e /\ x' = 0
  /\ result' = NULL
  /\ UNCHANGED <<records, primeIndex, size, key, growing>>

(* insert_in_symbol_table() returns, to the client or to the loop of       *)
(* grow_symbol_table().                                                    *)
Done(frames) == IF frames = <<>> THEN "idle" ELSE "grow"

Here == records[Slot(entry.name, x)]

(* Another name's slot: probe on.                                          *)
InsertCollides ==
  /\ pc = "insert" /\ Here # NULL /\ Here.name # entry.name
  /\ x' = x + 1
  /\ UNCHANGED <<records, primeIndex, size, pc, entry, key, growing, result>>

(* Mutant of InsertReplaces: the replaced entry is counted again.          *)
InsertReplacesCounts ==
  /\ pc = "insert" /\ Here # NULL /\ Here.name = entry.name
  /\ records' = [records EXCEPT ![Slot(entry.name, x)] = entry]
  /\ size' = size + 1
  /\ pc' = Done(growing)
  /\ entry' = NULL
  /\ UNCHANGED <<primeIndex, key, x, growing, result>>

(* The name's own slot: the entry is replaced.                             *)
InsertReplaces ==
  /\ pc = "insert" /\ Here # NULL /\ Here.name = entry.name
  /\ records' = [records EXCEPT ![Slot(entry.name, x)] = entry]
  /\ pc' = Done(growing)
  /\ entry' = NULL
  /\ UNCHANGED <<primeIndex, size, key, x, growing, result>>

(* Mutant of InsertTakesSlot: the table may fill up before it grows.       *)
InsertTakesSlotFull ==
  /\ pc = "insert" /\ Here = NULL
  /\ size + 1 < capacity
  /\ records' = [records EXCEPT ![Slot(entry.name, x)] = entry]
  /\ size' = size + 1
  /\ pc' = Done(growing)
  /\ entry' = NULL
  /\ UNCHANGED <<primeIndex, key, x, growing, result>>

(* A free slot that leaves the table less than half full.                  *)
InsertTakesSlot ==
  /\ pc = "insert" /\ Here = NULL
  /\ 2 * (size + 1) < capacity
  /\ records' = [records EXCEPT ![Slot(entry.name, x)] = entry]
  /\ size' = size + 1
  /\ pc' = Done(growing)
  /\ entry' = NULL
  /\ UNCHANGED <<primeIndex, key, x, growing, result>>

(* Mutant of InsertAndGrow: the new records are no larger than the old.    *)
InsertAndGrowShort ==
  /\ pc = "insert" /\ Here = NULL
  /\ 2 * (size + 1) >= capacity
  /\ primeIndex < Len(Primes)
  /\ growing' = Append(growing, [old |-> [records EXCEPT ![Slot(entry.name, x)] = entry],
                                 at  |-> 0])
  /\ primeIndex' = primeIndex + 1
  /\ records' = Empty(capacity)
  /\ size' = 0
  /\ pc' = "grow"
  /\ entry' = NULL
  /\ UNCHANGED <<key, x, result>>

(* A free slot that leaves it half full: grow_symbol_table() starts.       *)
InsertAndGrow ==
  /\ pc = "insert" /\ Here = NULL
  /\ 2 * (size + 1) >= capacity
  /\ primeIndex < Len(Primes)
  /\ growing' = Append(growing, [old |-> [records EXCEPT ![Slot(entry.name, x)] = entry],
                                 at  |-> 0])
  /\ primeIndex' = primeIndex + 1
  /\ records' = Empty(Primes[primeIndex + 1])
  /\ size' = 0
  /\ pc' = "grow"
  /\ entry' = NULL
  /\ UNCHANGED <<key, x, result>>

-----------------------------------------------------------------------------
(* The loop of grow_symbol_table() over the old records.                   *)
Frame == growing[Len(growing)]
OldSlots == DOMAIN Frame.old
NextFrame == [growing EXCEPT ![Len(growing)].at = @ + 1]

GrowSkips ==
  /\ pc = "grow" /\ Frame.at \in OldSlots /\ Frame.old[Frame.at] = NULL
  /\ growing' = NextFrame
  /\ UNCHANGED <<records, primeIndex, size, pc, entry, key, x, result>>

(* Mutant of GrowReinserts: the entry keeps its index.                     *)
GrowCopies ==
  /\ pc = "grow" /\ Frame.at \in OldSlots /\ Frame.old[Frame.at] # NULL
  /\ records' = [records EXCEPT ![Frame.at] = Frame.old[Frame.at]]
  /\ size' = size + 1
  /\ growing' = NextFrame
  /\ UNCHANGED <<primeIndex, pc, entry, key, x, result>>

GrowReinserts ==
  /\ pc = "grow" /\ Frame.at \in OldSlots /\ Frame.old[Frame.at] # NULL
  /\ entry' = Frame.old[Frame.at] /\ x' = 0
  /\ growing' = NextFrame
  /\ pc' = "insert"
  /\ UNCHANGED <<records, primeIndex, size, key, result>>

(* Mutant of GrowReturns: the last old slot is never looked at.            *)
GrowReturnsEarly ==
  /\ pc = "grow" /\ Frame.at + 1 \notin OldSlots
  /\ growing' = SubSeq(growing, 1, Len(growing) - 1)
  /\ pc' = Done(growing')
  /\ UNCHANGED <<records, primeIndex, size, entry, key, x, result>>

GrowReturns ==
  /\ pc = "grow" /\ Frame.at \notin OldSlots
  /\ growing' = SubSeq(growing, 1, Len(growing) - 1)
  /\ pc' = Done(growing')
  /\ UNCHANGED <<records, primeIndex, size, entry, key, x, result>>

-----------------------------------------------------------------------------
(* search_in_symbol_table().                                               *)
BeginSearch(n) ==
  /\ pc = "idle"
  /\ pc' = "search" /\ key' = n /\ x' = 0
  /\ result' = NULL
  /\ UNCHANGED <<records, primeIndex, size, entry, growing>>

Looked == records[Slot(key, x)]

(* Mutant of SearchCollides: x is not counted up.                          *)
SearchCollidesStays ==
  /\ pc = "search" /\ Looked # NULL /\ Looked.name # key
  /\ x' = 1
  /\ UNCHANGED <<records, primeIndex, size, pc, entry, key, growing, result>>

SearchCollides ==
  /\ pc = "search" /\ Looked # NULL /\ Looked.name # key
  /\ x' = x + 1
  /\ UNCHANGED <<records, primeIndex, size, pc, entry, key, growing, result>>

(* The name is found; or an empty slot says that it is not there.          *)
Answer(value) ==
  /\ result' = [name |-> key, found |-> value]
  /\ pc' = "idle" /\ key' = NULL
  /\ UNCHANGED <<records, primeIndex, size, entry, x, growing>>

SearchFinds == pc = "search" /\ Looked # NULL /\ Looked.name = key /\ Answer(Looked.value)

SearchFails == pc = "search" /\ Looked = NULL /\ Answer(NULL)

-----------------------------------------------------------------------------
Insert == InsertCollides \/ InsertReplaces \/ InsertTakesSlot \/ InsertAndGrow
Grow   == GrowSkips \/ GrowReinserts \/ GrowReturns
Search == SearchCollides \/ SearchFinds \/ SearchFails

Next ==
  \/ \E e \in Entries : BeginInsert(e)
  \/ \E n \in Names : BeginSearch(n)
  \/ Insert \/ Grow \/ Search

(* A call that has begun runs: nothing else does meanwhile.                *)
Spec == Init /\ [][Next]_vars /\ WF_vars(Insert \/ Grow \/ Search)

-----------------------------------------------------------------------------
(* Properties.                                                             *)

TypeOK ==
  /\ primeIndex \in 1 .. Len(Primes)
  /\ records \in [Slots -> Entries \cup {NULL}]
  /\ size \in Nat /\ x \in Nat
  /\ pc \in {"idle", "insert", "grow", "search"}
  /\ entry \in Entries \cup {NULL} /\ (pc = "insert" <=> entry # NULL)
  /\ key \in Names \cup {NULL} /\ (pc = "search" <=> key # NULL)

Occupied == { i \in Slots : records[i] # NULL }

(* Where every entry is: on the probe sequence of its name, with nothing   *)
(* but other names before it, so that a search meets it before it meets an *)
(* empty slot.                                                             *)
Reachable ==
  \A i \in Occupied : \E k \in 0 .. capacity \div 2 :
    /\ i = Slot(records[i].name, k)
    /\ \A j \in 0 .. k - 1 :
         LET s == Slot(records[i].name, j)
         IN  s \in Occupied /\ records[s].name # records[i].name

(* Every name has one entry.                                               *)
OneEntryPerName ==
  \A i, j \in Occupied : records[i].name = records[j].name => i = j

(* size counts the entries, and between calls less than half of the slots  *)
(* are taken.                                                              *)
SizeIsExact == size = Cardinality(Occupied)
HalfEmpty   == 2 * size < capacity

(* Probing always ends: a loop never gets further than half the capacity.  *)
ProbingEnds == pc \in {"insert", "search"} => x <= capacity \div 2

(* Growing the table never makes it grow again before it has finished.     *)
GrowsOnce == Len(growing) <= 1

(* Every call ends.                                                        *)
CallsEnd == (pc # "idle") ~> (pc = "idle")

-----------------------------------------------------------------------------
(* The abstract map.  An entry counts wherever it is: in the table, in the *)
(* old records not yet inserted again, or on its way from these.  A client's*)
(* new entry counts once it is in the table.                               *)
Left(f)  == { j \in DOMAIN f.old : j >= f.at /\ f.old[j] # NULL }
Calls    == { growing[d] : d \in DOMAIN growing }
Stored   == { records[i] : i \in Occupied }
Waits(f) == { f.old[j] : j \in Left(f) }
Waiting  == UNION { Waits(f) : f \in Calls }
Carried  == IF pc = "insert" /\ growing # <<>> THEN {entry} ELSE {}
Held     == Stored \cup Waiting \cup Carried

Contents == [n \in Names |->
  IF \E e \in Held : e.name = n THEN (CHOOSE e \in Held : e.name = n).value ELSE NULL]

Map == INSTANCE NameMap WITH map <- Contents, found <- result

(* The table implements a map from names to values.                        *)
TableIsMap == Map!MapSpec
=============================================================================
