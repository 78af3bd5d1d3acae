------------------------- MODULE SymbolTableProofs -------------------------
(***************************************************************************)
(* Proofs about SymbolTable, for every set of names, every hash function   *)
(* and every list of primes that meet its assumptions.                     *)
(***************************************************************************)
EXTENDS SymbolTable, FiniteSetTheorems, TLAPS

(* The parts of the inductive invariant.                                   *)

(* At most one call of grow_symbol_table() is in progress, over the table  *)
(* of the prime before.                                                    *)
IsFrame(f) ==
  /\ f = [old |-> f.old, at |-> f.at]
  /\ f.at \in Nat
  /\ primeIndex > 1
  /\ f.old \in [0 .. Primes[primeIndex - 1] - 1 -> Entries \cup {NULL}]

Growth ==
  /\ growing = <<>> \/ (growing = <<growing[1]>> /\ IsFrame(growing[1]))
  /\ pc = "grow" => growing # <<>>
  /\ pc \in {"idle", "search"} => growing = <<>>

(* What the probing has passed: other names' entries.                      *)
Passed(n) == \A j \in 0 .. x - 1 :
               Slot(n, j) \in Occupied /\ records[Slot(n, j)].name # n
Probed    == (pc = "insert" => Passed(entry.name)) /\ (pc = "search" => Passed(key))

(* The entries still to come fit in the new table without growing it.      *)
InFlight  == IF pc = "insert" THEN 1 ELSE 0
RoomLeft  == growing # <<>> =>
               2 * (size + Cardinality(Left(growing[1])) + InFlight) < capacity

(* No name is held twice, the old table's remaining part included.         *)
Apart == growing # <<>> =>
  /\ \A i, j \in Left(growing[1]) :
       growing[1].old[i].name = growing[1].old[j].name => i = j
  /\ \A i \in Left(growing[1]), j \in Occupied : growing[1].old[i].name # records[j].name
  /\ pc = "insert" =>
       /\ \A i \in Left(growing[1]) : growing[1].old[i].name # entry.name
       /\ \A j \in Occupied : records[j].name # entry.name

IInv == TypeOK /\ Growth /\ Reachable /\ OneEntryPerName /\ SizeIsExact /\ HalfEmpty
          /\ Probed /\ RoomLeft /\ Apart

-----------------------------------------------------------------------------
(* The capacity is a prime of the list and every probe is a slot.          *)
LEMMA CapacityType ==
  ASSUME TypeOK
  PROVE  capacity \in Nat /\ capacity >= 2
BY PrimesAssumption DEF TypeOK, capacity

LEMMA SlotType ==
  ASSUME TypeOK, NEW n \in Names, NEW k \in Nat
  PROVE  Slot(n, k) \in Slots
<1>1. capacity \in Nat /\ capacity >= 2
  BY CapacityType
<1>2. Home(n) \in Nat
  BY <1>1, HashAssumption DEF Home
<1>3. k * k \in Nat
  OBVIOUS
<1>4. Home(n) + k * k \in Nat
  BY <1>2, <1>3
<1> QED
  BY <1>1, <1>4 DEF Slot, Slots

LEMMA HomeType ==
  ASSUME TypeOK, NEW n \in Names
  PROVE  Home(n) \in 0 .. capacity - 1
BY CapacityType, HashAssumption DEF Home

(* Half of the slots are free, and the probes of the first half of a       *)
(* sequence are all different, so that one of them finds a free slot.      *)
LEMMA SomeProbeIsFree ==
  ASSUME TypeOK, SizeIsExact, HalfEmpty, NEW n \in Names, NEW m \in Nat,
         \A j \in 0 .. m - 1 : Slot(n, j) \in Occupied
  PROVE  m <= capacity \div 2
<1>1. capacity \in Nat /\ capacity >= 2
  BY CapacityType
<1>2. PICK h \in Nat : h = capacity \div 2 /\ 2 * h + 1 >= capacity
  BY <1>1
<1> DEFINE probe == [j \in 0 .. h |-> Slot(n, j)]
<1>3. SUFFICES ASSUME m > h PROVE FALSE
  BY <1>2
<1>4. \A j \in 0 .. h : Slot(n, j) \in Occupied
  BY <1>2, <1>3
<1>5. probe \in [0 .. h -> Occupied]
  BY <1>4
<1>6. \A i, j \in 0 .. h : probe[i] = probe[j] => i = j
  <2>1. Home(n) \in 0 .. capacity - 1
    BY HomeType
  <2>2. primeIndex \in 1 .. Len(Primes)
    BY DEF TypeOK
  <2> QED
    BY <1>2, <2>1, <2>2, ProbesAssumption DEF Slot, capacity
<1>7. IsFiniteSet(0 .. h) /\ Cardinality(0 .. h) = h + 1
  BY <1>2, FS_Interval
<1>8. IsFiniteSet(Occupied)
  <2>1. IsFiniteSet(Slots)
    BY <1>1, FS_Interval DEF Slots
  <2>2. Occupied \in SUBSET Slots
    BY DEF Occupied
  <2> QED
    BY <2>1, <2>2, FS_Subset
<1>9. Cardinality(Occupied) = size /\ size \in Nat /\ 2 * size < capacity
  BY DEF SizeIsExact, HalfEmpty, TypeOK
<1>10. Cardinality(Occupied) < Cardinality(0 .. h)
  BY <1>1, <1>2, <1>7, <1>9
<1>11. \E i, j \in 0 .. h : i # j /\ probe[i] = probe[j]
  <2> HIDE DEF probe
  <2> QED
    BY <1>5, <1>7, <1>8, <1>10, FS_PigeonHole
<1> QED
  BY <1>6, <1>11

-----------------------------------------------------------------------------
LEMMA OccupiedFinite ==
  ASSUME TypeOK
  PROVE  IsFiniteSet(Occupied)
<1>1. IsFiniteSet(Slots)
  BY CapacityType, FS_Interval DEF Slots
<1>2. Occupied \in SUBSET Slots
  BY DEF Occupied
<1> QED
  BY <1>1, <1>2, FS_Subset

(* A name whose probing has come to a free slot is not in the table.       *)
LEMMA FreshName ==
  ASSUME TypeOK, Reachable, NEW n \in Names, Passed(n), records[Slot(n, x)] = NULL
  PROVE  \A i \in Occupied : records[i].name # n
<1> SUFFICES ASSUME NEW i \in Occupied, records[i].name = n PROVE FALSE
  OBVIOUS
<1>1. PICK k \in 0 .. capacity \div 2 :
        /\ i = Slot(n, k)
        /\ \A j \in 0 .. k - 1 : Slot(n, j) \in Occupied /\ records[Slot(n, j)].name # n
  BY DEF Reachable
<1>2. k \in Nat /\ x \in Nat
  BY CapacityType DEF TypeOK
<1>3. k >= x
  <2> SUFFICES ASSUME k < x PROVE FALSE
    BY <1>2
  <2>1. k \in 0 .. x - 1
    BY <1>2
  <2> QED
    BY <1>1, <2>1 DEF Passed
<1>4. k # x
  BY <1>1 DEF Occupied
<1>5. x \in 0 .. k - 1
  BY <1>2, <1>3, <1>4
<1> QED
  BY <1>1, <1>5 DEF Occupied

(* The entry put into the free slot that its probing has come to.          *)
Filled == [records EXCEPT ![Slot(entry.name, x)] = entry]
FilledSlots == { i \in Slots : Filled[i] # NULL }

LEMMA FillFacts ==
  ASSUME TypeOK, Reachable, OneEntryPerName, SizeIsExact, Probed,
         pc = "insert", Here = NULL
  PROVE  /\ entry \in Entries /\ entry # NULL /\ entry.name \in Names
         /\ Slot(entry.name, x) \in Slots \ Occupied
         /\ Filled \in [Slots -> Entries \cup {NULL}]
         /\ FilledSlots = Occupied \cup {Slot(entry.name, x)}
         /\ IsFiniteSet(FilledSlots) /\ Cardinality(FilledSlots) = size + 1
         /\ \A i \in Occupied : Filled[i] = records[i] /\ records[i].name # entry.name
         /\ Filled[Slot(entry.name, x)] = entry
         /\ \A i, j \in FilledSlots : Filled[i].name = Filled[j].name => i = j
<1> DEFINE s == Slot(entry.name, x)
<1>1. entry \in Entries /\ entry # NULL /\ entry.name \in Names /\ x \in Nat
  BY DEF TypeOK, Entries
<1>2. s \in Slots
  BY <1>1, SlotType
<1>3. s \notin Occupied /\ records[s] = NULL
  BY DEF Here, Occupied
<1>4. records \in [Slots -> Entries \cup {NULL}]
  BY DEF TypeOK
<1>5. Filled \in [Slots -> Entries \cup {NULL}]
  BY <1>1, <1>4 DEF Filled
<1>6. Filled[s] = entry /\ \A i \in Slots \ {s} : Filled[i] = records[i]
  BY <1>2, <1>4 DEF Filled
<1>7. FilledSlots = Occupied \cup {s}
  BY <1>1, <1>2, <1>6 DEF FilledSlots, Occupied
<1>8. IsFiniteSet(FilledSlots) /\ Cardinality(FilledSlots) = size + 1
  <2>1. IsFiniteSet(Occupied) /\ Cardinality(Occupied) = size
    BY OccupiedFinite DEF SizeIsExact
  <2> QED
    BY <1>3, <1>7, <2>1, FS_AddElement
<1>9. \A i \in Occupied : records[i].name # entry.name
  BY <1>1, <1>3, FreshName DEF Probed
<1>10. \A i \in Occupied : Filled[i] = records[i]
  BY <1>3, <1>6 DEF Occupied
<1>11. \A i, j \in FilledSlots : Filled[i].name = Filled[j].name => i = j
  BY <1>6, <1>7, <1>9, <1>10 DEF OneEntryPerName
<1> QED
  BY <1>1, <1>2, <1>3, <1>5, <1>6, <1>7, <1>8, <1>9, <1>10, <1>11

-----------------------------------------------------------------------------
(* Steps that leave the table alone.                                       *)
LEMMA TableKept ==
  ASSUME UNCHANGED <<records, primeIndex, size>>
  PROVE  /\ Occupied' = Occupied /\ capacity' = capacity /\ Slots' = Slots
         /\ \A n, k : Slot(n, k)' = Slot(n, k)
         /\ Reachable => Reachable'
         /\ OneEntryPerName => OneEntryPerName'
         /\ SizeIsExact => SizeIsExact'
         /\ HalfEmpty => HalfEmpty'
<1>1. capacity' = capacity /\ Slots' = Slots
  BY DEF capacity, Slots
<1>2. Occupied' = Occupied
  BY <1>1 DEF Occupied
<1>3. \A n, k : Slot(n, k)' = Slot(n, k)
  BY <1>1 DEF Slot, Home
<1>4. Reachable => Reachable'
  BY <1>1, <1>2, <1>3 DEF Reachable
<1> QED
  BY <1>1, <1>2, <1>3, <1>4 DEF OneEntryPerName, SizeIsExact, HalfEmpty

(* insert_in_symbol_table() fills a free slot and does not grow the table. *)
LEMMA TakesSlotKeepsTable ==
  ASSUME TypeOK, Reachable, OneEntryPerName, SizeIsExact, HalfEmpty, Probed,
         InsertTakesSlot
  PROVE  /\ Occupied' = Occupied \cup {Slot(entry.name, x)}
         /\ records' = Filled /\ capacity' = capacity
         /\ Reachable' /\ OneEntryPerName' /\ SizeIsExact' /\ HalfEmpty'
<1> DEFINE s == Slot(entry.name, x)
<1>1. pc = "insert" /\ Here = NULL /\ records' = Filled /\ primeIndex' = primeIndex
      /\ size' = size + 1 /\ 2 * (size + 1) < capacity
  BY DEF InsertTakesSlot, Filled
<1>2. capacity' = capacity /\ Slots' = Slots
  BY <1>1 DEF capacity, Slots
<1>3. Occupied' = FilledSlots
  BY <1>1, <1>2 DEF Occupied, FilledSlots
<1>4. \A n, k : Slot(n, k)' = Slot(n, k)
  BY <1>2 DEF Slot, Home
<1>5. Occupied' = Occupied \cup {s} /\ s \in Slots \ Occupied /\ entry.name \in Names
      /\ records'[s] = entry
      /\ \A i \in Occupied : records'[i] = records[i] /\ records[i].name # entry.name
  BY <1>1, <1>3, FillFacts
<1>6. x \in 0 .. capacity \div 2
  <2>1. x \in Nat
    BY DEF TypeOK
  <2>2. \A j \in 0 .. x - 1 : Slot(entry.name, j) \in Occupied
    BY <1>1 DEF Probed, Passed
  <2>3. x <= capacity \div 2
    BY <1>5, <2>1, <2>2, SomeProbeIsFree
  <2> QED
    BY <2>1, <2>3, CapacityType
<1>7. Reachable'
  <2> SUFFICES ASSUME NEW i \in Occupied'
               PROVE  \E k \in 0 .. capacity \div 2 :
                        /\ i = Slot(records'[i].name, k)
                        /\ \A j \in 0 .. k - 1 :
                             /\ Slot(records'[i].name, j) \in Occupied'
                             /\ records'[Slot(records'[i].name, j)].name # records'[i].name
    BY <1>2, <1>4 DEF Reachable
  <2>1. CASE i = s
    <3>1. /\ i = Slot(entry.name, x)
          /\ \A j \in 0 .. x - 1 :
               Slot(entry.name, j) \in Occupied
                 /\ records[Slot(entry.name, j)].name # entry.name
      BY <1>1, <2>1 DEF Probed, Passed
    <3> QED
      BY <1>5, <1>6, <2>1, <3>1
  <2>2. CASE i \in Occupied
    <3>1. PICK k \in 0 .. capacity \div 2 :
            /\ i = Slot(records[i].name, k)
            /\ \A j \in 0 .. k - 1 :
                 Slot(records[i].name, j) \in Occupied
                   /\ records[Slot(records[i].name, j)].name # records[i].name
      BY <2>2 DEF Reachable
    <3> QED
      BY <1>5, <2>2, <3>1
  <2> QED
    BY <1>5, <2>1, <2>2
<1>8. OneEntryPerName'
  BY <1>1, <1>3, FillFacts DEF OneEntryPerName
<1>9. SizeIsExact' /\ HalfEmpty'
  BY <1>1, <1>2, <1>3, FillFacts DEF SizeIsExact, HalfEmpty
<1> QED
  BY <1>1, <1>2, <1>5, <1>7, <1>8, <1>9

(* It replaces the entry of its name.                                      *)
LEMMA ReplacesKeepsTable ==
  ASSUME TypeOK, Reachable, OneEntryPerName, SizeIsExact, HalfEmpty, InsertReplaces
  PROVE  /\ Occupied' = Occupied /\ capacity' = capacity
         /\ Slot(entry.name, x) \in Occupied
         /\ records[Slot(entry.name, x)].name = entry.name
         /\ records' = [records EXCEPT ![Slot(entry.name, x)] = entry]
         /\ Reachable' /\ OneEntryPerName' /\ SizeIsExact' /\ HalfEmpty'
<1> DEFINE s == Slot(entry.name, x)
<1>1. entry \in Entries /\ entry # NULL /\ entry.name \in Names /\ x \in Nat
  BY DEF TypeOK, Entries, InsertReplaces
<1>2. s \in Slots /\ records[s] # NULL /\ records[s].name = entry.name
  BY <1>1, SlotType DEF InsertReplaces, Here
<1>3. capacity' = capacity /\ Slots' = Slots /\ size' = size
  BY DEF InsertReplaces, capacity, Slots
<1>4. \A n, k : Slot(n, k)' = Slot(n, k)
  BY <1>3 DEF Slot, Home
<1>5. /\ records' = [records EXCEPT ![s] = entry]
      /\ \A i \in Slots : records'[i] = IF i = s THEN entry ELSE records[i]
  BY DEF InsertReplaces, TypeOK
<1>6. Occupied' = Occupied /\ s \in Occupied
  BY <1>1, <1>2, <1>3, <1>5 DEF Occupied
<1>7. \A i \in Occupied : records'[i].name = records[i].name
  BY <1>2, <1>5 DEF Occupied
<1>8. Reachable'
  <2> SUFFICES ASSUME NEW i \in Occupied
               PROVE  \E k \in 0 .. capacity \div 2 :
                        /\ i = Slot(records[i].name, k)
                        /\ \A j \in 0 .. k - 1 :
                             /\ Slot(records[i].name, j) \in Occupied
                             /\ records'[Slot(records[i].name, j)].name # records[i].name
    BY <1>3, <1>4, <1>6, <1>7 DEF Reachable
  <2> QED
    BY <1>7 DEF Reachable
<1>9. OneEntryPerName'
  BY <1>6, <1>7 DEF OneEntryPerName
<1> QED
  BY <1>2, <1>3, <1>5, <1>6, <1>8, <1>9 DEF SizeIsExact, HalfEmpty

-----------------------------------------------------------------------------
(* The grow_symbol_table() in progress.                                    *)
LEMMA FrameFacts ==
  ASSUME Growth, growing # <<>>
  PROVE  /\ growing = <<growing[1]>> /\ IsFrame(growing[1])
         /\ Len(growing) = 1 /\ Frame = growing[1]
         /\ NextFrame = <<[old |-> growing[1].old, at |-> growing[1].at + 1]>>
         /\ SubSeq(growing, 1, Len(growing) - 1) = <<>>
         /\ Done(growing) = "grow"
<1> DEFINE f == growing[1]
<1>1. growing = <<f>> /\ IsFrame(f)
  BY DEF Growth
<1>2. Len(growing) = 1 /\ Frame = f
  BY <1>1 DEF Frame
<1>3. f = [old |-> f.old, at |-> f.at]
  BY <1>1 DEF IsFrame
<1>4. NextFrame = <<[f EXCEPT !.at = @ + 1]>>
  BY <1>1, <1>2 DEF NextFrame
<1>5. [f EXCEPT !.at = @ + 1] = [old |-> f.old, at |-> f.at + 1]
  BY <1>3
<1>6. SubSeq(growing, 1, Len(growing) - 1) = <<>>
  BY <1>2
<1> QED
  BY <1>1, <1>2, <1>4, <1>5, <1>6 DEF Done

LEMMA FrameType ==
  ASSUME TypeOK, NEW f, IsFrame(f)
  PROVE  f.at \in Nat /\ DOMAIN f.old \subseteq Int
         /\ f.old \in [DOMAIN f.old -> Entries \cup {NULL}]
         /\ \E b \in Int : DOMAIN f.old = 0 .. b
<1>1. primeIndex - 1 \in 1 .. Len(Primes)
  BY PrimesAssumption DEF TypeOK, IsFrame
<1>2. PICK b \in Int : b = Primes[primeIndex - 1] - 1
  BY <1>1, PrimesAssumption
<1>3. f.at \in Nat /\ f.old \in [0 .. b -> Entries \cup {NULL}]
  BY <1>2 DEF IsFrame
<1> QED
  BY <1>3

LEMMA LeftFinite ==
  ASSUME TypeOK, NEW f, IsFrame(f)
  PROVE  IsFiniteSet(Left(f)) /\ Cardinality(Left(f)) \in Nat
<1>1. primeIndex - 1 \in 1 .. Len(Primes) /\ Primes[primeIndex - 1] - 1 \in Int
  BY SMTT(30), PrimesAssumption DEF TypeOK, IsFrame
<1>2. IsFiniteSet(0 .. Primes[primeIndex - 1] - 1)
  <2>1. \A b \in Int : IsFiniteSet(0 .. b)
    BY FS_Interval
  <2> QED
    BY <1>1, <2>1
<1>3. Left(f) \in SUBSET (0 .. Primes[primeIndex - 1] - 1)
  BY DEF Left, IsFrame
<1> QED
  BY <1>2, <1>3, FS_Subset, FS_CardinalityType

-----------------------------------------------------------------------------
(* Every step keeps the inductive invariant.                               *)
LEMMA InitInv == Init => IInv
<1> SUFFICES ASSUME Init PROVE IInv
  OBVIOUS
<1>1. primeIndex = 1 /\ capacity = Primes[1] /\ capacity \in Nat /\ capacity >= 2
  BY PrimesAssumption DEF Init, capacity
<1>2. TypeOK
  BY <1>1 DEF Init, TypeOK, Empty, Slots, Entries
<1>3. Occupied = {}
  BY <1>1 DEF Init, Occupied, Slots, Empty
<1>4. SizeIsExact /\ HalfEmpty
  BY <1>1, <1>3, FS_EmptySet DEF Init, SizeIsExact, HalfEmpty
<1>5. Reachable /\ OneEntryPerName
  BY <1>3 DEF Reachable, OneEntryPerName
<1> QED
  BY <1>2, <1>4, <1>5 DEF IInv, Init, Growth, Probed, RoomLeft, Apart

LEMMA BeginInsertInv ==
  ASSUME IInv, NEW e \in Entries, BeginInsert(e)
  PROVE  IInv'
<1> USE DEF BeginInsert
<1>1. e # NULL /\ growing = <<>>
  BY NullAssumption DEF IInv, Growth, Entries
<1>2. TypeOK'
  BY <1>1, TableKept DEF IInv, TypeOK
<1>3. Reachable' /\ OneEntryPerName' /\ SizeIsExact' /\ HalfEmpty'
  BY TableKept DEF IInv
<1>4. Growth' /\ RoomLeft' /\ Apart'
  BY <1>1 DEF Growth, RoomLeft, Apart
<1>5. Probed'
  BY DEF Probed, Passed
<1> QED
  BY <1>2, <1>3, <1>4, <1>5 DEF IInv

LEMMA InsertCollidesInv ==
  ASSUME IInv, InsertCollides
  PROVE  IInv'
<1> USE DEF InsertCollides
<1>1. TypeOK'
  BY TableKept DEF IInv, TypeOK
<1>2. Reachable' /\ OneEntryPerName' /\ SizeIsExact' /\ HalfEmpty'
  BY TableKept DEF IInv
<1>3. Growth'
  BY DEF IInv, Growth, IsFrame
<1>4. RoomLeft' /\ Apart'
  BY TableKept DEF IInv, RoomLeft, Apart, InFlight, Left
<1>5. Probed'
  <2>1. x \in Nat /\ entry.name \in Names /\ Passed(entry.name)
    BY DEF IInv, TypeOK, Probed, Entries
  <2>2. Slot(entry.name, x) \in Occupied /\ records[Slot(entry.name, x)].name # entry.name
    BY <2>1, SlotType DEF Here, Occupied, IInv
  <2>3. \A j \in 0 .. x : j = x \/ j \in 0 .. x - 1
    BY <2>1
  <2>4. \A j \in 0 .. x' - 1 :
          Slot(entry.name, j) \in Occupied /\ records[Slot(entry.name, j)].name # entry.name
    BY <2>1, <2>2, <2>3 DEF Passed
  <2> QED
    BY <2>4, TableKept DEF Probed, Passed
<1> QED
  BY <1>1, <1>2, <1>3, <1>4, <1>5 DEF IInv

LEMMA InsertReplacesInv ==
  ASSUME IInv, InsertReplaces
  PROVE  IInv'
<1>1. TypeOK /\ Growth /\ Reachable /\ OneEntryPerName /\ SizeIsExact /\ HalfEmpty
      /\ Probed /\ RoomLeft /\ Apart
  BY DEF IInv
<1>2. /\ Occupied' = Occupied /\ capacity' = capacity
      /\ Slot(entry.name, x) \in Occupied
      /\ records[Slot(entry.name, x)].name = entry.name
      /\ records' = [records EXCEPT ![Slot(entry.name, x)] = entry]
      /\ Reachable' /\ OneEntryPerName' /\ SizeIsExact' /\ HalfEmpty'
  BY <1>1, ReplacesKeepsTable
<1>3. growing = <<>>
  BY <1>1, <1>2 DEF Apart, InsertReplaces
<1>4. pc' = "idle" /\ growing' = <<>>
  BY <1>3 DEF InsertReplaces, Done
<1>5. TypeOK'
  BY <1>1, <1>2, <1>4 DEF InsertReplaces, TypeOK, Slots
<1>6. Growth' /\ Probed' /\ RoomLeft' /\ Apart'
  BY <1>4 DEF Growth, Probed, RoomLeft, Apart
<1> QED
  BY <1>2, <1>5, <1>6 DEF IInv

LEMMA InsertTakesSlotInv ==
  ASSUME IInv, InsertTakesSlot
  PROVE  IInv'
<1> DEFINE s == Slot(entry.name, x)
<1>1. TypeOK /\ Growth /\ Reachable /\ OneEntryPerName /\ SizeIsExact /\ HalfEmpty
      /\ Probed /\ RoomLeft /\ Apart
  BY DEF IInv
<1>2. /\ Occupied' = Occupied \cup {s}
      /\ records' = Filled /\ capacity' = capacity
      /\ Reachable' /\ OneEntryPerName' /\ SizeIsExact' /\ HalfEmpty'
  BY <1>1, TakesSlotKeepsTable
<1>3. /\ pc = "insert" /\ pc' = Done(growing) /\ growing' = growing /\ size' = size + 1
      /\ primeIndex' = primeIndex /\ entry' = NULL /\ key' = key /\ x' = x /\ Here = NULL
  BY DEF InsertTakesSlot
<1>4. TypeOK'
  <2>1. Filled \in [Slots -> Entries \cup {NULL}]
    BY <1>1, <1>3, FillFacts
  <2> QED
    BY <1>1, <1>2, <1>3, <2>1 DEF TypeOK, Slots, Done
<1>5. Probed'
  BY <1>3 DEF Probed, Done
<1>6. Growth'
  BY <1>1, <1>3 DEF Growth, Done, IsFrame
<1>7. RoomLeft'
  <2> SUFFICES ASSUME growing # <<>>
               PROVE  2 * (size' + Cardinality(Left(growing[1])) + InFlight') < capacity'
    BY <1>3 DEF RoomLeft, Left
  <2>1. Cardinality(Left(growing[1])) \in Nat /\ size \in Nat
    BY <1>1, LeftFinite, FrameFacts DEF TypeOK
  <2>2. InFlight = 1 /\ InFlight' = 0
    BY <1>3 DEF InFlight, Done
  <2>3. 2 * (size + Cardinality(Left(growing[1])) + 1) < capacity
    BY <1>1, <2>2 DEF RoomLeft
  <2> QED
    BY <1>1, <1>2, <1>3, <2>1, <2>2, <2>3, CapacityType
<1>8. Apart'
  <2> SUFFICES ASSUME growing # <<>>
               PROVE  /\ \A i, j \in Left(growing[1]) :
                           growing[1].old[i].name = growing[1].old[j].name => i = j
                      /\ \A i \in Left(growing[1]), j \in Occupied' :
                           growing[1].old[i].name # records'[j].name
    BY <1>3 DEF Apart, Left, Done
  <2>1. /\ \A i, j \in Left(growing[1]) :
             growing[1].old[i].name = growing[1].old[j].name => i = j
        /\ \A i \in Left(growing[1]), j \in Occupied :
             growing[1].old[i].name # records[j].name
        /\ \A i \in Left(growing[1]) : growing[1].old[i].name # entry.name
    BY <1>1, <1>3 DEF Apart
  <2>2. records'[s] = entry /\ \A i \in Occupied : records'[i] = records[i]
    BY <1>1, <1>2, <1>3, FillFacts
  <2> QED
    BY <1>2, <2>1, <2>2
<1> QED
  BY <1>2, <1>4, <1>5, <1>6, <1>7, <1>8 DEF IInv

LEMMA InsertAndGrowInv ==
  ASSUME IInv, InsertAndGrow
  PROVE  IInv' /\ growing = <<>>
<1> DEFINE f == [old |-> Filled, at |-> 0]
<1>1. TypeOK /\ Growth /\ Reachable /\ OneEntryPerName /\ SizeIsExact /\ HalfEmpty
      /\ Probed /\ RoomLeft /\ Apart
  BY DEF IInv
<1>2. /\ pc = "insert" /\ pc' = "grow" /\ Here = NULL
      /\ growing' = Append(growing, f)
      /\ primeIndex' = primeIndex + 1 /\ primeIndex < Len(Primes)
      /\ records' = Empty(Primes[primeIndex + 1]) /\ size' = 0
      /\ entry' = NULL /\ key' = key /\ x' = x
      /\ 2 * (size + 1) >= capacity
  BY DEF InsertAndGrow, Filled
<1>3. size \in Nat /\ capacity \in Nat /\ 2 * size < capacity
  BY <1>1, CapacityType DEF TypeOK, HalfEmpty
<1>4. growing = <<>>
  <2> SUFFICES ASSUME growing # <<>> PROVE FALSE
    OBVIOUS
  <2>1. Cardinality(Left(growing[1])) \in Nat
    BY <1>1, LeftFinite, FrameFacts
  <2>2. 2 * (size + Cardinality(Left(growing[1])) + 1) < capacity
    BY <1>1, <1>2 DEF RoomLeft, InFlight
  <2> QED
    BY <1>2, <1>3, <2>1, <2>2
<1>5. growing' = <<f>> /\ growing'[1] = f
  BY <1>2, <1>4
<1>6. primeIndex \in 1 .. Len(Primes) /\ primeIndex' \in 1 .. Len(Primes)
      /\ primeIndex' > 1 /\ primeIndex' - 1 = primeIndex
  BY <1>1, <1>2 DEF TypeOK
<1>7. /\ capacity' = Primes[primeIndex + 1] /\ capacity' \in Nat /\ capacity' >= 2
      /\ capacity' > capacity + 1
  BY <1>1, <1>2, <1>6, PrimesAssumption DEF TypeOK, capacity
<1>8. Filled \in [Slots -> Entries \cup {NULL}]
  BY <1>1, <1>2, FillFacts
<1>9. TypeOK'
  BY <1>1, <1>2, <1>6, <1>7 DEF TypeOK, Slots, Empty
<1>10. Occupied' = {}
  BY <1>2, <1>7 DEF Occupied, Slots, Empty
<1>11. Reachable' /\ OneEntryPerName'
  BY <1>10 DEF Reachable, OneEntryPerName
<1>12. SizeIsExact' /\ HalfEmpty'
  BY <1>2, <1>7, <1>10, FS_EmptySet DEF SizeIsExact, HalfEmpty
<1>13. Growth'
  <2>1. DOMAIN Filled = Slots /\ Slots = 0 .. Primes[primeIndex' - 1] - 1
    BY <1>6, <1>8 DEF Slots, capacity
  <2>2. Filled \in [0 .. Primes[primeIndex' - 1] - 1 -> Entries \cup {NULL}]
    BY <1>8, <2>1
  <2>3. f.old = Filled /\ f.at = 0
    OBVIOUS
  <2>4. IsFrame(growing[1])'
    BY <1>5, <1>6, <2>2, <2>3 DEF IsFrame
  <2>5. growing' = <<growing'[1]>> /\ growing' # <<>>
    BY <1>5
  <2> QED
    BY <1>2, <2>4, <2>5 DEF Growth
<1>14. Left(f) = FilledSlots
  BY <1>8 DEF Left, FilledSlots, Slots
<1>15. RoomLeft'
  <2>1. Cardinality(Left(growing'[1])) = size + 1
    BY <1>1, <1>2, <1>5, <1>14, FillFacts
  <2>2. InFlight' = 0
    BY <1>2 DEF InFlight
  <2>3. 2 * (0 + (size + 1) + 0) < capacity'
    BY <1>3, <1>7
  <2> QED
    BY <1>2, <2>1, <2>2, <2>3 DEF RoomLeft, Left
<1>16. Apart'
  <2>1. \A i, j \in Left(f) : f.old[i].name = f.old[j].name => i = j
    BY <1>1, <1>2, <1>14, FillFacts
  <2> QED
    BY <1>2, <1>5, <1>10, <2>1 DEF Apart, Left
<1>17. Probed'
  BY <1>2 DEF Probed
<1> QED
  BY <1>4, <1>9, <1>11, <1>12, <1>13, <1>15, <1>16, <1>17 DEF IInv

(* What the loop of grow_symbol_table() has left to do.                    *)
LEMMA LeftAfter ==
  ASSUME NEW f, f.at \in Nat, DOMAIN f.old \subseteq Int
  PROVE  LET g == [old |-> f.old, at |-> f.at + 1]
         IN  Left(g) = Left(f) \ {f.at} /\ g.old = f.old
<1> DEFINE g == [old |-> f.old, at |-> f.at + 1]
<1>1. g.old = f.old /\ g.at = f.at + 1
  OBVIOUS
<1>2. Left(g) = { j \in DOMAIN f.old : j >= f.at + 1 /\ f.old[j] # NULL }
  BY <1>1 DEF Left
<1>3. Left(f) = { j \in DOMAIN f.old : j >= f.at /\ f.old[j] # NULL }
  BY DEF Left
<1> QED
  BY <1>1, <1>2, <1>3

LEMMA GrowSkipsInv ==
  ASSUME IInv, GrowSkips
  PROVE  IInv'
<1> DEFINE f == growing[1]
           g == [old |-> f.old, at |-> f.at + 1]
<1>1. TypeOK /\ Growth /\ Reachable /\ OneEntryPerName /\ SizeIsExact /\ HalfEmpty
      /\ Probed /\ RoomLeft /\ Apart
  BY DEF IInv
<1>2. /\ pc = "grow" /\ growing # <<>> /\ growing' = NextFrame
      /\ UNCHANGED <<records, primeIndex, size, pc, entry, key, x>>
      /\ Frame.old[Frame.at] = NULL
  BY <1>1 DEF GrowSkips, Growth
<1>3. IsFrame(f) /\ Frame = f /\ growing' = <<g>> /\ growing'[1] = g
  BY <1>1, <1>2, FrameFacts
<1>4. Left(g) = Left(f) \ {f.at} /\ g.old = f.old
  <2>1. f.at \in Nat /\ DOMAIN f.old \subseteq Int
    BY <1>1, <1>3, FrameType
  <2> QED
    BY <2>1, LeftAfter
<1>5. Left(g) = Left(f)
  BY <1>2, <1>3, <1>4 DEF Left
<1>6. TypeOK'
  BY <1>1, <1>2, TableKept DEF TypeOK
<1>7. Reachable' /\ OneEntryPerName' /\ SizeIsExact' /\ HalfEmpty'
  BY <1>1, <1>2, TableKept
<1>8. Growth'
  <2>1. IsFrame(g)
    BY <1>3, <1>4 DEF IsFrame
  <2>2. IsFrame(growing[1])'
    BY <1>2, <1>3, <2>1 DEF IsFrame
  <2>3. growing' = <<growing'[1]>> /\ growing' # <<>>
    BY <1>3
  <2> QED
    BY <1>2, <2>2, <2>3 DEF Growth
<1>9. RoomLeft'
  <2>1. 2 * (size + Cardinality(Left(g)) + InFlight) < capacity
    BY <1>1, <1>2, <1>5 DEF RoomLeft
  <2>2. size' = size /\ InFlight' = InFlight /\ capacity' = capacity
    BY <1>2, TableKept DEF InFlight
  <2> QED
    BY <1>3, <2>1, <2>2 DEF RoomLeft, Left
<1>10. Apart'
  <2>1. Occupied' = Occupied /\ records' = records /\ pc' = "grow"
    BY <1>2, TableKept
  <2>2. /\ \A i, j \in Left(g) : g.old[i].name = g.old[j].name => i = j
        /\ \A i \in Left(g), j \in Occupied : g.old[i].name # records[j].name
    BY <1>1, <1>2, <1>4, <1>5 DEF Apart
  <2> QED
    BY <1>3, <2>1, <2>2 DEF Apart, Left
<1>11. Probed'
  BY <1>2 DEF Probed
<1> QED
  BY <1>6, <1>7, <1>8, <1>9, <1>10, <1>11 DEF IInv

LEMMA GrowReinsertsInv ==
  ASSUME IInv, GrowReinserts
  PROVE  IInv'
<1> DEFINE f == growing[1]
           g == [old |-> f.old, at |-> f.at + 1]
<1>1. TypeOK /\ Growth /\ Reachable /\ OneEntryPerName /\ SizeIsExact /\ HalfEmpty
      /\ Probed /\ RoomLeft /\ Apart
  BY DEF IInv
<1>2. /\ pc = "grow" /\ pc' = "insert" /\ growing # <<>> /\ growing' = NextFrame
      /\ UNCHANGED <<records, primeIndex, size, key>>
      /\ Frame.at \in DOMAIN Frame.old /\ Frame.old[Frame.at] # NULL
      /\ entry' = Frame.old[Frame.at] /\ x' = 0
  BY <1>1 DEF GrowReinserts, Growth, OldSlots
<1>3. IsFrame(f) /\ Frame = f /\ growing' = <<g>> /\ growing'[1] = g
  BY <1>1, <1>2, FrameFacts
<1>4. Left(g) = Left(f) \ {f.at} /\ g.old = f.old
  <2>1. f.at \in Nat /\ DOMAIN f.old \subseteq Int
    BY <1>1, <1>3, FrameType
  <2> QED
    BY <2>1, LeftAfter
<1>5. f.at \in Left(f) /\ entry' = f.old[f.at] /\ entry' \in Entries
  <2>1. f.at \in Nat /\ f.old \in [DOMAIN f.old -> Entries \cup {NULL}]
    BY <1>1, <1>3, FrameType
  <2>2. f.at \in DOMAIN f.old /\ f.old[f.at] # NULL /\ entry' = f.old[f.at]
    BY <1>2, <1>3
  <2> HIDE DEF f
  <2> QED
    BY <2>1, <2>2 DEF Left
<1>6. TypeOK'
  BY <1>1, <1>2, <1>5, TableKept, NullAssumption DEF TypeOK, Entries
<1>7. Reachable' /\ OneEntryPerName' /\ SizeIsExact' /\ HalfEmpty'
  BY <1>1, <1>2, TableKept
<1>8. Growth'
  <2>1. IsFrame(g)
    BY <1>3, <1>4 DEF IsFrame
  <2>2. IsFrame(growing[1])'
    BY <1>2, <1>3, <2>1 DEF IsFrame
  <2>3. growing' = <<growing'[1]>> /\ growing' # <<>>
    BY <1>3
  <2> QED
    BY <1>2, <2>2, <2>3 DEF Growth
<1>9. RoomLeft'
  <2>1. IsFiniteSet(Left(f)) /\ Cardinality(Left(f)) \in Nat
    BY <1>1, <1>3, LeftFinite
  <2>2. Cardinality(Left(g)) = Cardinality(Left(f)) - 1
    BY <1>4, <1>5, <2>1, FS_RemoveElement
  <2>3. 2 * (size + Cardinality(Left(f)) + 0) < capacity
    BY <1>1, <1>2 DEF RoomLeft, InFlight
  <2>4. size \in Nat /\ capacity \in Nat
    BY <1>1, CapacityType DEF TypeOK
  <2>5. 2 * (size + Cardinality(Left(g)) + 1) < capacity
    BY <2>1, <2>2, <2>3, <2>4
  <2>6. size' = size /\ InFlight' = 1 /\ capacity' = capacity
    BY <1>2, TableKept DEF InFlight
  <2> QED
    BY <1>3, <2>5, <2>6 DEF RoomLeft, Left
<1>10. Apart'
  <2>1. Occupied' = Occupied /\ records' = records
    BY <1>2, TableKept
  <2>2. /\ \A i, j \in Left(f) : f.old[i].name = f.old[j].name => i = j
        /\ \A i \in Left(f), j \in Occupied : f.old[i].name # records[j].name
    BY <1>1, <1>2 DEF Apart
  <2>3. /\ \A i, j \in Left(g) : g.old[i].name = g.old[j].name => i = j
        /\ \A i \in Left(g), j \in Occupied : g.old[i].name # records[j].name
        /\ \A i \in Left(g) : g.old[i].name # entry'.name
        /\ \A j \in Occupied : records[j].name # entry'.name
    BY <1>4, <1>5, <2>2
  <2> QED
    BY <1>3, <2>1, <2>3 DEF Apart, Left
<1>11. Probed'
  BY <1>2 DEF Probed, Passed
<1> QED
  BY <1>6, <1>7, <1>8, <1>9, <1>10, <1>11 DEF IInv

LEMMA GrowReturnsInv ==
  ASSUME IInv, GrowReturns
  PROVE  IInv'
<1>1. TypeOK /\ Growth /\ Reachable /\ OneEntryPerName /\ SizeIsExact /\ HalfEmpty
      /\ Probed /\ RoomLeft /\ Apart
  BY DEF IInv
<1>2. pc = "grow" /\ growing # <<>>
  BY <1>1 DEF GrowReturns, Growth
<1>3. growing' = <<>> /\ pc' = "idle" /\ UNCHANGED <<records, primeIndex, size, entry, key, x>>
  BY <1>1, <1>2, FrameFacts DEF GrowReturns, Done
<1>4. TypeOK'
  BY <1>1, <1>2, <1>3, TableKept DEF TypeOK
<1>5. Reachable' /\ OneEntryPerName' /\ SizeIsExact' /\ HalfEmpty'
  BY <1>1, <1>3, TableKept
<1> QED
  BY <1>3, <1>4, <1>5 DEF IInv, Growth, Probed, RoomLeft, Apart

LEMMA BeginSearchInv ==
  ASSUME IInv, NEW n \in Names, BeginSearch(n)
  PROVE  IInv'
<1> USE DEF BeginSearch
<1>1. n # NULL /\ growing = <<>>
  BY NullAssumption DEF IInv, Growth
<1>2. TypeOK'
  BY <1>1, TableKept DEF IInv, TypeOK
<1>3. Reachable' /\ OneEntryPerName' /\ SizeIsExact' /\ HalfEmpty'
  BY TableKept DEF IInv
<1>4. Growth' /\ RoomLeft' /\ Apart'
  BY <1>1 DEF Growth, RoomLeft, Apart
<1>5. Probed'
  BY DEF Probed, Passed
<1> QED
  BY <1>2, <1>3, <1>4, <1>5 DEF IInv

LEMMA SearchCollidesInv ==
  ASSUME IInv, SearchCollides
  PROVE  IInv'
<1> USE DEF SearchCollides
<1>1. TypeOK'
  BY TableKept DEF IInv, TypeOK
<1>2. Reachable' /\ OneEntryPerName' /\ SizeIsExact' /\ HalfEmpty'
  BY TableKept DEF IInv
<1>3. growing = <<>> /\ growing' = <<>>
  BY DEF IInv, Growth
<1>4. Growth' /\ RoomLeft' /\ Apart'
  BY <1>3 DEF Growth, RoomLeft, Apart
<1>5. Probed'
  <2>1. x \in Nat /\ key \in Names /\ Passed(key)
    BY DEF IInv, TypeOK, Probed
  <2>2. Slot(key, x) \in Occupied /\ records[Slot(key, x)].name # key
    BY <2>1, SlotType DEF Looked, Occupied, IInv
  <2>3. \A j \in 0 .. x : j = x \/ j \in 0 .. x - 1
    BY <2>1
  <2>4. \A j \in 0 .. x' - 1 :
          Slot(key, j) \in Occupied /\ records[Slot(key, j)].name # key
    BY <2>1, <2>2, <2>3 DEF Passed
  <2> QED
    BY <2>4, TableKept DEF Probed, Passed
<1> QED
  BY <1>1, <1>2, <1>4, <1>5 DEF IInv

LEMMA AnswerInv ==
  ASSUME IInv, SearchFinds \/ SearchFails
  PROVE  IInv'
<1>1. /\ pc = "search" /\ pc' = "idle" /\ key' = NULL
      /\ UNCHANGED <<records, primeIndex, size, entry, x, growing>>
  BY DEF SearchFinds, SearchFails, Answer
<1>2. TypeOK'
  BY <1>1, TableKept, NullAssumption DEF IInv, TypeOK
<1>3. Reachable' /\ OneEntryPerName' /\ SizeIsExact' /\ HalfEmpty'
  BY <1>1, TableKept DEF IInv
<1>4. growing = <<>> /\ growing' = <<>>
  BY <1>1 DEF IInv, Growth
<1> QED
  BY <1>1, <1>2, <1>3, <1>4 DEF IInv, Growth, RoomLeft, Apart, Probed

LEMMA StutterInv ==
  ASSUME IInv, UNCHANGED vars
  PROVE  IInv'
<1>1. Reachable' /\ OneEntryPerName' /\ SizeIsExact' /\ HalfEmpty'
      /\ Occupied' = Occupied /\ capacity' = capacity /\ Slots' = Slots
      /\ \A n, k : Slot(n, k)' = Slot(n, k)
  BY TableKept DEF IInv, vars
<1>2. TypeOK' /\ Growth'
  BY <1>1 DEF IInv, vars, TypeOK, Growth, IsFrame
<1>3. Probed' /\ RoomLeft' /\ Apart'
  BY <1>1 DEF IInv, vars, Probed, Passed, RoomLeft, InFlight, Apart, Left
<1> QED
  BY <1>1, <1>2, <1>3 DEF IInv

LEMMA NextInv == IInv /\ [Next]_vars => IInv'
<1> SUFFICES ASSUME IInv, [Next]_vars PROVE IInv'
  OBVIOUS
<1>1. CASE \E e \in Entries : BeginInsert(e)
  BY <1>1, BeginInsertInv
<1>2. CASE \E n \in Names : BeginSearch(n)
  BY <1>2, BeginSearchInv
<1>3. CASE Insert
  BY <1>3, InsertCollidesInv, InsertReplacesInv, InsertTakesSlotInv, InsertAndGrowInv
     DEF Insert
<1>4. CASE Grow
  BY <1>4, GrowSkipsInv, GrowReinsertsInv, GrowReturnsInv DEF Grow
<1>5. CASE Search
  BY <1>5, SearchCollidesInv, AnswerInv DEF Search
<1>6. CASE UNCHANGED vars
  BY <1>6, StutterInv
<1> QED
  BY <1>1, <1>2, <1>3, <1>4, <1>5, <1>6 DEF Next

-----------------------------------------------------------------------------
(* The inductive invariant holds of every state of every run.              *)
THEOREM InvariantHolds == Spec => []IInv
<1>1. Init => IInv
  BY InitInv
<1>2. IInv /\ [Next]_vars => IInv'
  BY NextInv
<1> QED
  BY <1>1, <1>2, PTL DEF Spec

(* The variables of a symbol table always have their types.                *)
THEOREM TypeCorrect == Spec => []TypeOK
<1>1. IInv => TypeOK
  BY DEF IInv
<1> QED
  BY <1>1, InvariantHolds, PTL

(* Every entry stands where a search for its name meets it before an empty *)
(* slot, while the table grows too.                                        *)
THEOREM EntriesReachable == Spec => []Reachable
<1>1. IInv => Reachable
  BY DEF IInv
<1> QED
  BY <1>1, InvariantHolds, PTL

(* No name ever has two entries.                                           *)
THEOREM NamesUnique == Spec => []OneEntryPerName
<1>1. IInv => OneEntryPerName
  BY DEF IInv
<1> QED
  BY <1>1, InvariantHolds, PTL

(* size is the number of entries, in the middle of a growth too.           *)
THEOREM SizeCorrect == Spec => []SizeIsExact
<1>1. IInv => SizeIsExact
  BY DEF IInv
<1> QED
  BY <1>1, InvariantHolds, PTL

(* A probe loop is bounded by half the capacity, whatever the names hash to.*)
THEOREM ProbingBounded == Spec => []ProbingEnds
<1>1. IInv => ProbingEnds
  <2> SUFFICES ASSUME IInv, pc \in {"insert", "search"} PROVE x <= capacity \div 2
    BY DEF ProbingEnds
  <2>1. TypeOK /\ SizeIsExact /\ HalfEmpty /\ x \in Nat
    BY DEF IInv, TypeOK
  <2>2. CASE pc = "insert"
    <3>1. entry.name \in Names
      BY <2>1, <2>2 DEF TypeOK, Entries
    <3>2. \A j \in 0 .. x - 1 : Slot(entry.name, j) \in Occupied
      BY <2>2 DEF IInv, Probed, Passed
    <3> QED
      BY <2>1, <3>1, <3>2, SomeProbeIsFree
  <2>3. CASE pc = "search"
    <3>1. key \in Names
      BY <2>1, <2>3 DEF TypeOK
    <3>2. \A j \in 0 .. x - 1 : Slot(key, j) \in Occupied
      BY <2>3 DEF IInv, Probed, Passed
    <3> QED
      BY <2>1, <3>1, <3>2, SomeProbeIsFree
  <2> QED
    BY <2>2, <2>3
<1> QED
  BY <1>1, InvariantHolds, PTL

(* Reinserting the old entries never grows the table again.                *)
THEOREM NoNestedGrowth == Spec => []GrowsOnce
<1>1. IInv => GrowsOnce
  <2> SUFFICES ASSUME IInv PROVE Len(growing) <= 1
    BY DEF GrowsOnce
  <2>1. growing = <<>> \/ growing = <<growing[1]>>
    BY DEF IInv, Growth
  <2>2. Len(<<>>) = 0 /\ Len(<<growing[1]>>) = 1
    OBVIOUS
  <2>3. PICK k \in 0 .. 1 : Len(growing) = k
    BY <2>1, <2>2
  <2> QED
    BY <2>3
<1> QED
  BY <1>1, InvariantHolds, PTL

-----------------------------------------------------------------------------
(* The table implements NameMap.                                           *)
LEMMA WaitingOfOne ==
  ASSUME NEW g, NEW f, g = <<f>>
  PROVE  g # <<>> /\ UNION { Waits(h) : h \in { g[d] : d \in DOMAIN g } } = Waits(f)
<1>1. DOMAIN g = {1} /\ g # <<>> /\ g[1] = f
  OBVIOUS
<1>2. { g[d] : d \in DOMAIN g } = {f}
  BY <1>1
<1>3. { Waits(h) : h \in {f} } = { Waits(f) }
  OBVIOUS
<1>4. UNION { Waits(f) } = Waits(f)
  OBVIOUS
<1> QED
  BY <1>1, <1>2, <1>3, <1>4

LEMMA WaitingOfNone ==
  ASSUME NEW g, g = <<>>
  PROVE  UNION { Waits(h) : h \in { g[d] : d \in DOMAIN g } } = {}
OBVIOUS

(* What is held, before a step and after it.                               *)
LEMMA HeldForms ==
  /\ growing = <<>> => Held = Stored
  /\ growing = <<growing[1]>> =>
       growing # <<>> /\ Held = Stored \cup Waits(growing[1]) \cup Carried
  /\ growing' = <<>> => Held' = Stored'
  /\ growing' = <<growing'[1]>> =>
       growing' # <<>> /\ Held' = Stored' \cup Waits(growing'[1]) \cup Carried'
<1>1. growing = <<>> => Waiting = {} /\ Carried = {}
  BY WaitingOfNone DEF Waiting, Calls, Carried
<1>2. growing' = <<>> => Waiting' = {} /\ Carried' = {}
  BY WaitingOfNone DEF Waiting, Calls, Carried
<1>3. growing = <<growing[1]>> => growing # <<>> /\ Waiting = Waits(growing[1])
  BY WaitingOfOne DEF Waiting, Calls
<1>4. growing' = <<growing'[1]>> => growing' # <<>> /\ Waiting' = Waits(growing'[1])
  BY WaitingOfOne DEF Waiting, Calls
<1> QED
  BY <1>1, <1>2, <1>3, <1>4 DEF Held

(* No two entries held have the same name.                                 *)
LEMMA HeldApart ==
  ASSUME IInv
  PROVE  /\ \A e \in Held : e \in Entries
         /\ \A e, h \in Held : e.name = h.name => e = h
<1>1. TypeOK /\ Growth /\ OneEntryPerName /\ Apart
  BY DEF IInv
<1>2. \A e \in Stored : e \in Entries
  BY <1>1 DEF TypeOK, Stored, Occupied
<1>3. \A e, h \in Stored : e.name = h.name => e = h
  BY <1>1 DEF OneEntryPerName, Stored
<1>4. CASE growing = <<>>
  BY <1>2, <1>3, <1>4, HeldForms
<1>5. CASE growing # <<>>
  <2>1. growing = <<growing[1]>> /\ IsFrame(growing[1])
    BY <1>1, <1>5 DEF Growth
  <2>2. \A e \in Waits(growing[1]) : e \in Entries
    <3>1. growing[1].old \in [DOMAIN growing[1].old -> Entries \cup {NULL}]
      BY <1>1, <2>1, FrameType
    <3> QED
      BY <3>1 DEF Waits, Left
  <2>3. \A e \in Carried : e \in Entries
    BY <1>1 DEF Carried, TypeOK
  <2>4. \A e, h \in Waits(growing[1]) : e.name = h.name => e = h
    BY <1>1, <1>5 DEF Apart, Waits
  <2>5. \A e \in Waits(growing[1]), h \in Stored : e.name # h.name
    BY <1>1, <1>5 DEF Apart, Waits, Stored
  <2>6. \A e \in Carried, h \in Waits(growing[1]) \cup Stored : e.name # h.name
    BY <1>1, <1>5 DEF Apart, Waits, Stored, Carried
  <2>7. \A e, h \in Carried : e = h
    BY DEF Carried
  <2>8. Held = Stored \cup Waits(growing[1]) \cup Carried
    BY <2>1, HeldForms
  <2> QED
    BY <1>2, <1>3, <2>2, <2>3, <2>4, <2>5, <2>6, <2>7, <2>8
<1> QED
  BY <1>4, <1>5

(* The value that a set of entries gives a name.                           *)
ValueIn(H, n) ==
  IF \E e \in H : e.name = n THEN (CHOOSE e \in H : e.name = n).value ELSE NULL

LEMMA ValueInFacts ==
  ASSUME NEW H, \A e, h \in H : e.name = h.name => e = h
  PROVE  /\ \A e \in H : ValueIn(H, e.name) = e.value
         /\ \A n : (\A e \in H : e.name # n) => ValueIn(H, n) = NULL
<1>1. ASSUME NEW e \in H PROVE ValueIn(H, e.name) = e.value
  <2>1. (CHOOSE h \in H : h.name = e.name) = e
    OBVIOUS
  <2> QED
    BY <2>1 DEF ValueIn
<1>2. ASSUME NEW n, \A e \in H : e.name # n PROVE ValueIn(H, n) = NULL
  BY <1>2 DEF ValueIn
<1> QED
  BY <1>1, <1>2

LEMMA ContentsOfHeld == /\ Contents = [n \in Names |-> ValueIn(Held, n)]
                        /\ Contents' = [n \in Names |-> ValueIn(Held', n)]
BY DEF Contents, ValueIn

(* A step that moves entries about.                                        *)
LEMMA SameHeld ==
  ASSUME Held' = Held
  PROVE  Contents' = Contents
BY DEF Contents

(* A step that gives one name a new entry.                                 *)
LEMMA OneNewEntry ==
  ASSUME IInv, IInv', NEW e \in Entries,
         Held' = { h \in Held : h.name # e.name } \cup {e}
  PROVE  Contents' = [Contents EXCEPT ![e.name] = e.value]
<1>1. e.name \in Names
  BY DEF Entries
<1>2. /\ \A g \in Held : g \in Entries
      /\ \A g, h \in Held : g.name = h.name => g = h
  BY HeldApart
<1>3. \A g, h \in Held' : g.name = h.name => g = h
  BY <1>2
<1>4. /\ \A g \in Held : ValueIn(Held, g.name) = g.value
      /\ \A n : (\A g \in Held : g.name # n) => ValueIn(Held, n) = NULL
  BY <1>2, ValueInFacts
<1>5. /\ \A g \in Held' : ValueIn(Held', g.name) = g.value
      /\ \A n : (\A g \in Held' : g.name # n) => ValueIn(Held', n) = NULL
  BY <1>3, ValueInFacts
<1>6. \A n \in Names : ValueIn(Held', n) = IF n = e.name THEN e.value ELSE ValueIn(Held, n)
  <2> SUFFICES ASSUME NEW n \in Names
               PROVE  ValueIn(Held', n) = IF n = e.name THEN e.value ELSE ValueIn(Held, n)
    OBVIOUS
  <2>1. CASE n = e.name
    BY <1>5, <2>1
  <2>2. CASE n # e.name /\ \E h \in Held : h.name = n
    BY <1>4, <1>5, <2>2
  <2>3. CASE n # e.name /\ \A h \in Held : h.name # n
    BY <1>4, <1>5, <2>3
  <2> QED
    BY <2>1, <2>2, <2>3
<1> QED
  BY <1>1, <1>6, ContentsOfHeld

-----------------------------------------------------------------------------
(* What each step does to the entries held.                                *)
LEMMA TakesSlotHeld ==
  ASSUME IInv, InsertTakesSlot
  PROVE  /\ growing = <<>> => Held' = { h \in Held : h.name # entry.name } \cup {entry}
         /\ growing # <<>> => Held' = Held
<1>1. TypeOK /\ Growth /\ Reachable /\ OneEntryPerName /\ SizeIsExact /\ HalfEmpty
      /\ Probed
  BY DEF IInv
<1>2. pc = "insert" /\ Here = NULL /\ growing' = growing /\ pc' = Done(growing)
  BY DEF InsertTakesSlot
<1>3. Stored' = Stored \cup {entry} /\ \A h \in Stored : h.name # entry.name
  <2>1. records' = Filled /\ Occupied' = Occupied \cup {Slot(entry.name, x)}
    BY <1>1, TakesSlotKeepsTable
  <2>2. /\ \A i \in Occupied : Filled[i] = records[i] /\ records[i].name # entry.name
        /\ Filled[Slot(entry.name, x)] = entry
    BY <1>1, <1>2, FillFacts
  <2> QED
    BY <2>1, <2>2 DEF Stored
<1>4. CASE growing = <<>>
  <2>1. Held = Stored
    BY <1>4, HeldForms
  <2>2. Held' = Stored'
    BY <1>2, <1>4, HeldForms
  <2> QED
    BY <1>3, <1>4, <2>1, <2>2
<1>5. CASE growing # <<>>
  <2>1. growing = <<growing[1]>>
    BY <1>1, <1>5 DEF Growth
  <2>2. Held = Stored \cup Waits(growing[1]) \cup {entry}
    BY <1>2, <2>1, HeldForms DEF Carried
  <2>3. Held' = Stored' \cup Waits(growing[1])
    BY <1>2, <1>5, <2>1, HeldForms DEF Done, Carried
  <2> QED
    BY <1>3, <1>5, <2>2, <2>3
<1> QED
  BY <1>4, <1>5

LEMMA ReplacesHeld ==
  ASSUME IInv, InsertReplaces
  PROVE  Held' = { h \in Held : h.name # entry.name } \cup {entry}
<1> DEFINE s == Slot(entry.name, x)
<1>1. TypeOK /\ Growth /\ Reachable /\ OneEntryPerName /\ SizeIsExact /\ HalfEmpty /\ Apart
  BY DEF IInv
<1>2. /\ Occupied' = Occupied /\ s \in Occupied /\ records[s].name = entry.name
      /\ records' = [records EXCEPT ![s] = entry]
  BY <1>1, ReplacesKeepsTable
<1>3. growing = <<>> /\ growing' = <<>>
  BY <1>1, <1>2 DEF Apart, InsertReplaces
<1>4. Held = Stored /\ Held' = Stored'
  BY <1>3, HeldForms
<1>5. records'[s] = entry /\ \A i \in Occupied \ {s} : records'[i] = records[i]
  BY <1>1, <1>2 DEF TypeOK, Occupied
<1>6. \A i \in Occupied : records[i].name = entry.name <=> i = s
  BY <1>1, <1>2 DEF OneEntryPerName
<1> QED
  BY <1>2, <1>4, <1>5, <1>6 DEF Stored

LEMMA AndGrowHeld ==
  ASSUME IInv, InsertAndGrow
  PROVE  Held' = { h \in Held : h.name # entry.name } \cup {entry}
<1> DEFINE f == [old |-> Filled, at |-> 0]
<1>1. TypeOK /\ Reachable /\ OneEntryPerName /\ SizeIsExact /\ HalfEmpty /\ Probed
  BY DEF IInv
<1>2. pc = "insert" /\ pc' = "grow" /\ Here = NULL /\ growing = <<>>
  BY InsertAndGrowInv DEF InsertAndGrow
<1>3. growing' = <<f>> /\ growing'[1] = f /\ growing' = <<growing'[1]>>
  BY <1>2 DEF InsertAndGrow, Filled
<1>4. Stored' = {}
  <2>1. primeIndex + 1 \in 1 .. Len(Primes) /\ primeIndex' = primeIndex + 1
    BY <1>1 DEF InsertAndGrow, TypeOK
  <2>2. capacity' = Primes[primeIndex + 1] /\ records' = Empty(capacity')
    BY <2>1 DEF InsertAndGrow, capacity
  <2>3. \A i \in Slots' : records'[i] = NULL
    BY <2>2 DEF Slots, Empty
  <2> QED
    BY <2>3 DEF Stored, Occupied
<1>5. Held = Stored /\ Held' = Waits(f)
  BY <1>2, <1>3, <1>4, HeldForms DEF Carried
<1>6. /\ Filled \in [Slots -> Entries \cup {NULL}]
      /\ FilledSlots = Occupied \cup {Slot(entry.name, x)}
      /\ \A i \in Occupied : Filled[i] = records[i] /\ records[i].name # entry.name
      /\ Filled[Slot(entry.name, x)] = entry
  BY <1>1, <1>2, FillFacts
<1>7. Waits(f) = { Filled[i] : i \in FilledSlots }
  <2>1. Left(f) = FilledSlots
    BY <1>6 DEF Left, FilledSlots, Slots
  <2> QED
    BY <2>1 DEF Waits
<1> QED
  BY <1>5, <1>6, <1>7 DEF Stored

LEMMA GrowHeld ==
  ASSUME IInv, Grow
  PROVE  Held' = Held
<1> DEFINE f == growing[1]
           g == [old |-> f.old, at |-> f.at + 1]
<1>1. TypeOK /\ Growth
  BY DEF IInv
<1>2. pc = "grow" /\ growing # <<>> /\ UNCHANGED <<records, primeIndex, size>>
  BY <1>1 DEF Grow, GrowSkips, GrowReinserts, GrowReturns, Growth
<1>3. growing = <<f>> /\ IsFrame(f) /\ Frame = f /\ NextFrame = <<g>>
  BY <1>1, <1>2, FrameFacts
<1>4. f.at \in Nat /\ DOMAIN f.old \subseteq Int /\ DOMAIN f.old = OldSlots
  BY <1>1, <1>3, FrameType DEF OldSlots
<1>5. Left(g) = Left(f) \ {f.at} /\ g.old = f.old
  BY <1>4, LeftAfter
<1>6. Stored' = Stored
  BY <1>2, TableKept DEF Stored
<1>7. Held = Stored \cup Waits(f)
  BY <1>2, <1>3, HeldForms DEF Carried
<1>8. CASE GrowSkips
  <2>1. growing' = <<g>> /\ growing'[1] = g /\ pc' = "grow" /\ f.old[f.at] = NULL
    BY <1>3, <1>8 DEF GrowSkips
  <2>2. Held' = Stored \cup Waits(g)
    BY <1>6, <2>1, HeldForms DEF Carried
  <2>3. Left(g) = Left(f)
    BY <1>5, <2>1 DEF Left
  <2>4. Waits(g) = Waits(f)
    BY <1>5, <2>3 DEF Waits
  <2> QED
    BY <1>7, <2>2, <2>4
<1>9. CASE GrowReinserts
  <2>1. growing' = <<g>> /\ growing'[1] = g /\ pc' = "insert" /\ entry' = f.old[f.at]
        /\ f.at \in DOMAIN f.old /\ f.old[f.at] # NULL
    BY <1>3, <1>9 DEF GrowReinserts, OldSlots
  <2>2. Held' = Stored \cup Waits(g) \cup {f.old[f.at]}
    BY <1>6, <2>1, HeldForms DEF Carried
  <2>3. f.at \in Left(f)
    BY <1>4, <2>1 DEF Left
  <2>4. Waits(f) = Waits(g) \cup {f.old[f.at]}
    <3> HIDE DEF f, g
    <3> QED
      BY <1>5, <2>3 DEF Waits
  <2> QED
    BY <1>7, <2>2, <2>4
<1>10. CASE GrowReturns
  <2>1. growing' = <<>>
    BY <1>1, <1>2, <1>10, FrameFacts DEF GrowReturns
  <2>2. Held' = Stored
    BY <1>6, <2>1, HeldForms
  <2>3. f.at \notin DOMAIN f.old
    BY <1>3, <1>10 DEF GrowReturns, OldSlots
  <2>4. Left(f) = {}
    <3>1. PICK b \in Int : DOMAIN f.old = 0 .. b
      BY <1>1, <1>3, FrameType
    <3> HIDE DEF f
    <3> QED
      BY <1>4, <2>3, <3>1 DEF Left
  <2>5. Waits(f) = {}
    BY <2>4 DEF Waits
  <2> QED
    BY <1>7, <2>2, <2>5
<1> QED
  BY <1>8, <1>9, <1>10 DEF Grow

(* The steps of a client's call that leave the entries where they are.     *)
LEMMA RestHeld ==
  ASSUME IInv, IInv', growing' = growing, entry' = entry \/ growing = <<>>,
         UNCHANGED <<records, primeIndex, size>>,
         pc' = pc \/ growing = <<>>
  PROVE  Held' = Held
<1>1. Stored' = Stored
  BY TableKept DEF Stored
<1>2. growing = <<>> \/ growing = <<growing[1]>>
  BY DEF IInv, Growth
<1>3. CASE growing = <<>>
  BY <1>1, <1>3, HeldForms
<1>4. CASE growing = <<growing[1]>>
  BY <1>1, <1>4, HeldForms DEF Carried
<1> QED
  BY <1>2, <1>3, <1>4

(* What a search answers.                                                  *)
LEMMA AnswerIsContents ==
  ASSUME IInv, SearchFinds \/ SearchFails
  PROVE  key \in Names /\ result' = [name |-> key, found |-> Contents[key]]
<1>1. TypeOK /\ Growth /\ Reachable /\ Probed
  BY DEF IInv
<1>2. pc = "search" /\ key \in Names /\ growing = <<>> /\ x \in Nat
  BY <1>1 DEF SearchFinds, SearchFails, TypeOK, Growth
<1>3. Held = Stored
  BY <1>2, HeldForms
<1>4. /\ \A e \in Held : ValueIn(Held, e.name) = e.value
      /\ \A n : (\A e \in Held : e.name # n) => ValueIn(Held, n) = NULL
  BY HeldApart, ValueInFacts
<1>5. Contents[key] = ValueIn(Held, key)
  BY <1>2, ContentsOfHeld
<1>6. CASE SearchFinds
  <2>1. Slot(key, x) \in Occupied
    BY <1>1, <1>2, <1>6, SlotType DEF SearchFinds, Looked, Occupied
  <2>2. Looked \in Held /\ Looked.name = key
    BY <1>3, <1>6, <2>1 DEF SearchFinds, Looked, Stored
  <2>3. Contents[key] = Looked.value
    BY <1>4, <1>5, <2>2
  <2> QED
    BY <1>2, <1>6, <2>3 DEF SearchFinds, Answer
<1>7. CASE SearchFails
  <2>1. \A i \in Occupied : records[i].name # key
    BY <1>1, <1>2, <1>7, FreshName DEF SearchFails, Looked, Probed
  <2>2. \A e \in Held : e.name # key
    BY <1>3, <2>1 DEF Stored
  <2>3. Contents[key] = NULL
    BY <1>4, <1>5, <2>2
  <2> QED
    BY <1>2, <1>7, <2>3 DEF SearchFails, Answer
<1> QED
  BY <1>6, <1>7

-----------------------------------------------------------------------------
(* The initial table is the empty map.                                     *)
LEMMA InitIsMapInit == Init => Map!MapInit
<1> SUFFICES ASSUME Init PROVE Map!MapInit
  OBVIOUS
<1>1. growing = <<>> /\ result = NULL
  BY DEF Init
<1>2. Stored = {}
  <2>1. capacity = Primes[1] /\ records = Empty(capacity)
    BY DEF Init, capacity
  <2> QED
    BY <2>1 DEF Stored, Occupied, Slots, Empty
<1>3. Held = {}
  BY <1>1, <1>2, HeldForms
<1>4. Contents = [n \in Names |-> NULL]
  BY <1>3 DEF Contents
<1> QED
  BY <1>1, <1>4 DEF Map!MapInit

(* Every step is a step of the map or changes nothing of it.               *)
LEMMA NextIsMapNext ==
  ASSUME IInv, IInv', [Next]_vars
  PROVE  [Map!Put \/ Map!Get \/ Map!Call]_<<Contents, result>>
<1>1. CASE \E e \in Entries : BeginInsert(e)
  <2>1. result' = NULL /\ Held' = Held
    <3>1. growing = <<>>
      BY <1>1 DEF IInv, Growth, BeginInsert
    <3> QED
      BY <1>1, <3>1, RestHeld DEF BeginInsert
  <2> QED
    BY <2>1, SameHeld DEF Map!Call
<1>2. CASE \E n \in Names : BeginSearch(n)
  <2>1. result' = NULL /\ Held' = Held
    <3>1. growing = <<>>
      BY <1>2 DEF IInv, Growth, BeginSearch
    <3> QED
      BY <1>2, <3>1, RestHeld DEF BeginSearch
  <2> QED
    BY <2>1, SameHeld DEF Map!Call
<1>3. CASE InsertCollides
  BY <1>3, RestHeld, SameHeld DEF InsertCollides
<1>4. CASE InsertReplaces \/ InsertTakesSlot \/ InsertAndGrow
  <2>1. entry \in Entries /\ result' = result
    BY <1>4 DEF IInv, TypeOK, InsertReplaces, InsertTakesSlot, InsertAndGrow
  <2>2. CASE Held' = { h \in Held : h.name # entry.name } \cup {entry}
    <3>1. Contents' = [Contents EXCEPT ![entry.name] = entry.value]
      BY <2>1, <2>2, OneNewEntry
    <3>2. entry.name \in Names /\ entry.value \in Values
      BY <2>1 DEF Entries
    <3> QED
      BY <2>1, <3>1, <3>2 DEF Map!Put
  <2>3. CASE Held' = Held
    BY <2>1, <2>3, SameHeld
  <2> QED
    BY <1>4, <2>2, <2>3, ReplacesHeld, TakesSlotHeld, AndGrowHeld
<1>5. CASE Grow
  BY <1>5, GrowHeld, SameHeld DEF Grow, GrowSkips, GrowReinserts, GrowReturns
<1>6. CASE SearchCollides
  BY <1>6, RestHeld, SameHeld DEF SearchCollides
<1>7. CASE SearchFinds \/ SearchFails
  <2>1. growing = <<>>
    BY <1>7 DEF IInv, Growth, SearchFinds, SearchFails
  <2>2. Held' = Held
    BY <1>7, <2>1, RestHeld DEF SearchFinds, SearchFails, Answer
  <2> QED
    BY <1>7, <2>2, SameHeld, AnswerIsContents DEF Map!Get
<1>8. CASE UNCHANGED vars
  BY <1>8, RestHeld, SameHeld DEF vars
<1> QED
  BY <1>1, <1>2, <1>3, <1>4, <1>5, <1>6, <1>7, <1>8 DEF Next, Insert, Search

(* The hash table is a map: a search answers the value last inserted under *)
(* its name, and growing the table loses and invents nothing.              *)
THEOREM ImplementsMap == Spec => TableIsMap
<1>1. Init => Map!MapInit
  BY InitIsMapInit
<1>2. IInv /\ IInv' /\ [Next]_vars => [Map!Put \/ Map!Get \/ Map!Call]_<<Contents, result>>
  BY NextIsMapNext
<1> QED
  BY <1>1, <1>2, InvariantHolds, PTL DEF Spec, TableIsMap, Map!MapSpec
=============================================================================
