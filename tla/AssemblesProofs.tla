---------------------------- MODULE AssemblesProofs ----------------------------
(***************************************************************************)
(* The assembler takes what the compiler prints, for every sequence of     *)
(* well-formed programs: labels stand once, and what is jumped to or       *)
(* called stands somewhere.  What the generator relies on comes from the   *)
(* walks before it: that a switch has the default its type asks for, that  *)
(* a name stands for something, and that modules have different names.     *)
(***************************************************************************)
EXTENDS CompilerProofs, NaturalsInduction, WellFoundedInduction

(* Induction over the natural numbers, with a set for the property.        *)
LEMMA LeastNumber ==
  ASSUME NEW S \in SUBSET Nat, S # {}
  PROVE  \E n \in S : \A m \in S : n <= m
<1> DEFINE R == OpToRel(<, Nat)
<1>1. IsWellFoundedOn(R, Nat)
  BY NatLessThanWellFounded
<1>2. \A m, n \in Nat : m < n => <<m, n>> \in R
  BY DEF OpToRel
<1> HIDE DEF R
<1>3. PICK n \in S : \A m \in S : ~ (<<m, n>> \in R)
  BY <1>1, WFMin
<1>4. ASSUME NEW m \in S PROVE n <= m
  <2>1. m \in Nat /\ n \in Nat /\ ~ (m < n)
    BY <1>2, <1>3
  <2> QED
    BY <2>1
<1> QED
  BY <1>3, <1>4

LEMMA InductionSet ==
  ASSUME NEW S, 0 \in S, \A n \in Nat : n \in S => n + 1 \in S
  PROVE  Nat \subseteq S
<1> SUFFICES ASSUME Nat \ S # {} PROVE FALSE
  OBVIOUS
<1>1. PICK n \in Nat \ S : \A m \in Nat \ S : n <= m
  BY LeastNumber
<1>2. n # 0 /\ n - 1 \in Nat
  BY <1>1
<1>3. n - 1 \in S
  BY <1>1, <1>2
<1> QED
  BY <1>1, <1>2, <1>3

-----------------------------------------------------------------------------
(* A sequence made of the pieces 1 to n of seqs: where each of its         *)
(* elements comes from, piece by piece and none twice.                     *)
Pieces(flat, seqs, n) ==
  \E of, nth :
    /\ \A k \in DOMAIN flat : /\ of[k] \in 1 .. n /\ nth[k] \in DOMAIN seqs[of[k]]
                              /\ flat[k] = seqs[of[k]][nth[k]]
    /\ \A k, l \in DOMAIN flat : of[k] = of[l] /\ nth[k] = nth[l] => k = l
    /\ \A i \in 1 .. n : \A j \in DOMAIN seqs[i] :
         \E k \in DOMAIN flat : of[k] = i /\ nth[k] = j

LEMMA FlattenUnfolds ==
  ASSUME NEW seqs, Len(seqs) # 0
  PROVE  FlattenSeq(seqs) =
           (CHOOSE g : g = [i \in 1 .. Len(seqs) |->
                              IF i = 1 THEN seqs[i] ELSE g[i - 1] \o seqs[i]])[Len(seqs)]
BY DEF FlattenSeq

(* The recursive function of FlattenSeq is one.                            *)
Flattens(g, seqs, n) ==
  \A i \in 1 .. n : g[i] = IF i = 1 THEN seqs[i] ELSE g[i - 1] \o seqs[i]

LEMMA FlattenExists ==
  ASSUME NEW S, NEW seqs, NEW n \in Nat, \A i \in 1 .. n : seqs[i] \in Seq(S)
  PROVE  \E g \in [1 .. n -> Seq(S)] : Flattens(g, seqs, n)
<1> DEFINE Has(m) == \E g \in [1 .. m -> Seq(S)] : Flattens(g, seqs, m)
           Good == {m \in Nat : m <= n => Has(m)}
<1>1. 0 \in Good
  <2>1. [i \in 1 .. 0 |-> << >>] \in [1 .. 0 -> Seq(S)]
    OBVIOUS
  <2>2. Flattens([i \in 1 .. 0 |-> << >>], seqs, 0)
    BY DEF Flattens
  <2>3. Has(0)
    BY <2>1, <2>2
  <2> QED
    BY <2>3
<1>2. ASSUME NEW m \in Nat, m \in Good PROVE m + 1 \in Good
  <2> SUFFICES ASSUME m + 1 <= n PROVE Has(m + 1)
    OBVIOUS
  <2>1. PICK g \in [1 .. m -> Seq(S)] : Flattens(g, seqs, m)
    BY <1>2
  <2> DEFINE last == IF m = 0 THEN seqs[m + 1] ELSE g[m] \o seqs[m + 1]
             h == [i \in 1 .. m + 1 |-> IF i <= m THEN g[i] ELSE last]
  <2>2. seqs[m + 1] \in Seq(S)
    OBVIOUS
  <2>3. last \in Seq(S)
    <3>1. m # 0 => g[m] \in Seq(S)
      OBVIOUS
    <3>2. m # 0 => g[m] \o seqs[m + 1] \in Seq(S)
      BY <2>2, <3>1, ConcatProperties
    <3> QED
      BY <2>2, <3>2
  <2> HIDE DEF last
  <2>4. h \in [1 .. m + 1 -> Seq(S)]
    BY <2>3
  <2>5. ASSUME NEW i \in 1 .. m + 1
        PROVE  h[i] = IF i = 1 THEN seqs[i] ELSE h[i - 1] \o seqs[i]
    <3>1. CASE i <= m
      <4>1. h[i] = g[i] /\ (i # 1 => h[i - 1] = g[i - 1])
        BY <3>1
      <4>2. g[i] = IF i = 1 THEN seqs[i] ELSE g[i - 1] \o seqs[i]
        <5>1. i \in 1 .. m
          BY <3>1
        <5> QED
          BY <2>1, <5>1 DEF Flattens
      <4> QED
        BY <4>1, <4>2
    <3>2. CASE i = m + 1
      <4>1. h[i] = last /\ (m # 0 => h[i - 1] = g[m])
        BY <3>2
      <4> QED
        BY <3>2, <4>1 DEF last
    <3> QED
      BY <3>1, <3>2
  <2>6. Flattens(h, seqs, m + 1)
    BY <2>5 DEF Flattens
  <2> QED
    BY <2>4, <2>6
<1> HIDE DEF Good
<1>3. n \in Good
  BY <1>1, <1>2, InductionSet
<1> QED
  BY <1>3 DEF Good

LEMMA PiecesGrow ==
  ASSUME NEW S, NEW seqs, NEW m \in Nat, NEW flat \in Seq(S), seqs[m + 1] \in Seq(S),
         Pieces(flat, seqs, m)
  PROVE  Pieces(flat \o seqs[m + 1], seqs, m + 1)
<1> DEFINE r == seqs[m + 1]
           c == flat \o r
<1>1. /\ Len(flat) \in Nat /\ DOMAIN flat = 1 .. Len(flat)
      /\ Len(r) \in Nat /\ DOMAIN r = 1 .. Len(r)
  BY LenProperties
<1>2. /\ DOMAIN c = 1 .. Len(flat) + Len(r)
      /\ \A k \in DOMAIN c : c[k] = IF k <= Len(flat) THEN flat[k] ELSE r[k - Len(flat)]
  <2>1. /\ c \in Seq(S) /\ Len(c) = Len(flat) + Len(r)
        /\ \A k \in 1 .. Len(flat) + Len(r) :
             c[k] = IF k <= Len(flat) THEN flat[k] ELSE r[k - Len(flat)]
    BY ConcatProperties
  <2>2. DOMAIN c = 1 .. Len(c)
    BY <2>1, LenProperties
  <2> QED
    BY <2>1, <2>2
<1>3. PICK of, nth :
        /\ \A k \in DOMAIN flat : /\ of[k] \in 1 .. m /\ nth[k] \in DOMAIN seqs[of[k]]
                                  /\ flat[k] = seqs[of[k]][nth[k]]
        /\ \A k, l \in DOMAIN flat : of[k] = of[l] /\ nth[k] = nth[l] => k = l
        /\ \A i \in 1 .. m : \A j \in DOMAIN seqs[i] :
             \E k \in DOMAIN flat : of[k] = i /\ nth[k] = j
  BY DEF Pieces
<1> HIDE DEF c
<1> DEFINE of2 == [k \in DOMAIN c |-> IF k <= Len(flat) THEN of[k] ELSE m + 1]
           nth2 == [k \in DOMAIN c |-> IF k <= Len(flat) THEN nth[k] ELSE k - Len(flat)]
<1>4. \A k \in DOMAIN c :
        /\ k \in Nat
        /\ k <= Len(flat) => k \in DOMAIN flat /\ of2[k] = of[k] /\ nth2[k] = nth[k] /\ c[k] = flat[k]
        /\ k > Len(flat) => /\ of2[k] = m + 1 /\ nth2[k] = k - Len(flat)
                            /\ nth2[k] \in DOMAIN r /\ c[k] = r[nth2[k]]
  BY <1>1, <1>2
<1>5. \A k \in DOMAIN flat : of[k] # m + 1 /\ k \in DOMAIN c /\ k <= Len(flat)
  BY <1>1, <1>2, <1>3
<1>6. \A j \in DOMAIN r : Len(flat) + j \in DOMAIN c /\ of2[Len(flat) + j] = m + 1
                         /\ nth2[Len(flat) + j] = j
  BY <1>1, <1>2
<1> HIDE DEF of2, nth2
<1>7. ASSUME NEW k \in DOMAIN c
      PROVE  /\ of2[k] \in 1 .. m + 1 /\ nth2[k] \in DOMAIN seqs[of2[k]]
             /\ c[k] = seqs[of2[k]][nth2[k]]
  <2>1. CASE k <= Len(flat)
    <3>1. of[k] \in 1 .. m + 1
      BY <1>3, <1>4, <2>1
    <3> QED
      BY <1>3, <1>4, <2>1, <3>1
  <2>2. CASE k > Len(flat)
    BY <1>4, <2>2
  <2> QED
    BY <1>1, <1>4, <2>1, <2>2
<1>8. ASSUME NEW k \in DOMAIN c, NEW l \in DOMAIN c, of2[k] = of2[l], nth2[k] = nth2[l]
      PROVE  k = l
  <2>1. CASE k <= Len(flat) /\ l <= Len(flat)
    BY <1>3, <1>4, <1>8, <2>1
  <2>2. CASE k > Len(flat) /\ l > Len(flat)
    <3>1. k - Len(flat) = l - Len(flat) /\ k \in Nat /\ l \in Nat
      BY <1>4, <1>8, <2>2
    <3> QED
      BY <1>1, <3>1
  <2>3. CASE k <= Len(flat) /\ l > Len(flat)
    BY <1>4, <1>5, <1>8, <2>3
  <2>4. CASE k > Len(flat) /\ l <= Len(flat)
    BY <1>4, <1>5, <1>8, <2>4
  <2>5. k \in Nat /\ l \in Nat
    BY <1>4
  <2> QED
    BY <1>1, <2>1, <2>2, <2>3, <2>4, <2>5
<1>9. ASSUME NEW i \in 1 .. m + 1, NEW j \in DOMAIN seqs[i]
      PROVE  \E k \in DOMAIN c : of2[k] = i /\ nth2[k] = j
  <2>1. CASE i <= m
    <3>1. i \in 1 .. m
      BY <2>1
    <3>2. PICK k \in DOMAIN flat : of[k] = i /\ nth[k] = j
      BY <1>3, <3>1
    <3> QED
      BY <1>4, <1>5, <3>2
  <2>2. CASE i = m + 1
    BY <1>6, <2>2
  <2> QED
    BY <2>1, <2>2
<1> DEFINE Fits(o, t) ==
             /\ \A k \in DOMAIN c : o[k] \in 1 .. m + 1 /\ t[k] \in DOMAIN seqs[o[k]] /\ c[k] = seqs[o[k]][t[k]]
             /\ \A k, l \in DOMAIN c : o[k] = o[l] /\ t[k] = t[l] => k = l
             /\ \A i \in 1 .. m + 1 : \A j \in DOMAIN seqs[i] : \E k \in DOMAIN c : o[k] = i /\ t[k] = j
<1>10. Fits(of2, nth2)
  BY <1>7, <1>8, <1>9
<1>11. Pieces(c, seqs, m + 1)
  <2>1. (\E o, t : Fits(o, t)) => Pieces(c, seqs, m + 1)
    BY DEF Pieces
  <2> HIDE DEF Fits
  <2>2. \E o, t : Fits(o, t)
    BY <1>10
  <2> QED
    BY <2>1, <2>2
<1> QED
  BY <1>11 DEF c

(* FlattenSeq puts together the elements of the pieces.                    *)
LEMMA FlattenFacts ==
  ASSUME NEW n \in Nat, NEW seqs, seqs = [i \in 1 .. n |-> seqs[i]],
         \A i \in 1 .. n : IsSeq(seqs[i])
  PROVE  IsSeq(FlattenSeq(seqs)) /\ Pieces(FlattenSeq(seqs), seqs, n)
<1> DEFINE S == UNION {{seqs[i][j] : j \in DOMAIN seqs[i]} : i \in 1 .. n}
<1>1. IsSeq(seqs) /\ Len(seqs) = n
  BY ListFacts
<1>2. ASSUME NEW i \in 1 .. n PROVE seqs[i] \in Seq(S)
  <2>1. seqs[i] \in Seq({seqs[i][j] : j \in DOMAIN seqs[i]})
    BY DEF IsSeq
  <2>2. {seqs[i][j] : j \in DOMAIN seqs[i]} \subseteq S
    OBVIOUS
  <2> QED
    BY <2>1, <2>2, SeqMonotonic
<1> HIDE DEF S
<1>3. CASE n = 0
  <2>1. FlattenSeq(seqs) = seqs /\ DOMAIN seqs = {}
    BY <1>1, <1>3 DEF FlattenSeq
  <2>2. Pieces(seqs, seqs, 0)
    BY <2>1 DEF Pieces
  <2> QED
    BY <1>1, <1>3, <2>1, <2>2
<1>4. CASE n # 0
  <2> DEFINE F(g) == [i \in 1 .. Len(seqs) |-> IF i = 1 THEN seqs[i] ELSE g[i - 1] \o seqs[i]]
             h == CHOOSE g : g = F(g)
  <2>1. \E g : g = F(g)
    <3>1. PICK g \in [1 .. n -> Seq(S)] : Flattens(g, seqs, n)
      BY <1>2, FlattenExists
    <3>2. g = F(g)
      BY <1>1, <3>1 DEF Flattens
    <3> QED
      BY <3>2
  <2>2. h = F(h)
    BY <2>1
  <2>3. FlattenSeq(seqs) = h[n]
    BY <1>1, <1>4, FlattenUnfolds
  <2> HIDE DEF h
  <2>4. Flattens(h, seqs, n)
    BY <1>1, <2>2 DEF Flattens
  <2> DEFINE Good == {m \in Nat : m + 1 <= n => h[m + 1] \in Seq(S) /\ Pieces(h[m + 1], seqs, m + 1)}
  <2>5. 0 \in Good
    <3>1. h[1] = seqs[1] /\ seqs[1] \in Seq(S)
      BY <1>2, <1>4, <2>4 DEF Flattens
    <3>2. << >> \in Seq(S) /\ Pieces(<< >>, seqs, 0)
      BY DEF Pieces
    <3>3. Pieces(<< >> \o seqs[1], seqs, 1)
      <4>1. seqs[0 + 1] \in Seq(S) /\ 0 \in Nat
        BY <3>1
      <4>2. Pieces(<< >> \o seqs[0 + 1], seqs, 0 + 1)
        BY <3>2, <4>1, PiecesGrow
      <4> QED
        BY <4>2
    <3>4. << >> \o seqs[1] = seqs[1]
      BY <3>1, ConcatEmptySeq
    <3> QED
      BY <3>1, <3>3, <3>4
  <2>6. ASSUME NEW m \in Nat, m \in Good PROVE m + 1 \in Good
    <3> SUFFICES ASSUME m + 2 <= n PROVE h[m + 2] \in Seq(S) /\ Pieces(h[m + 2], seqs, m + 2)
      OBVIOUS
    <3>1. h[m + 1] \in Seq(S) /\ Pieces(h[m + 1], seqs, m + 1) /\ seqs[m + 2] \in Seq(S)
      BY <1>2, <2>6
    <3>2. h[m + 2] = h[m + 1] \o seqs[m + 2]
      <4> DEFINE i == m + 2
      <4>1. i \in 1 .. n /\ i # 1 /\ i - 1 = m + 1
        OBVIOUS
      <4> HIDE DEF i
      <4>2. h[i] = h[i - 1] \o seqs[i]
        BY <2>4, <4>1 DEF Flattens
      <4>3. h[i] = h[m + 1] \o seqs[i]
        BY <4>1, <4>2
      <4> QED
        BY <4>3 DEF i
    <3>3. h[m + 1] \o seqs[m + 2] \in Seq(S)
      BY <3>1, ConcatProperties
    <3>4. m + 1 \in Nat /\ m + 1 + 1 = m + 2
      OBVIOUS
    <3>5. Pieces(h[m + 1] \o seqs[m + 2], seqs, m + 2)
      BY <3>1, <3>4, PiecesGrow
    <3> QED
      BY <3>2, <3>3, <3>5
  <2> HIDE DEF Good
  <2>7. n - 1 \in Good
    BY <1>4, <2>5, <2>6, InductionSet
  <2>8. h[n] \in Seq(S) /\ Pieces(h[n], seqs, n)
    BY <1>4, <2>7 DEF Good
  <2>9. IsSeq(h[n])
    <3>1. \A j \in 1 .. Len(h[n]) : h[n][j] \in {h[n][k] : k \in DOMAIN h[n]}
      BY <2>8
    <3>2. Len(h[n]) \in Nat /\ h[n] \in [1 .. Len(h[n]) -> {h[n][k] : k \in DOMAIN h[n]}]
      BY <2>8, <3>1, LenProperties
    <3> QED
      BY <3>2 DEF IsSeq
  <2> QED
    BY <2>3, <2>8, <2>9
<1> QED
  BY <1>3, <1>4

-----------------------------------------------------------------------------
(* Sequences of instructions: the labels they place, the labels they jump  *)
(* to or call, and whether they place a label twice.                       *)
LabelsOf(s) == {s[i].label : i \in {i \in DOMAIN s : s[i].op = "label"}}
GoalsOf(s)  == {s[i].label : i \in {i \in DOMAIN s : s[i].op \in {"jump", "call"}}}
PlacedOnce(s) ==
  \A i, j \in DOMAIN s : s[i].op = "label" /\ s[j].op = "label" /\ s[i].label = s[j].label => i = j
AreLabels(s) == \A i \in DOMAIN s : s[i].op = "label" => s[i] = Label(s[i].label)
Emits(s, placed, wanted) ==
  IsSeq(s) /\ AreLabels(s) /\ PlacedOnce(s) /\ LabelsOf(s) = placed /\ GoalsOf(s) = wanted
Plain(s) == IsSeq(s) /\ \A i \in DOMAIN s : s[i].op \notin {"label", "jump", "call"}

LEMMA PlainFacts ==
  ASSUME NEW s, Plain(s)
  PROVE  Emits(s, {}, {})
BY DEF Plain, LabelsOf, GoalsOf, PlacedOnce, AreLabels, Emits

(* c is s with r behind it.                                                *)
Joins(c, s, r) ==
  /\ IsSeq(c) /\ Len(c) = Len(s) + Len(r) /\ Len(s) \in Nat /\ Len(r) \in Nat
  /\ \A k \in DOMAIN c :
       \/ k \in DOMAIN s /\ c[k] = s[k] /\ k <= Len(s)
       \/ k > Len(s) /\ k - Len(s) \in DOMAIN r /\ c[k] = r[k - Len(s)]
  /\ \A k \in DOMAIN s : k \in DOMAIN c /\ c[k] = s[k]
  /\ \A k \in DOMAIN r : Len(s) + k \in DOMAIN c /\ c[Len(s) + k] = r[k]

LEMMA RangeSeq ==
  ASSUME NEW S, NEW s \in Seq(S)
  PROVE  IsSeq(s)
<1>1. s \in [1 .. Len(s) -> {s[i] : i \in DOMAIN s}] /\ Len(s) \in Nat
  OBVIOUS
<1> QED
  BY <1>1 DEF IsSeq

LEMMA ConcatSeqs ==
  ASSUME NEW s, NEW r, IsSeq(s), IsSeq(r)
  PROVE  Joins(s \o r, s, r)
<1> DEFINE S == {s[i] : i \in DOMAIN s} \cup {r[i] : i \in DOMAIN r}
           c == s \o r
<1>1. s \in Seq(S) /\ r \in Seq(S)
  <2>1. s \in Seq({s[i] : i \in DOMAIN s}) /\ r \in Seq({r[i] : i \in DOMAIN r})
    BY DEF IsSeq
  <2>2. {s[i] : i \in DOMAIN s} \subseteq S /\ {r[i] : i \in DOMAIN r} \subseteq S
    OBVIOUS
  <2> HIDE DEF S
  <2> QED
    BY <2>1, <2>2, SeqMonotonic
<1> HIDE DEF S
<1>2. /\ Len(s) \in Nat /\ DOMAIN s = 1 .. Len(s) /\ Len(r) \in Nat /\ DOMAIN r = 1 .. Len(r)
      /\ c \in Seq(S) /\ Len(c) = Len(s) + Len(r) /\ DOMAIN c = 1 .. Len(s) + Len(r)
      /\ \A k \in 1 .. Len(s) + Len(r) : c[k] = IF k <= Len(s) THEN s[k] ELSE r[k - Len(s)]
  <2>1. /\ c \in Seq(S) /\ Len(c) = Len(s) + Len(r)
        /\ \A k \in 1 .. Len(s) + Len(r) : c[k] = IF k <= Len(s) THEN s[k] ELSE r[k - Len(s)]
    BY <1>1, ConcatProperties
  <2> HIDE DEF c
  <2> QED
    BY <1>1, <2>1, LenProperties
<1> HIDE DEF c
<1>3. IsSeq(c)
  BY <1>2, RangeSeq
<1>4. ASSUME NEW k \in DOMAIN c
      PROVE  \/ k \in DOMAIN s /\ c[k] = s[k] /\ k <= Len(s)
             \/ k > Len(s) /\ k - Len(s) \in DOMAIN r /\ c[k] = r[k - Len(s)]
  BY <1>2
<1>5. \A k \in DOMAIN s : k \in DOMAIN c /\ c[k] = s[k]
  BY <1>2
<1>6. \A k \in DOMAIN r : Len(s) + k \in DOMAIN c /\ c[Len(s) + k] = r[k]
  <2> SUFFICES ASSUME NEW k \in DOMAIN r PROVE Len(s) + k \in DOMAIN c /\ c[Len(s) + k] = r[k]
    OBVIOUS
  <2>1. Len(s) + k \in 1 .. Len(s) + Len(r) /\ ~ (Len(s) + k <= Len(s)) /\ Len(s) + k - Len(s) = k
    BY <1>2
  <2> QED
    BY <1>2, <2>1
<1>7. Joins(c, s, r)
  BY <1>2, <1>3, <1>4, <1>5, <1>6 DEF Joins
<1> QED
  BY <1>7 DEF c

LEMMA PlainConcat ==
  ASSUME NEW s, NEW r, Plain(s), Plain(r)
  PROVE  Plain(s \o r)
<1> DEFINE c == s \o r
<1>1. Joins(c, s, r)
  BY ConcatSeqs DEF Plain
<1> HIDE DEF c
<1>2. Plain(c)
  BY <1>1 DEF Plain, Joins
<1> QED
  BY <1>2 DEF c

LEMMA CodeConcat ==
  ASSUME NEW s, NEW r, NEW p1, NEW p2, NEW w1, NEW w2,
         Emits(s, p1, w1), Emits(r, p2, w2), p1 \cap p2 = {}
  PROVE  Emits(s \o r, p1 \cup p2, w1 \cup w2)
<1>a. /\ IsSeq(s) /\ IsSeq(r) /\ PlacedOnce(s) /\ PlacedOnce(r) /\ AreLabels(s) /\ AreLabels(r)
      /\ LabelsOf(s) = p1 /\ LabelsOf(r) = p2 /\ GoalsOf(s) = w1 /\ GoalsOf(r) = w2
  BY DEF Emits
<1> DEFINE c == s \o r
<1>1. Joins(c, s, r)
  BY <1>a, ConcatSeqs
<1> HIDE DEF c
<1>2. LabelsOf(c) = LabelsOf(s) \cup LabelsOf(r)
  BY <1>1 DEF LabelsOf, Joins
<1>3. GoalsOf(c) = GoalsOf(s) \cup GoalsOf(r)
  BY <1>1 DEF GoalsOf, Joins
<1>4. PlacedOnce(c)
  <2> SUFFICES ASSUME NEW i \in DOMAIN c, NEW j \in DOMAIN c,
                      c[i].op = "label", c[j].op = "label", c[i].label = c[j].label
               PROVE  i = j
    BY DEF PlacedOnce
  <2>1. \A k \in DOMAIN s : s[k].op = "label" => s[k].label \in LabelsOf(s)
    BY DEF LabelsOf
  <2>2. \A k \in DOMAIN r : r[k].op = "label" => r[k].label \in LabelsOf(r)
    BY DEF LabelsOf
  <2>3. i \in Nat /\ j \in Nat
    BY <1>1, SeqFacts DEF Joins
  <2>4. CASE i \in DOMAIN s /\ c[i] = s[i] /\ j \in DOMAIN s /\ c[j] = s[j]
    BY <1>a, <2>4 DEF PlacedOnce
  <2>5. CASE /\ i - Len(s) \in DOMAIN r /\ c[i] = r[i - Len(s)]
             /\ j - Len(s) \in DOMAIN r /\ c[j] = r[j - Len(s)]
    <3>1. i - Len(s) = j - Len(s)
      BY <1>a, <2>5 DEF PlacedOnce
    <3> QED
      BY <1>1, <2>3, <3>1 DEF Joins
  <2>6. CASE i \in DOMAIN s /\ c[i] = s[i] /\ j - Len(s) \in DOMAIN r /\ c[j] = r[j - Len(s)]
    BY <1>a, <2>1, <2>2, <2>6
  <2>7. CASE j \in DOMAIN s /\ c[j] = s[j] /\ i - Len(s) \in DOMAIN r /\ c[i] = r[i - Len(s)]
    BY <1>a, <2>1, <2>2, <2>7
  <2> QED
    BY <1>1, <2>4, <2>5, <2>6, <2>7 DEF Joins
<1>5. AreLabels(c)
  BY <1>1, <1>a DEF AreLabels, Joins
<1>6. Emits(c, p1 \cup p2, w1 \cup w2)
  BY <1>a, <1>1, <1>2, <1>3, <1>4, <1>5 DEF Emits, Joins
<1> QED
  BY <1>6 DEF c

LEMMA OneInstruction ==
  ASSUME NEW x
  PROVE  /\ \A l : x = Label(l) => Emits(<<x>>, {l}, {})
         /\ x.op \in {"jump", "call"} => Emits(<<x>>, {}, {x.label})
         /\ x.op \notin {"label", "jump", "call"} => Plain(<<x>>)
<1> DEFINE s == <<x>>
<1>1. DOMAIN s = {1} /\ s[1] = x /\ IsSeq(s)
  BY DEF IsSeq
<1> HIDE DEF s
<1>2. ASSUME NEW l, x = Label(l) PROVE Emits(s, {l}, {})
  <2>1. x.op = "label" /\ x.label = l
    BY <1>2 DEF Label
  <2> QED
    BY <1>1, <1>2, <2>1 DEF Emits, AreLabels, PlacedOnce, LabelsOf, GoalsOf
<1>3. ASSUME x.op \in {"jump", "call"} PROVE Emits(s, {}, {x.label})
  BY <1>1, <1>3 DEF Emits, AreLabels, PlacedOnce, LabelsOf, GoalsOf
<1>4. x.op \notin {"label", "jump", "call"} => Plain(s)
  BY <1>1 DEF Plain
<1> QED
  BY <1>2, <1>3, <1>4 DEF s

(* A tuple of instructions is its first one and the rest.                  *)
LEMMA Tuples ==
  /\ \A a, b : <<a, b>> = <<a>> \o <<b>>
  /\ \A a, b, c : <<a, b, c>> = <<a, b>> \o <<c>>
  /\ \A a, b, c, d : <<a, b, c, d>> = <<a, b, c>> \o <<d>>
  /\ \A a, b, c, d, e : <<a, b, c, d, e>> = <<a, b, c, d>> \o <<e>>
  /\ \A a, b, c, d, e, f : <<a, b, c, d, e, f>> = <<a, b, c, d, e>> \o <<f>>
<1>1. ASSUME NEW a, NEW b
      PROVE  <<a, b>> = <<a>> \o <<b>>
  <2> DEFINE S == {a, b}
             joined == <<a>> \o <<b>>
  <2>1. <<a>> \in Seq(S) /\ <<b>> \in Seq(S) /\ <<a, b>> \in Seq(S)
    OBVIOUS
  <2>2. /\ joined \in Seq(S) /\ Len(joined) = 2
        /\ \A k \in 1 .. 2 : joined[k] = IF k <= 1 THEN <<a>>[k] ELSE <<b>>[k - 1]
    BY <2>1, ConcatProperties
  <2>3. joined[1] = a /\ joined[2] = b
    BY <2>2
  <2> HIDE DEF joined, S
  <2>4. joined = <<a, b>>
    BY <2>1, <2>2, <2>3, SeqEqual
  <2> QED
    BY <2>4 DEF joined
<1>2. ASSUME NEW a, NEW b, NEW c
      PROVE  <<a, b, c>> = <<a, b>> \o <<c>>
  <2> DEFINE S == {a, b, c}
             joined == <<a, b>> \o <<c>>
  <2>1. <<a, b>> \in Seq(S) /\ <<c>> \in Seq(S) /\ <<a, b, c>> \in Seq(S)
    OBVIOUS
  <2>2. /\ joined \in Seq(S) /\ Len(joined) = 3
        /\ \A k \in 1 .. 3 : joined[k] = IF k <= 2 THEN <<a, b>>[k] ELSE <<c>>[k - 2]
    BY <2>1, ConcatProperties
  <2>3. joined[1] = a /\ joined[2] = b /\ joined[3] = c
    BY <2>2
  <2> HIDE DEF joined, S
  <2>4. joined = <<a, b, c>>
    BY <2>1, <2>2, <2>3, SeqEqual
  <2> QED
    BY <2>4 DEF joined
<1>3. ASSUME NEW a, NEW b, NEW c, NEW d
      PROVE  <<a, b, c, d>> = <<a, b, c>> \o <<d>>
  <2> DEFINE S == {a, b, c, d}
             joined == <<a, b, c>> \o <<d>>
  <2>1. <<a, b, c>> \in Seq(S) /\ <<d>> \in Seq(S) /\ <<a, b, c, d>> \in Seq(S)
    OBVIOUS
  <2>2. /\ joined \in Seq(S) /\ Len(joined) = 4
        /\ \A k \in 1 .. 4 : joined[k] = IF k <= 3 THEN <<a, b, c>>[k] ELSE <<d>>[k - 3]
    BY <2>1, ConcatProperties
  <2>3. joined[1] = a /\ joined[2] = b /\ joined[3] = c /\ joined[4] = d
    BY <2>2
  <2> HIDE DEF joined, S
  <2>4. joined = <<a, b, c, d>>
    BY <2>1, <2>2, <2>3, SeqEqual
  <2> QED
    BY <2>4 DEF joined
<1>4. ASSUME NEW a, NEW b, NEW c, NEW d, NEW e
      PROVE  <<a, b, c, d, e>> = <<a, b, c, d>> \o <<e>>
  <2> DEFINE S == {a, b, c, d, e}
             joined == <<a, b, c, d>> \o <<e>>
  <2>1. <<a, b, c, d>> \in Seq(S) /\ <<e>> \in Seq(S) /\ <<a, b, c, d, e>> \in Seq(S)
    OBVIOUS
  <2>2. /\ joined \in Seq(S) /\ Len(joined) = 5
        /\ \A k \in 1 .. 5 : joined[k] = IF k <= 4 THEN <<a, b, c, d>>[k] ELSE <<e>>[k - 4]
    BY <2>1, ConcatProperties
  <2>3. joined[1] = a /\ joined[2] = b /\ joined[3] = c /\ joined[4] = d /\ joined[5] = e
    BY <2>2
  <2> HIDE DEF joined, S
  <2>4. joined = <<a, b, c, d, e>>
    BY <2>1, <2>2, <2>3, SeqEqual
  <2> QED
    BY <2>4 DEF joined
<1>5. ASSUME NEW a, NEW b, NEW c, NEW d, NEW e, NEW f
      PROVE  <<a, b, c, d, e, f>> = <<a, b, c, d, e>> \o <<f>>
  <2> DEFINE S == {a, b, c, d, e, f}
             joined == <<a, b, c, d, e>> \o <<f>>
  <2>1. <<a, b, c, d, e>> \in Seq(S) /\ <<f>> \in Seq(S) /\ <<a, b, c, d, e, f>> \in Seq(S)
    OBVIOUS
  <2>2. /\ joined \in Seq(S) /\ Len(joined) = 6
        /\ \A k \in 1 .. 6 : joined[k] = IF k <= 5 THEN <<a, b, c, d, e>>[k] ELSE <<f>>[k - 5]
    BY <2>1, ConcatProperties
  <2>3. joined[1] = a /\ joined[2] = b /\ joined[3] = c /\ joined[4] = d /\ joined[5] = e /\ joined[6] = f
    BY <2>2
  <2> HIDE DEF joined, S
  <2>4. joined = <<a, b, c, d, e, f>>
    BY <2>1, <2>2, <2>3, SeqEqual
  <2> QED
    BY <2>4 DEF joined
<1> QED
  BY <1>1, <1>2, <1>3, <1>4, <1>5

LEMMA NoInstruction ==
  ASSUME TRUE
  PROVE  Plain(<< >>) /\ \A s : IsSeq(s) => s \o << >> = s /\ << >> \o s = s
<1>1. Plain(<< >>)
  BY DEF Plain, IsSeq
<1> QED
  BY <1>1, ConcatEmptySeq DEF IsSeq

(* Pieces that place and want nothing.                                     *)
LEMMA PlainFlatten ==
  ASSUME NEW n \in Nat, NEW seqs, seqs = [i \in 1 .. n |-> seqs[i]],
         \A i \in 1 .. n : Plain(seqs[i])
  PROVE  Plain(FlattenSeq(seqs))
<1>1. \A i \in 1 .. n : IsSeq(seqs[i])
  BY DEF Plain
<1> DEFINE flat == FlattenSeq(seqs)
<1>2. IsSeq(flat) /\ Pieces(flat, seqs, n)
  BY <1>1, FlattenFacts
<1> HIDE DEF flat
<1>3. ASSUME NEW k \in DOMAIN flat
      PROVE  \E i \in 1 .. n : \E j \in DOMAIN seqs[i] : flat[k] = seqs[i][j]
  <2>1. PICK of, nth :
          /\ \A l \in DOMAIN flat : /\ of[l] \in 1 .. n /\ nth[l] \in DOMAIN seqs[of[l]]
                                    /\ flat[l] = seqs[of[l]][nth[l]]
          /\ \A l, m \in DOMAIN flat : of[l] = of[m] /\ nth[l] = nth[m] => l = m
          /\ \A i \in 1 .. n : \A j \in DOMAIN seqs[i] :
               \E l \in DOMAIN flat : of[l] = i /\ nth[l] = j
    BY <1>2 DEF Pieces
  <2> QED
    BY <2>1
<1>4. Plain(flat)
  BY <1>2, <1>3 DEF Plain
<1> QED
  BY <1>4 DEF flat

(* What one instruction places and wants, and a tuple of up to six.        *)
Places(x) == IF x.op = "label" THEN {x.label} ELSE {}
Aims(x)   == IF x.op \in {"jump", "call"} THEN {x.label} ELSE {}
Tidy(x)   == x.op = "label" => x = Label(x.label)

LEMMA OneEmits ==
  ASSUME NEW x, Tidy(x)
  PROVE  Emits(<<x>>, Places(x), Aims(x))
<1>1. CASE x.op = "label"
  BY <1>1, OneInstruction DEF Tidy, Places, Aims
<1>2. CASE x.op \in {"jump", "call"}
  BY <1>2, OneInstruction DEF Tidy, Places, Aims
<1>3. CASE x.op \notin {"label", "jump", "call"}
  BY <1>3, OneInstruction, PlainFacts DEF Places, Aims
<1> QED
  BY <1>1, <1>2, <1>3

Apart(p, q) == p \cap q = {}

LEMMA AppendEmits ==
  ASSUME NEW s, NEW p, NEW w, Emits(s, p, w), NEW x, Tidy(x), Apart(p, Places(x))
  PROVE  Emits(s \o <<x>>, p \cup Places(x), w \cup Aims(x))
BY OneEmits, CodeConcat DEF Apart

LEMMA TwoEmit ==
  ASSUME NEW a, NEW b,
         Tidy(a), Tidy(b),
         Apart(Places(a), Places(b))
  PROVE  Emits(<<a, b>>,
               Places(a) \cup Places(b),
               Aims(a) \cup Aims(b))
<1>1. <<a, b>> = <<a>> \o <<b>>
  BY Tuples
<1>2. Emits(<<a>>, Places(a), Aims(a))
  BY OneEmits
<1>3. Emits(<<a>> \o <<b>>,
            Places(a) \cup Places(b),
            Aims(a) \cup Aims(b))
  BY <1>2, AppendEmits
<1> QED
  BY <1>1, <1>3

LEMMA ThreeEmit ==
  ASSUME NEW a, NEW b, NEW c,
         Tidy(a), Tidy(b), Tidy(c),
         Apart(Places(a), Places(b)),
         Apart(Places(a) \cup Places(b), Places(c))
  PROVE  Emits(<<a, b, c>>,
               Places(a) \cup Places(b) \cup Places(c),
               Aims(a) \cup Aims(b) \cup Aims(c))
<1>1. <<a, b, c>> = <<a, b>> \o <<c>>
  BY Tuples
<1>2. Emits(<<a, b>>, Places(a) \cup Places(b), Aims(a) \cup Aims(b))
  BY TwoEmit
<1>3. Emits(<<a, b>> \o <<c>>,
            Places(a) \cup Places(b) \cup Places(c),
            Aims(a) \cup Aims(b) \cup Aims(c))
  BY <1>2, AppendEmits
<1> QED
  BY <1>1, <1>3

LEMMA FourEmit ==
  ASSUME NEW a, NEW b, NEW c, NEW d,
         Tidy(a), Tidy(b), Tidy(c), Tidy(d),
         Apart(Places(a), Places(b)),
         Apart(Places(a) \cup Places(b), Places(c)),
         Apart(Places(a) \cup Places(b) \cup Places(c), Places(d))
  PROVE  Emits(<<a, b, c, d>>,
               Places(a) \cup Places(b) \cup Places(c) \cup Places(d),
               Aims(a) \cup Aims(b) \cup Aims(c) \cup Aims(d))
<1>1. <<a, b, c, d>> = <<a, b, c>> \o <<d>>
  BY Tuples
<1>2. Emits(<<a, b, c>>, Places(a) \cup Places(b) \cup Places(c), Aims(a) \cup Aims(b) \cup Aims(c))
  BY ThreeEmit
<1>3. Emits(<<a, b, c>> \o <<d>>,
            Places(a) \cup Places(b) \cup Places(c) \cup Places(d),
            Aims(a) \cup Aims(b) \cup Aims(c) \cup Aims(d))
  BY <1>2, AppendEmits
<1> QED
  BY <1>1, <1>3

LEMMA FiveEmit ==
  ASSUME NEW a, NEW b, NEW c, NEW d, NEW e,
         Tidy(a), Tidy(b), Tidy(c), Tidy(d), Tidy(e),
         Apart(Places(a), Places(b)),
         Apart(Places(a) \cup Places(b), Places(c)),
         Apart(Places(a) \cup Places(b) \cup Places(c), Places(d)),
         Apart(Places(a) \cup Places(b) \cup Places(c) \cup Places(d), Places(e))
  PROVE  Emits(<<a, b, c, d, e>>,
               Places(a) \cup Places(b) \cup Places(c) \cup Places(d) \cup Places(e),
               Aims(a) \cup Aims(b) \cup Aims(c) \cup Aims(d) \cup Aims(e))
<1>1. <<a, b, c, d, e>> = <<a, b, c, d>> \o <<e>>
  BY Tuples
<1>2. Emits(<<a, b, c, d>>, Places(a) \cup Places(b) \cup Places(c) \cup Places(d), Aims(a) \cup Aims(b) \cup Aims(c) \cup Aims(d))
  BY FourEmit
<1>3. Emits(<<a, b, c, d>> \o <<e>>,
            Places(a) \cup Places(b) \cup Places(c) \cup Places(d) \cup Places(e),
            Aims(a) \cup Aims(b) \cup Aims(c) \cup Aims(d) \cup Aims(e))
  BY <1>2, AppendEmits
<1> QED
  BY <1>1, <1>3

LEMMA SixEmit ==
  ASSUME NEW a, NEW b, NEW c, NEW d, NEW e, NEW f,
         Tidy(a), Tidy(b), Tidy(c), Tidy(d), Tidy(e), Tidy(f),
         Apart(Places(a), Places(b)),
         Apart(Places(a) \cup Places(b), Places(c)),
         Apart(Places(a) \cup Places(b) \cup Places(c), Places(d)),
         Apart(Places(a) \cup Places(b) \cup Places(c) \cup Places(d), Places(e)),
         Apart(Places(a) \cup Places(b) \cup Places(c) \cup Places(d) \cup Places(e), Places(f))
  PROVE  Emits(<<a, b, c, d, e, f>>,
               Places(a) \cup Places(b) \cup Places(c) \cup Places(d) \cup Places(e) \cup Places(f),
               Aims(a) \cup Aims(b) \cup Aims(c) \cup Aims(d) \cup Aims(e) \cup Aims(f))
<1>1. <<a, b, c, d, e, f>> = <<a, b, c, d, e>> \o <<f>>
  BY Tuples
<1>2. Emits(<<a, b, c, d, e>>, Places(a) \cup Places(b) \cup Places(c) \cup Places(d) \cup Places(e), Aims(a) \cup Aims(b) \cup Aims(c) \cup Aims(d) \cup Aims(e))
  BY FiveEmit
<1>3. Emits(<<a, b, c, d, e>> \o <<f>>,
            Places(a) \cup Places(b) \cup Places(c) \cup Places(d) \cup Places(e) \cup Places(f),
            Aims(a) \cup Aims(b) \cup Aims(c) \cup Aims(d) \cup Aims(e) \cup Aims(f))
  BY <1>2, AppendEmits
<1> QED
  BY <1>1, <1>3

-----------------------------------------------------------------------------
(* An agenda whose head has been replaced by items.                        *)
Replaces(new, old, items) ==
  /\ IsSeq(new) /\ Len(new) = Len(items) + Len(old) - 1
  /\ Len(items) \in Nat /\ Len(old) \in Nat /\ Len(old) > 0
  /\ \A i \in DOMAIN items : i \in DOMAIN new /\ new[i] = items[i]
  /\ \A i \in DOMAIN old : i > 1 =>
       Len(items) + i - 1 \in DOMAIN new /\ new[Len(items) + i - 1] = old[i]
  /\ \A i \in DOMAIN new :
       \/ i \in DOMAIN items /\ i <= Len(items) /\ new[i] = items[i]
       \/ /\ i > Len(items) /\ i - Len(items) + 1 \in DOMAIN old /\ i - Len(items) + 1 > 1
          /\ new[i] = old[i - Len(items) + 1]

LEMMA AgendaReplaced ==
  ASSUME IsSeq(todo), todo # << >>, NEW items, IsSeq(items), Call(items)
  PROVE  Replaces(todo', todo, items) /\ Work = todo[1] /\ 1 \in DOMAIN todo
<1> DEFINE S == {todo[i] : i \in DOMAIN todo}
           rest == Tail(todo)
<1>1. todo \in Seq(S)
  BY DEF IsSeq
<1> HIDE DEF S
<1>2. /\ Len(todo) \in Nat \ {0} /\ DOMAIN todo = 1 .. Len(todo)
      /\ Len(items) \in Nat /\ DOMAIN items = 1 .. Len(items)
  BY <1>1, SeqFacts, EmptySeq, LenProperties
<1>3. /\ rest \in Seq(S) /\ Len(rest) = Len(todo) - 1
      /\ \A i \in 1 .. Len(rest) : rest[i] = todo[i + 1]
  BY <1>1, HeadTailProperties
<1>4. IsSeq(rest) /\ todo' = items \o rest
  BY <1>3, RangeSeq DEF Call
<1> HIDE DEF rest
<1>5. Joins(todo', items, rest)
  BY <1>4, ConcatSeqs
<1>6. DOMAIN rest = 1 .. Len(rest) /\ DOMAIN todo' = 1 .. Len(todo')
  BY <1>4, <1>5, SeqFacts DEF Joins
<1>7. ASSUME NEW i \in DOMAIN todo, i > 1
      PROVE  Len(items) + i - 1 \in DOMAIN todo' /\ todo'[Len(items) + i - 1] = todo[i]
  <2>1. i - 1 \in DOMAIN rest /\ rest[i - 1] = todo[i] /\ i \in Nat
    BY <1>2, <1>3, <1>6, <1>7
  <2>2. Len(items) + (i - 1) \in DOMAIN todo' /\ todo'[Len(items) + (i - 1)] = rest[i - 1]
    BY <1>5, <2>1 DEF Joins
  <2>3. Len(items) + (i - 1) = Len(items) + i - 1
    BY <1>2, <2>1
  <2> QED
    BY <2>1, <2>2, <2>3
<1>8. ASSUME NEW i \in DOMAIN todo'
      PROVE  \/ i \in DOMAIN items /\ i <= Len(items) /\ todo'[i] = items[i]
             \/ /\ i > Len(items) /\ i - Len(items) + 1 \in DOMAIN todo /\ i - Len(items) + 1 > 1
                /\ todo'[i] = todo[i - Len(items) + 1]
  <2>1. CASE i > Len(items) /\ i - Len(items) \in DOMAIN rest /\ todo'[i] = rest[i - Len(items)]
    BY <1>2, <1>3, <1>6, <2>1
  <2> QED
    BY <1>5, <2>1 DEF Joins
<1>9. Len(todo') = Len(items) + Len(todo) - 1 /\ IsSeq(todo')
  BY <1>2, <1>3, <1>5 DEF Joins
<1>10. Replaces(todo', todo, items)
  BY <1>2, <1>5, <1>7, <1>8, <1>9 DEF Replaces, Joins
<1> QED
  BY <1>1, <1>2, <1>10 DEF Work

-----------------------------------------------------------------------------
(* The entries of the tables: every one has a type, tables only gain       *)
(* entries, and nothing but a definition adds one to the global table.     *)
TypedType(type) ==
  /\ Known(type)
  /\ type.form = "ARRAY" => type.elem \in DOMAIN SizeOf /\ type.low \in Int /\ type.high \in Int
TypedEntry(e) ==
  DOMAIN e = {"type", "offset", "width", "assigned", "node"} /\ TypedType(e.type)
TypedTable(t) == \A x \in DOMAIN t.entry : TypedEntry(t.entry[x])
TypedTables == \A t \in DOMAIN table : TypedTable(table[t])

(* The names declared at the top are entered before anything else.         *)
AtStart ==
  \A i \in DOMAIN todo : todo[i].do = "declarations" => i = 1 /\ DOMAIN table[NamesTable].entry = {}

Grows ==
  \A t \in DOMAIN table :
    /\ t \in DOMAIN table' /\ table'[t].chain = table[t].chain
    /\ DOMAIN table[t].entry \subseteq DOMAIN table'[t].entry
GlobalKept == DOMAIN table'[GlobalTable].entry = DOMAIN table[GlobalTable].entry
TablesMove == Grows /\ TypedTables' /\ (Work.do # "define" => GlobalKept)

LEMMA EntryFacts ==
  ASSUME NEW type, TypedType(type), NEW offset, NEW width, NEW n
  PROVE  TypedEntry(Entry(type, offset, width, n))
BY DEF Entry, TypedEntry

LEMMA ExtendedFacts ==
  ASSUME NEW f, NEW x, NEW v, TypedEntry(v), \A y \in DOMAIN f : TypedEntry(f[y]),
         NEW g, g = Extended(f, x, v)
  PROVE  DOMAIN g = DOMAIN f \cup {x} /\ \A y \in DOMAIN g : TypedEntry(g[y])
<1>1. g = [y \in DOMAIN f \cup {x} |-> IF y = x THEN v ELSE f[y]]
  BY DEF Extended
<1>2. \A y \in DOMAIN g : g[y] = v \/ (y \in DOMAIN f /\ g[y] = f[y])
  BY <1>1
<1>3. DOMAIN g = DOMAIN f \cup {x}
  BY <1>1
<1> QED
  BY <1>2, <1>3

LEMMA DomainExtended ==
  ASSUME NEW f, NEW x, NEW v
  PROVE  DOMAIN Extended(f, x, v) = DOMAIN f \cup {x}
BY DEF Extended

LEMMA TableExtended ==
  ASSUME NEW t, TypedTable(t), NEW x, NEW v, TypedEntry(v),
         NEW larger, larger.entry = Extended(t.entry, x, v)
  PROVE  TypedTable(larger) /\ DOMAIN larger.entry = DOMAIN t.entry \cup {x}
<1> DEFINE f == t.entry
           g == larger.entry
<1>1. \A y \in DOMAIN f : TypedEntry(f[y])
  BY DEF TypedTable
<1>2. g = Extended(f, x, v)
  OBVIOUS
<1> HIDE DEF f, g
<1>3. DOMAIN g = DOMAIN f \cup {x} /\ \A y \in DOMAIN g : TypedEntry(g[y])
  BY <1>1, <1>2, ExtendedFacts
<1> QED
  BY <1>3 DEF f, g, TypedTable

LEMMA TableAppended ==
  ASSUME IInv, TypedTables, NEW inner, TypedTable(inner), table' = Append(table, inner)
  PROVE  TablesMove
<1>1. IsSeq(table) /\ Len(table) >= 2
  BY DEF IInv, TablesInv
<1>2. /\ DOMAIN table' = DOMAIN table \cup {Len(table) + 1}
      /\ \A i \in DOMAIN table : table'[i] = table[i]
      /\ table'[Len(table) + 1] = inner
  BY <1>1, AppendFacts
<1>3. GlobalTable \in DOMAIN table
  BY <1>1, SeqFacts DEF GlobalTable
<1> QED
  BY <1>2, <1>3 DEF TablesMove, Grows, TypedTables, GlobalKept

LEMMA TableReplaced ==
  ASSUME TypedTables, NEW w \in DOMAIN table, NEW larger, TypedTable(larger),
         table' = [table EXCEPT ![w] = larger],
         larger.chain = table[w].chain, DOMAIN table[w].entry \subseteq DOMAIN larger.entry,
         w = GlobalTable => Work.do = "define"
  PROVE  TablesMove
<1>1. /\ DOMAIN table' = DOMAIN table /\ table'[w] = larger
      /\ \A t \in DOMAIN table : t # w => table'[t] = table[t]
  OBVIOUS
<1>2. Grows
  BY <1>1 DEF Grows
<1>3. TypedTables'
  BY <1>1 DEF TypedTables
<1>4. Work.do # "define" => GlobalKept
  <2>1. CASE GlobalTable \in DOMAIN table
    BY <1>1, <2>1 DEF GlobalKept
  <2>2. CASE GlobalTable \notin DOMAIN table
    <3>1. table'[GlobalTable] = table[GlobalTable]
      BY <1>1, <2>2
    <3> QED
      BY <3>1 DEF GlobalKept
  <2> QED
    BY <2>1, <2>2
<1> QED
  BY <1>2, <1>3, <1>4 DEF TablesMove

LEMMA EntryAdded ==
  ASSUME IInv, Busy, TypedTables, NEW w \in DOMAIN table, w = GlobalTable => Work.do = "define",
         NEW x, NEW v, TypedEntry(v),
         table' = [table EXCEPT ![w].entry = Extended(@, x, v)]
  PROVE  TablesMove /\ DOMAIN table'[w].entry = DOMAIN table[w].entry \cup {x}
<1> DEFINE larger == [table[w] EXCEPT !.entry = Extended(@, x, v)]
<1>1. table' = [table EXCEPT ![w] = larger]
  OBVIOUS
<1>2. IsTable(table[w], Len(table))
  BY DEF IInv, TablesInv
<1>3. larger.chain = table[w].chain /\ larger.entry = Extended(table[w].entry, x, v)
  BY <1>2 DEF IsTable
<1> HIDE DEF larger
<1>4. TypedTable(larger) /\ DOMAIN larger.entry = DOMAIN table[w].entry \cup {x}
  <2> DEFINE t == table[w]
  <2>1. TypedTable(t) /\ larger.entry = Extended(t.entry, x, v)
    BY <1>3 DEF TypedTables
  <2> HIDE DEF t
  <2>2. TypedTable(larger) /\ DOMAIN larger.entry = DOMAIN t.entry \cup {x}
    BY ONLY ZenonT(40), <2>1, TypedEntry(v), TableExtended
  <2> QED
    BY <2>2 DEF t
<1>5. table'[w] = larger
  BY <1>1
<1> QED
  BY <1>1, <1>3, <1>4, <1>5, TableReplaced

LEMMA TablesMarked ==
  ASSUME IInv, TypedTables, NEW names, table' = Marked(names)
  PROVE  TablesMove
<1>1. ASSUME NEW t \in DOMAIN table
      PROVE  /\ table'[t].chain = table[t].chain
             /\ DOMAIN table'[t].entry = DOMAIN table[t].entry
             /\ TypedTable(table'[t])
  <2> DEFINE marks == [name \in DOMAIN table[t].entry |->
                        IF name \in names /\ t = Holder(Work.table, name)
                        THEN [table[t].entry[name] EXCEPT !.assigned = TRUE]
                        ELSE table[t].entry[name]]
  <2>1. table'[t] = [table[t] EXCEPT !.entry = marks]
    BY DEF Marked
  <2>2. IsTable(table[t], Len(table))
    BY DEF IInv, TablesInv
  <2>3. table'[t].entry = marks /\ table'[t].chain = table[t].chain
    BY <2>1, <2>2 DEF IsTable
  <2>4. ASSUME NEW x \in DOMAIN marks PROVE TypedEntry(marks[x])
    <3>1. TypedEntry(table[t].entry[x])
      BY DEF TypedTables, TypedTable
    <3>2. CASE marks[x] = table[t].entry[x]
      BY <3>1, <3>2
    <3>3. CASE marks[x] = [table[t].entry[x] EXCEPT !.assigned = TRUE]
      <4>1. /\ DOMAIN marks[x] = {"type", "offset", "width", "assigned", "node"}
            /\ marks[x].type = table[t].entry[x].type
        BY <3>1, <3>3 DEF TypedEntry
      <4> QED
        BY <3>1, <4>1 DEF TypedEntry
    <3> QED
      BY <3>2, <3>3
  <2>5. DOMAIN marks = DOMAIN table[t].entry
    OBVIOUS
  <2> HIDE DEF marks
  <2> QED
    BY <2>3, <2>4, <2>5 DEF TypedTable
<1>2. DOMAIN table' = DOMAIN table
  BY DEF Marked
<1>3. GlobalTable \in DOMAIN table
  BY SeqFacts DEF GlobalTable, IInv, TablesInv
<1> QED
  BY <1>1, <1>2, <1>3 DEF TablesMove, Grows, TypedTables, GlobalKept

LEMMA NewTableTyped ==
  ASSUME NEW parent, NEW base
  PROVE  TypedTable(NewTable(parent, base)) /\ DOMAIN NewTable(parent, base).entry = {}
BY DEF NewTable, TypedTable

LEMMA DeclareTables ==
  ASSUME IInv, TypedTables, Declare
  PROVE  TablesMove
<1> DEFINE w == Work.table
           larger == WithVariable(table[w], Var.name, Var.type, Room, Data, Work.node)
           v == Entry(Var.type, table[w].offset + Room, Room, Work.node)
<1>1. /\ Declaring /\ Busy /\ Work.do \in {"input", "return", "variable"}
      /\ table' = [table EXCEPT ![w] = larger]
  BY DEF Declare, Declaring, Busy
<1>2. /\ w \in DOMAIN table /\ IsTable(table[w], Len(table)) /\ w # GlobalTable
      /\ Work.node \in AllNodes /\ ItemInv(Work, Len(table)) /\ ProgramInv
  <2>1. ItemInv(Work, Len(table)) /\ Work.node \in AllNodes
    BY <1>1, WorkFacts
  <2> QED
    BY <1>1, <2>1, WorkFacts, InModule DEF IInv, IsModuleWalk
<1>3. larger.chain = table[w].chain /\ larger.entry = Extended(table[w].entry, Var.name, v)
  BY <1>2 DEF WithVariable, IsTable
<1>4. TypedType(Var.type)
  <2>1. IsVariableType(Var.type)
    <3>1. CASE Work.do \in {"input", "return"}
      <4>1. Node(Work.node).tag = "MODULE"
        BY <1>2, <3>1 DEF ItemInv
      <4>2. /\ \A i \in DOMAIN Node(Work.node).inputs : IsVariableType(Node(Work.node).inputs[i].type)
            /\ \A i \in DOMAIN Node(Work.node).returns : IsVariableType(Node(Work.node).returns[i].type)
        BY <1>2, <4>1, ModuleFacts
      <4> QED
        BY <1>2, <3>1, <4>2 DEF ItemInv, Var
    <3>2. CASE Work.do = "variable"
      <4>1. Node(Work.node).tag = "DECLARE" /\ Work.nth \in DOMAIN Node(Work.node).vars
        BY <1>2, <3>2 DEF ItemInv
      <4>2. AreVariables(Node(Work.node).vars)
        BY <1>2, <4>1 DEF ProgramInv, WellFormed, NodeWellFormed, Node, AllNodes
      <4> QED
        BY <3>2, <4>1, <4>2 DEF Var, AreVariables
    <3> QED
      BY <1>1, <3>1, <3>2
  <2> QED
    BY <2>1 DEF IsVariableType, TypedType, Known, SizeOf
<1>5. TypedEntry(v)
  BY <1>4, EntryFacts
<1> HIDE DEF larger, v
<1>6. TypedTable(larger) /\ DOMAIN larger.entry = DOMAIN table[w].entry \cup {Var.name}
  <2> DEFINE t == table[w]
             x == Var.name
  <2>1. TypedTable(t) /\ larger.entry = Extended(t.entry, x, v)
    BY <1>2, <1>3 DEF TypedTables
  <2> HIDE DEF t, x
  <2>2. TypedTable(larger) /\ DOMAIN larger.entry = DOMAIN t.entry \cup {x}
    BY ONLY ZenonT(40), <1>5, <2>1, TableExtended
  <2> QED
    BY <2>2 DEF t, x
<1> QED
  BY <1>1, <1>2, <1>3, <1>6, TableReplaced

LEMMA EnterTables ==
  ASSUME IInv, TypedTables, EnterModule \/ OpenScope \/ EnterFor \/ EnterWhile \/ EnterCase
  PROVE  TablesMove
<1>1. ASSUME NEW base, table' = Append(table, NewTable(Work.table, base))
      PROVE  TablesMove
  BY <1>1, NewTableTyped, TableAppended
<1>2. CASE EnterModule
  BY <1>1, <1>2 DEF EnterModule
<1>3. CASE OpenScope
  BY <1>1, <1>3 DEF OpenScope
<1>4. CASE EnterWhile \/ EnterCase
  BY <1>1, <1>4 DEF EnterWhile, EnterCase, Enter, Inner
<1>5. CASE EnterFor
  <2> DEFINE size == SizeOf["INTEGER"]
             v == Entry(Integer, Inner.offset + size, size, Work.node)
             inner == WithVariable(Inner, Node(Work.node).name, Integer, size, size, Work.node)
  <2>1. table' = Append(table, inner)
    BY <1>5 DEF EnterFor, Enter
  <2>2. inner.entry = Extended(Inner.entry, Node(Work.node).name, v) /\ DOMAIN Inner.entry = {}
    BY DEF WithVariable, Inner, NewTable
  <2>3. TypedEntry(v)
    BY EntryFacts DEF Integer, TypedType, Known
  <2> HIDE DEF v, inner
  <2>4. TypedTable(inner)
    <3>1. TypedTable(Inner)
      BY NewTableTyped DEF Inner
    <3> QED
      BY <2>2, <2>3, <3>1, TableExtended
  <2> QED
    BY <2>1, <2>4, TableAppended
<1> QED
  BY <1>2, <1>3, <1>4, <1>5

LEMMA DefineTables ==
  ASSUME IInv, TypedTables, AtStart, DefineModule \/ DeclareModules
  PROVE  TablesMove
<1>1. CASE DefineModule
  <2>1. Busy /\ Work.do = "define" /\ Work.table \in DOMAIN table
    <3>1. Busy /\ Work.do = "define"
      BY <1>1 DEF DefineModule, At
    <3> QED
      BY <3>1, WorkFacts
  <2>2. CASE table' = table
    BY <2>1, <2>2 DEF TablesMove, Grows, TypedTables, GlobalKept
  <2>3. CASE table' = [table EXCEPT ![Work.table].entry =
                        Extended(@, Node(Work.node).name, Entry(ModuleType(Work.node), 0, 0, Work.node))]
    <3>1. TypedEntry(Entry(ModuleType(Work.node), 0, 0, Work.node))
      BY EntryFacts DEF ModuleType, FunctionOf, TypedType, Known
    <3> QED
      BY <2>1, <2>3, <3>1, EntryAdded
  <2> QED
    BY <1>1, <2>2, <2>3 DEF DefineModule
<1>2. CASE DeclareModules
  <2> DEFINE names == {prog.declared[i] : i \in DOMAIN prog.declared}
             entries == [name \in names |-> Entry(FunctionOf(<< >>, << >>, 0), 0, 0, 0)]
             larger == [table[NamesTable] EXCEPT !.entry = entries]
  <2>1. Busy /\ Work.do = "declarations" /\ todo # << >>
    BY <1>2 DEF DeclareModules, At, Busy
  <2>2. NamesTable \in DOMAIN table /\ IsTable(table[NamesTable], Len(table)) /\ NamesTable # GlobalTable
    BY <2>1, WorkFacts DEF NamesTable, GlobalTable, IInv, TablesInv
  <2>3. DOMAIN table[NamesTable].entry = {}
    <3>1. 1 \in DOMAIN todo /\ Work = todo[1]
      <4>1. todo \in Seq(ItemSet)
        BY DEF IInv, AgendaInv
      <4> QED
        BY <2>1, <4>1, EmptySeq, LenProperties DEF Work
    <3> QED
      BY <2>1, <3>1 DEF AtStart
  <2>4. table' = [table EXCEPT ![NamesTable] = larger]
    BY <1>2 DEF DeclareModules
  <2>5. larger.entry = entries /\ larger.chain = table[NamesTable].chain
    BY <2>2 DEF IsTable
  <2>6. TypedTable(larger)
    <3>1. TypedEntry(Entry(FunctionOf(<< >>, << >>, 0), 0, 0, 0))
      BY EntryFacts DEF FunctionOf, TypedType, Known
    <3> QED
      BY <2>5, <3>1 DEF TypedTable
  <2> HIDE DEF larger
  <2> QED
    BY <2>2, <2>3, <2>4, <2>5, <2>6, TableReplaced
<1> QED
  BY <1>1, <1>2

LEMMA ScopesTables ==
  ASSUME IInv, TypedTables, AtStart, ScopesNext
  PROVE  TablesMove
<1>1. CASE UNCHANGED table
  BY <1>1 DEF TablesMove, Grows, TypedTables, GlobalKept
<1>2. CASE DeclareModules \/ DefineModule
  BY <1>2, DefineTables
<1>3. CASE EnterModule \/ OpenScope \/ EnterFor \/ EnterWhile \/ EnterCase
  BY <1>3, EnterTables
<1>4. CASE Declare
  BY <1>4, DeclareTables
<1>5. CASE Redeclare \/ WalkDeclare \/ WalkSwitch \/ WalkId \/ WalkArray \/ WalkExpression
             \/ WalkPrint \/ WalkAssign
  BY <1>1, <1>5 DEF Redeclare, WalkDeclare, WalkSwitch, WalkId, WalkArray, WalkExpression,
                    WalkPrint, WalkAssign
<1>6. CASE WalkGetValue \/ MarkAssigned \/ WalkUse
  <2>1. \E names : table' = Marked(names)
    BY <1>6 DEF WalkGetValue, MarkAssigned, WalkUse
  <2> QED
    BY <2>1, TablesMarked
<1> QED
  BY <1>2, <1>3, <1>4, <1>5, <1>6 DEF ScopesNext

-----------------------------------------------------------------------------
(* What a name has been found to stand for.                                *)
Bounded == IsSeq(table) /\ \A t \in DOMAIN table : table[t].chain \subseteq DOMAIN table

LEMMA TablesBounded ==
  ASSUME IInv
  PROVE  Bounded
<1>1. IsSeq(table) /\ DOMAIN table = 1 .. Len(table) /\ Len(table) \in Nat
  BY SeqFacts DEF IInv, TablesInv
<1>2. \A t \in DOMAIN table : table[t].chain \subseteq 1 .. t
  BY DEF IInv, ChainsInv
<1> QED
  BY <1>1, <1>2 DEF Bounded

LEMMA HolderFacts ==
  ASSUME Bounded, NEW t \in DOMAIN table, NEW name, HoldersOf(t, name) # {}
  PROVE  /\ Holder(t, name) \in HoldersOf(t, name) /\ Holder(t, name) \in DOMAIN table
         /\ Found(t, name) /\ name \in DOMAIN table[Holder(t, name)].entry
<1> DEFINE H == HoldersOf(t, name)
           D == {Len(table) - u : u \in H}
<1>1. Len(table) \in Nat /\ DOMAIN table = 1 .. Len(table) /\ H \subseteq DOMAIN table
  BY SeqFacts DEF Bounded, HoldersOf
<1>2. \A u \in H : name \in DOMAIN table[u].entry
  BY DEF HoldersOf
<1>3. Holder(t, name) = Innermost(H)
  BY DEF Holder
<1> HIDE DEF H
<1>4. D \in SUBSET Nat /\ D # {}
  <2>1. \A u \in H : Len(table) - u \in Nat
    BY <1>1
  <2>2. H # {}
    BY DEF H
  <2> QED
    BY <2>1, <2>2
<1>5. PICK d \in D : \A m \in D : d <= m
  BY <1>4, LeastNumber
<1>6. PICK u \in H : d = Len(table) - u
  OBVIOUS
<1>7. ASSUME NEW v \in H PROVE v <= u
  <2>1. d <= Len(table) - v
    BY <1>5
  <2>2. u \in Nat /\ v \in Nat
    BY <1>1
  <2> QED
    BY <1>1, <1>6, <2>1, <2>2
<1>8. Innermost(H) \in H
  <2>1. \E w \in H : \A v \in H : v <= w
    BY <1>7
  <2> QED
    BY <2>1 DEF Innermost
<1> QED
  BY <1>1, <1>2, <1>3, <1>8 DEF Found, H

NoteTyped(n) ==
  note[n].type.form = "ARRAY" =>
    /\ note[n].type.elem \in DOMAIN SizeOf
    /\ note[n].type.low \in Int /\ note[n].type.high \in Int
    /\ Node(n).tag = "GET_VALUE" =>
         note[n].table \in DOMAIN table /\ HoldersOf(note[n].table, Node(n).name) # {}
NotesTyped == \A n \in AllNodes : NoteTyped(n)

(* The nodes that stand for a name, and those of them that have its type.  *)
Naming == {"SWITCH", "ID", "ARRAY"}
Resolved(n) == Node(n).tag \in Naming => Known(note[n].type)

NotesMove ==
  /\ \A n \in AllNodes :
       \/ note'[n] = note[n]
       \/ NoteTyped(n)' /\ (errors' = {} => Known(note'[n].type))
  /\ Work.do = "walk" /\ Node(Work.node).tag \in Naming /\ errors' = {} => Known(note'[Work.node].type)

LEMMA HoldersGrow ==
  ASSUME Grows, Bounded, NEW CONSTANT t \in DOMAIN table, NEW CONSTANT name, HoldersOf(t, name) # {}
  PROVE  t \in DOMAIN table' /\ HoldersOf(t, name)' # {}
<1>1. PICK u \in table[t].chain : name \in DOMAIN table[u].entry
  BY DEF HoldersOf
<1>2. u \in DOMAIN table
  BY <1>1 DEF Bounded
<1>3. t \in DOMAIN table' /\ u \in table'[t].chain /\ name \in DOMAIN table'[u].entry
  BY <1>1, <1>2 DEF Grows
<1> QED
  BY <1>3 DEF HoldersOf

LEMMA ScopesBusy ==
  ASSUME ScopesNext
  PROVE  Busy /\ prog' = prog
<1>1. Busy
  BY DEF ScopesNext, DeclareModules, EnterModule, OpenScope, DefineModule, Declare, Redeclare,
         WalkDeclare, EnterFor, EnterWhile, EnterCase, WalkSwitch, WalkId, WalkArray,
         WalkExpression, WalkPrint, WalkGetValue, WalkAssign, MarkAssigned, WalkUse,
         Declaring, WalkAt, At
<1>2. prog' = prog
  BY DEF ScopesNext, DeclareModules, EnterModule, OpenScope, DefineModule, Declare, Redeclare,
         WalkDeclare, EnterFor, EnterWhile, EnterCase, WalkSwitch, WalkId, WalkArray,
         WalkExpression, WalkPrint, WalkGetValue, WalkAssign, MarkAssigned, WalkUse
<1> QED
  BY <1>1, <1>2

LEMMA ResolvedNote ==
  ASSUME IInv, Busy, Work.do = "walk", TypedTables, Grows, prog' = prog,
         Resolve(Node(Work.node).name)
  PROVE  NotesMove
<1> SUFFICES ASSUME NEW CONSTANT n, n = Work.node, NEW CONSTANT t, t = Work.table,
                    NEW CONSTANT name, name = Node(n).name
             PROVE  NotesMove
  OBVIOUS
<1>1. n \in AllNodes /\ t \in DOMAIN table /\ DOMAIN note = AllNodes
  BY WorkFacts DEF IInv, NotesInv
<1>2. /\ note'[n].type = TypeIn(t, name) /\ note'[n].table = t
      /\ \A m \in AllNodes : m # n => note'[m] = note[m]
      /\ errors' = {} => Found(t, name)
  <2>1. Resolve(name) /\ n = Work.node /\ t = Work.table
    OBVIOUS
  <2>2. note' = [note EXCEPT ![n] =
                  [type   |-> TypeIn(t, name),
                   offset |-> IF Found(t, name) THEN Lookup(t, name).offset ELSE 0,
                   table  |-> t]]
    BY <2>1 DEF Resolve
  <2>3. errors' = {} => Found(t, name)
    BY <2>1 DEF Resolve, Report
  <2> QED
    BY <1>1, <2>2, <2>3
<1>3. Bounded
  BY TablesBounded
<1>4. CASE ~Found(t, name)
  <2>1. note'[n].type.form = "UNDEFINED"
    BY <1>2, <1>4 DEF TypeIn, Undefined
  <2>2. NoteTyped(n)'
    BY <2>1 DEF NoteTyped
  <2> QED
    BY <1>2, <1>4, <2>2 DEF NotesMove
<1>5. CASE Found(t, name)
  <2>1. HoldersOf(t, name) # {}
    BY <1>5 DEF Found, Holder
  <2>2. Holder(t, name) \in DOMAIN table /\ name \in DOMAIN table[Holder(t, name)].entry
    BY <1>1, <1>3, <2>1, HolderFacts
  <2>3. TypedEntry(Lookup(t, name))
    BY <2>2 DEF TypedTables, TypedTable, Lookup
  <2>4. TypedType(note'[n].type)
    BY <1>2, <1>5, <2>3 DEF TypedEntry, TypeIn
  <2>5. t \in DOMAIN table' /\ HoldersOf(t, name)' # {}
    BY <1>1, <1>3, <2>1, HoldersGrow
  <2>6. Node(n).name' = name
    BY DEF Node
  <2>7. note'[n].table \in DOMAIN table' /\ HoldersOf(note[n].table, Node(n).name)' # {}
    BY <1>2, <2>5, <2>6
  <2>8. NoteTyped(n)'
    BY <2>4, <2>7 DEF NoteTyped, TypedType
  <2> QED
    BY <1>2, <2>4, <2>8 DEF NotesMove, TypedType
<1> QED
  BY <1>4, <1>5

LEMMA ScopesNotes ==
  ASSUME IInv, TypedTables, AtStart, ScopesNext
  PROVE  NotesMove
<1>1. Grows /\ Busy /\ prog' = prog
  BY ScopesTables, ScopesBusy DEF TablesMove
<1>2. CASE UNCHANGED note /\ ~(Work.do = "walk" /\ Node(Work.node).tag \in Naming)
  BY <1>2 DEF NotesMove
<1>3. CASE DeclareModules \/ EnterModule \/ OpenScope \/ DefineModule \/ Declare \/ Redeclare
             \/ MarkAssigned
  BY <1>2, <1>3 DEF DeclareModules, EnterModule, OpenScope, DefineModule, Declare, Redeclare,
                    MarkAssigned, Declaring, WalkAt, At, Naming
<1>4. CASE WalkDeclare \/ EnterFor \/ EnterWhile \/ EnterCase \/ WalkExpression \/ WalkPrint \/ WalkAssign
  BY <1>2, <1>4 DEF WalkDeclare, EnterFor, EnterWhile, EnterCase, WalkExpression, WalkPrint,
                    WalkAssign, WalkAt, At, Naming
<1>5. CASE WalkSwitch \/ WalkId \/ WalkArray \/ WalkGetValue
  <2>1. Work.do = "walk" /\ Resolve(Node(Work.node).name)
    BY <1>5 DEF WalkSwitch, WalkId, WalkArray, WalkGetValue, WalkAt, At
  <2> QED
    BY <1>1, <2>1, ResolvedNote
<1>6. CASE WalkUse
  <2>1. Work.do = "walk" /\ Node(Work.node).tag = "USE" /\ Work.node \in AllNodes
    BY <1>1, <1>6, WorkFacts DEF WalkUse, WalkAt, At
  <2>2. PICK types : types.form = "FUNCTION" /\
          note' = [note EXCEPT ![Work.node] = [type |-> types, offset |-> 0, table |-> Work.table]]
    BY <1>6 DEF WalkUse, FunctionOf
  <2>3. DOMAIN note = AllNodes
    BY DEF IInv, NotesInv
  <2>4. ASSUME NEW n \in AllNodes
        PROVE  note'[n] = note[n] \/ note'[n].type.form = "FUNCTION"
    BY <2>1, <2>2, <2>3
  <2>5. ASSUME NEW n \in AllNodes, note'[n].type.form = "FUNCTION" PROVE NoteTyped(n)'
    BY <2>5 DEF NoteTyped
  <2> QED
    BY <2>1, <2>4, <2>5 DEF NotesMove, Naming, Known
<1> QED
  BY <1>3, <1>4, <1>5, <1>6 DEF ScopesNext

LEMMA TypedInductive ==
  ASSUME IInv, TypedTables, NotesTyped, AtStart, ScopesNext
  PROVE  TypedTables' /\ NotesTyped'
<1>1. TablesMove /\ NotesMove /\ Bounded
  BY ScopesTables, ScopesNotes, TablesBounded
<1>2. prog' = prog /\ AllNodes' = AllNodes
  BY ScopesBusy DEF AllNodes
<1>3. ASSUME NEW n \in AllNodes, note'[n] = note[n] PROVE NoteTyped(n)'
  <2> SUFFICES ASSUME note[n].type.form = "ARRAY" PROVE NoteTyped(n)'
    BY <1>3 DEF NoteTyped
  <2>1. NoteTyped(n)
    BY DEF NotesTyped
  <2> SUFFICES ASSUME Node(n).tag = "GET_VALUE"
               PROVE  note'[n].table \in DOMAIN table' /\ HoldersOf(note[n].table, Node(n).name)' # {}
    BY <1>2, <1>3, <2>1 DEF NoteTyped, Node
  <2>2. note[n].table \in DOMAIN table /\ HoldersOf(note[n].table, Node(n).name) # {}
    BY <2>1 DEF NoteTyped
  <2>3. PICK t \in DOMAIN table : t = note[n].table
    BY <2>2
  <2>4. PICK name : name = Node(n).name
    OBVIOUS
  <2>5. t \in DOMAIN table' /\ HoldersOf(t, name)' # {}
    BY <1>1, <2>2, <2>3, <2>4, HoldersGrow DEF TablesMove
  <2>6. note'[n].table = t /\ Node(n).name' = name
    BY <1>2, <1>3, <2>3, <2>4 DEF Node
  <2> QED
    BY <2>5, <2>6
<1>4. NotesTyped'
  BY <1>1, <1>2, <1>3 DEF NotesMove, NotesTyped
<1> QED
  BY <1>1, <1>4 DEF TablesMove

-----------------------------------------------------------------------------
(* How far a walk has come: the nodes V are behind it, P on the agenda.    *)
Tops == {prog.driver} \cup {prog.modules[i] : i \in DOMAIN prog.modules}
Sections == Branching \cup {"ASSIGN", "BINARY", "UNARY", "ARRAY"}
Parts(n) ==
  IF Node(n).tag \in Sections THEN {Body(Node(n))[i] : i \in DOMAIN Body(Node(n))} ELSE {}
Spread(V, P) ==
  V \subseteq AllNodes /\ Tops \subseteq V \cup P /\ \A n \in V : Parts(n) \subseteq V \cup P
Pending(tasks) == {todo[i].node : i \in {i \in DOMAIN todo : todo[i].do \in tasks}}
Asked(items, tasks) == {items[i].node : i \in {i \in DOMAIN items : items[i].do \in tasks}}

LEMMA SpreadStep ==
  ASSUME NEW V, NEW P, NEW Q, NEW h \in AllNodes, Spread(V, P), P \subseteq Q \cup {h}, Parts(h) \subseteq Q
  PROVE  Spread(V \cup {h}, Q)
BY DEF Spread

LEMMA SpreadMore ==
  ASSUME NEW V, NEW P, NEW Q, Spread(V, P), P \subseteq Q
  PROVE  Spread(V, Q)
BY DEF Spread

LEMMA SpreadKept ==
  ASSUME prog' = prog, NEW CONSTANT V, NEW CONSTANT P, Spread(V, P)
  PROVE  Spread(V, P)'
<1>1. AllNodes' = AllNodes /\ Tops' = Tops /\ \A n \in V : Parts(n)' = Parts(n)
  BY DEF AllNodes, Tops, Parts, Node, Body
<1> QED
  BY <1>1 DEF Spread

LEMMA PendingStep ==
  ASSUME NEW items, Replaces(todo', todo, items), Work = todo[1], NEW CONSTANT tasks
  PROVE  /\ Pending(tasks) \subseteq Pending(tasks)' \cup {Work.node}
         /\ Work.do \notin tasks => Pending(tasks) \subseteq Pending(tasks)'
         /\ Asked(items, tasks) \subseteq Pending(tasks)'
<1>1. ASSUME NEW i \in DOMAIN todo, todo[i].do \in tasks
      PROVE  todo[i].node \in Pending(tasks)' \/ (i = 1 /\ Work.do \in tasks /\ todo[i].node = Work.node)
  <2>1. CASE i > 1
    BY <1>1, <2>1 DEF Replaces, Pending
  <2>2. CASE ~(i > 1)
    <3>1. i = 1
      BY <2>2 DEF Replaces
    <3> QED
      BY <1>1, <3>1
  <2> QED
    BY <2>1, <2>2
<1>2. Asked(items, tasks) \subseteq Pending(tasks)'
  BY DEF Replaces, Pending, Asked
<1> QED
  BY <1>1, <1>2 DEF Pending

(* The tasks of one step of the first walk.                                *)
Local(item) == item.do # "define" /\ ~IsModuleWalk(item)
Spawns(items) ==
  /\ IsSeq(items) /\ Call(items)
  /\ \A k \in DOMAIN items : items[k].do # "declarations"
  /\ Work.do = "walk" /\ Node(Work.node).tag # "MODULE" => Parts(Work.node) \subseteq Asked(items, {"walk"})
  /\ Work.do = "scope" => Parts(Work.node) \subseteq Asked(items, {"walk"})
  /\ Local(Work) => \A k \in DOMAIN items : Local(items[k])
  /\ Work.do = "define" => items = << >>
  /\ IsModuleWalk(Work) =>
       /\ Work.node \in Asked(items, {"scope"})
       /\ Len(items) \in DOMAIN items /\ items[Len(items)] = Item("define", Work.node, GlobalTable, 0)
       /\ \A k \in DOMAIN items : k # Len(items) => Local(items[k])

LEMMA SpawnsNone ==
  ASSUME Call(<< >>), ~IsModuleWalk(Work),
         Work.do \in {"walk", "scope"} => Parts(Work.node) = {}
  PROVE  Spawns(<< >>)
<1>1. IsSeq(<< >>) /\ DOMAIN << >> = {}
  BY DEF IsSeq
<1> QED
  BY <1>1 DEF Spawns

LEMMA WalksAsk ==
  ASSUME NEW nodes \in Seq(AllNodes), NEW t
  PROVE  /\ IsSeq(Walks(nodes, t)) /\ DOMAIN Walks(nodes, t) = DOMAIN nodes
         /\ \A k \in DOMAIN nodes : Walks(nodes, t)[k].do = "walk" /\ Walks(nodes, t)[k].node = nodes[k]
         /\ Asked(Walks(nodes, t), {"walk"}) = {nodes[k] : k \in DOMAIN nodes}
<1> DEFINE items == Walks(nodes, t)
<1>1. items = [k \in 1 .. Len(nodes) |-> Item("walk", nodes[k], t, 0)] /\ Len(nodes) \in Nat
      /\ DOMAIN nodes = 1 .. Len(nodes)
  BY DEF Walks
<1>2. \A k \in DOMAIN nodes : items[k].do = "walk" /\ items[k].node = nodes[k]
  BY <1>1 DEF Item
<1>3. DOMAIN items = DOMAIN nodes
  BY <1>1
<1>4. IsSeq(items)
  BY <1>1, ListFacts
<1> HIDE DEF items
<1>5. Asked(items, {"walk"}) = {nodes[k] : k \in DOMAIN nodes}
  BY <1>2, <1>3 DEF Asked
<1> QED
  BY <1>2, <1>3, <1>4, <1>5 DEF items

LEMMA SpawnsWalks ==
  ASSUME Work.do = "walk", Node(Work.node).tag # "MODULE",
         NEW nodes \in Seq(AllNodes), \A k \in DOMAIN nodes : Node(nodes[k]).tag # "MODULE",
         Parts(Work.node) \subseteq {nodes[k] : k \in DOMAIN nodes},
         NEW t, Call(Walks(nodes, t))
  PROVE  Spawns(Walks(nodes, t))
<1> DEFINE items == Walks(nodes, t)
<1>1. /\ IsSeq(items) /\ DOMAIN items = DOMAIN nodes
      /\ \A k \in DOMAIN nodes : items[k].do = "walk" /\ items[k].node = nodes[k]
      /\ Asked(items, {"walk"}) = {nodes[k] : k \in DOMAIN nodes}
  BY WalksAsk
<1>2. Call(items)
  OBVIOUS
<1> HIDE DEF items
<1>3. \A k \in DOMAIN items : items[k].do # "declarations" /\ Local(items[k])
  BY <1>1 DEF Local, IsModuleWalk
<1>4. Spawns(items)
  BY <1>1, <1>2, <1>3 DEF Spawns, IsModuleWalk
<1> QED
  BY <1>4 DEF items

LEMMA EachAsks ==
  ASSUME NEW do, NEW n, NEW t, NEW list, IsList(list)
  PROVE  /\ IsSeq(Each(do, n, t, list)) /\ Len(Each(do, n, t, list)) = Len(list)
         /\ \A k \in DOMAIN Each(do, n, t, list) :
              Each(do, n, t, list)[k].do = do /\ Each(do, n, t, list)[k].node = n
<1> DEFINE items == Each(do, n, t, list)
<1>1. items = [k \in 1 .. Len(list) |-> Item(do, n, t, k)] /\ Len(list) \in Nat
  BY DEF Each, IsList
<1>2. \A k \in DOMAIN items : items[k].do = do /\ items[k].node = n
  BY <1>1 DEF Item
<1>3. IsSeq(items) /\ Len(items) = Len(list)
  BY <1>1, ListFacts
<1> QED
  BY <1>2, <1>3

LEMMA NoParts ==
  ASSUME NEW n, Node(n).tag \notin Sections
  PROVE  Parts(n) = {}
BY DEF Parts

LEMMA QuietSpawns ==
  ASSUME IInv, DeclareModules \/ DefineModule \/ Declare \/ Redeclare \/ MarkAssigned
                 \/ WalkId \/ WalkGetValue \/ WalkUse
  PROVE  Spawns(<< >>)
<1>1. CASE DeclareModules \/ DefineModule \/ Declare \/ Redeclare \/ MarkAssigned
  <2>1. Work.do \notin {"walk", "scope"} /\ Call(<< >>)
    BY <1>1 DEF DeclareModules, DefineModule, Declare, Redeclare, MarkAssigned, Declaring, At
  <2> QED
    BY <2>1, SpawnsNone DEF IsModuleWalk
<1>2. CASE WalkId \/ WalkGetValue \/ WalkUse
  <2>1. Work.do = "walk" /\ Node(Work.node).tag \in {"ID", "GET_VALUE", "USE"} /\ Call(<< >>)
    BY <1>2 DEF WalkId, WalkGetValue, WalkUse, WalkAt, At
  <2>2. Parts(Work.node) = {}
    BY <2>1, NoParts DEF Sections, Branching
  <2> QED
    BY <2>1, <2>2, SpawnsNone DEF IsModuleWalk
<1> QED
  BY <1>1, <1>2

LEMMA WalkSpawns ==
  ASSUME IInv, WalkSwitch \/ WalkArray \/ WalkExpression \/ WalkPrint \/ EnterFor \/ EnterCase \/ EnterWhile
  PROVE  \E items : Spawns(items)
<1> DEFINE n == Work.node
           kids == Node(n).kids
<1>1. Busy /\ Work.do = "walk" /\ n \in AllNodes /\ ProgramInv
  <2>1. Busy /\ Work.do = "walk"
    BY DEF WalkSwitch, WalkArray, WalkExpression, WalkPrint, EnterFor, EnterCase, EnterWhile, WalkAt, At
  <2> QED
    BY <2>1, WorkFacts DEF IInv
<1>2. /\ kids \in Seq(AllNodes) /\ \A k \in DOMAIN kids : Node(kids[k]).tag # "MODULE"
      /\ Body(Node(n)) \in Seq(AllNodes)
      /\ \A k \in DOMAIN Body(Node(n)) : Node(Body(Node(n))[k]).tag # "MODULE"
  BY <1>1, KidsFacts, BodyFacts
<1>3. CASE WalkSwitch \/ WalkArray \/ WalkExpression
  <2>1. Node(n).tag \in {"SWITCH", "ARRAY", "BINARY", "UNARY", "INT", "BOOL", "REAL"}
        /\ Call(Walks(kids, Work.table))
    BY <1>3 DEF WalkSwitch, WalkArray, WalkExpression, WalkAt, At
  <2>2. Parts(n) \subseteq {kids[k] : k \in DOMAIN kids}
    BY <2>1 DEF Parts, Sections, Branching, Body
  <2>3. Node(n).tag # "MODULE"
    BY <2>1
  <2> QED
    BY <1>1, <1>2, <2>1, <2>2, <2>3, SpawnsWalks
<1>4. CASE WalkPrint
  <2>1. Node(n).tag = "PRINT" /\ Parts(n) = {}
    BY <1>4, NoParts DEF WalkPrint, WalkAt, Sections, Branching
  <2>2. CASE Node(kids[1]).tag = "ID"
    <3>1. Call(Walks(<<kids[1]>>, Work.table))
      BY <1>4, <2>2 DEF WalkPrint
    <3>2. kids # << >>
      <4>1. Len(kids) = 1
        BY <1>1, <1>2, <2>1, ArityFacts
      <4> QED
        BY <4>1
    <3>3. <<kids[1]>> \in Seq(AllNodes)
      BY <1>2, <3>2
    <3> DEFINE one == <<kids[1]>>
    <3>4. \A k \in DOMAIN one : Node(one[k]).tag # "MODULE"
      BY <2>2
    <3> HIDE DEF one
    <3>5. one \in Seq(AllNodes) /\ Call(Walks(one, Work.table))
      BY <3>1, <3>3 DEF one
    <3> QED
      BY <1>1, <2>1, <3>4, <3>5, SpawnsWalks
  <2>3. CASE Node(kids[1]).tag # "ID"
    <3>1. Call(<< >>)
      BY <1>4, <2>3 DEF WalkPrint
    <3> QED
      BY <2>1, <3>1, SpawnsNone DEF IsModuleWalk
  <2> QED
    BY <2>2, <2>3
<1>5. CASE EnterFor \/ EnterCase
  <2> DEFINE body == Body(Node(n))
  <2>1. Node(n).tag \in {"FOR", "CASE"} /\ Call(Walks(body, Len(table) + 1))
    BY <1>5 DEF EnterFor, EnterCase, Enter, WalkAt, At
  <2>2. Parts(n) \subseteq {body[k] : k \in DOMAIN body}
    BY DEF Parts
  <2>3. body \in Seq(AllNodes) /\ \A k \in DOMAIN body : Node(body[k]).tag # "MODULE"
    BY <1>2
  <2> HIDE DEF body
  <2> QED
    BY <1>1, <2>1, <2>2, <2>3, SpawnsWalks
<1>6. CASE EnterWhile
  <2> DEFINE body == Body(Node(n))
             last == Predicate(Node(n))
             all == Append(body, last)
  <2>1. Node(n).tag = "WHILE" /\ Call(Walks(all, Len(table) + 1))
    BY <1>6 DEF EnterWhile, Enter, WalkAt, At
  <2>2. Parts(n) \subseteq {body[k] : k \in DOMAIN body}
    BY DEF Parts
  <2>3. body \in Seq(AllNodes) /\ \A k \in DOMAIN body : Node(body[k]).tag # "MODULE"
    BY <1>2
  <2>4. last \in AllNodes /\ Node(last).tag # "MODULE"
    <3>1. kids # << >>
      BY <1>1, <2>1 DEF ProgramInv, WellFormed, NodeWellFormed, Node, AllNodes
    <3>2. 1 \in DOMAIN kids
      BY <1>2, <3>1, EmptySeq
    <3> QED
      BY <1>2, <3>2 DEF Predicate
  <2> HIDE DEF body, last
  <2>5. IsSeq(body)
    BY <2>3, RangeSeq
  <2>6. all \in Seq(AllNodes)
    BY <2>3, <2>4
  <2>7. /\ DOMAIN all = DOMAIN body \cup {Len(body) + 1}
        /\ \A i \in DOMAIN body : all[i] = body[i]
        /\ all[Len(body) + 1] = last
    BY <2>5, AppendFacts
  <2> HIDE DEF all
  <2>8. \A k \in DOMAIN all : Node(all[k]).tag # "MODULE"
    BY <2>3, <2>4, <2>7
  <2>9. Parts(n) \subseteq {all[k] : k \in DOMAIN all}
    BY <2>2, <2>7
  <2> QED
    BY <1>1, <2>1, <2>6, <2>8, <2>9, SpawnsWalks
<1> QED
  BY <1>3, <1>4, <1>5, <1>6

LEMMA ListSpawns ==
  ASSUME IInv, WalkDeclare \/ WalkAssign
  PROVE  \E items : Spawns(items)
<1> DEFINE n == Work.node
<1>1. Busy /\ Work.do = "walk" /\ n \in AllNodes /\ ProgramInv
  <2>1. Busy /\ Work.do = "walk"
    BY DEF WalkDeclare, WalkAssign, WalkAt, At
  <2> QED
    BY <2>1, WorkFacts DEF IInv
<1>2. CASE WalkDeclare
  <2> DEFINE items == Each("variable", n, Work.table, Node(n).vars)
  <2>1. Node(n).tag = "DECLARE" /\ Call(items)
    BY <1>2 DEF WalkDeclare, WalkAt
  <2>2. IsList(Node(n).vars)
    BY <1>1, <2>1 DEF ProgramInv, WellFormed, NodeWellFormed, AreVariables, Node, AllNodes
  <2>3. IsSeq(items) /\ \A k \in DOMAIN items : items[k].do = "variable"
    BY <2>2, EachAsks
  <2>4. Parts(n) = {}
    BY <2>1, NoParts DEF Sections, Branching
  <2> HIDE DEF items
  <2>5. Spawns(items)
    BY <1>1, <2>1, <2>3, <2>4 DEF Spawns, Local, IsModuleWalk
  <2> QED
    BY <2>5
<1>3. CASE WalkAssign
  <2> DEFINE kids == Node(n).kids
             walks == Walks(kids, Work.table)
             marks == IF Node(kids[1]).tag = "ID" THEN <<Item("assigned", kids[1], Work.table, 0)>> ELSE << >>
             items == walks \o marks
  <2>1. Node(n).tag = "ASSIGN" /\ Call(items)
    BY <1>3 DEF WalkAssign, WalkAt
  <2>2. kids \in Seq(AllNodes) /\ \A k \in DOMAIN kids : Node(kids[k]).tag # "MODULE"
    BY <1>1, KidsFacts
  <2>3. /\ IsSeq(walks) /\ DOMAIN walks = DOMAIN kids
        /\ \A k \in DOMAIN kids : walks[k].do = "walk" /\ walks[k].node = kids[k]
    BY <2>2, WalksAsk
  <2>4. IsSeq(marks) /\ \A k \in DOMAIN marks : marks[k].do = "assigned"
    BY DEF IsSeq, Item
  <2>5. Parts(n) \subseteq {kids[k] : k \in DOMAIN kids} /\ Asked(walks, {"walk"}) = {kids[k] : k \in DOMAIN kids}
    BY <2>1, <2>2, WalksAsk DEF Parts, Body
  <2> HIDE DEF walks, marks, kids
  <2>6. Joins(items, walks, marks)
    BY <2>3, <2>4, ConcatSeqs
  <2> HIDE DEF items
  <2>9. Asked(walks, {"walk"}) \subseteq Asked(items, {"walk"})
    BY <2>6 DEF Joins, Asked
  <2>7. IsSeq(items) /\ \A k \in DOMAIN items : items[k].do # "declarations" /\ Local(items[k])
    BY <2>2, <2>3, <2>4, <2>6 DEF Joins, Local, IsModuleWalk
  <2>8. Spawns(items)
    BY <1>1, <2>1, <2>5, <2>7, <2>9 DEF Spawns, IsModuleWalk
  <2> QED
    BY <2>8
<1> QED
  BY <1>2, <1>3

LEMMA ModuleSpawns ==
  ASSUME IInv, EnterModule
  PROVE  \E items : Spawns(items)
<1> DEFINE n == Work.node
           entryTable == Len(table) + 1
           inputs == Each("input", n, entryTable, Node(n).inputs)
           scope == Item("scope", n, entryTable, 0)
           define == Item("define", n, Work.table, 0)
           rest == <<scope, define>>
           items == inputs \o rest
<1>1. Busy /\ Work.do = "walk" /\ Node(n).tag = "MODULE" /\ n \in AllNodes /\ ProgramInv
      /\ IsModuleWalk(Work) /\ Work.table = GlobalTable
  <2>1. Busy /\ Work.do = "walk" /\ Node(n).tag = "MODULE"
    BY DEF EnterModule, WalkAt, At
  <2> QED
    BY <2>1, WorkFacts DEF IInv, IsModuleWalk, ItemInv
<1>2. Call(items)
  BY DEF EnterModule
<1>3. IsList(Node(n).inputs)
  BY <1>1, ModuleFacts
<1>4. IsSeq(inputs) /\ \A k \in DOMAIN inputs : inputs[k].do = "input"
  BY <1>3, EachAsks
<1>5. IsSeq(rest) /\ Len(rest) = 2 /\ DOMAIN rest = {1, 2} /\ rest[1] = scope /\ rest[2] = define
  BY DEF IsSeq
<1>6. scope.do = "scope" /\ scope.node = n /\ define = Item("define", n, GlobalTable, 0)
  BY <1>1 DEF Item
<1> HIDE DEF inputs, rest, scope, define
<1>7. Joins(items, inputs, rest)
  BY <1>4, <1>5, ConcatSeqs
<1> HIDE DEF items
<1>8. /\ Len(items) = Len(inputs) + 2 /\ Len(inputs) \in Nat
      /\ items[Len(inputs) + 1] = scope /\ items[Len(items)] = define
      /\ Len(inputs) + 1 \in DOMAIN items /\ Len(items) \in DOMAIN items
  BY <1>5, <1>7 DEF Joins
<1>9. ASSUME NEW k \in DOMAIN items
      PROVE  k = Len(items) \/ items[k].do \in {"input", "scope"}
  <2>1. CASE k \in DOMAIN inputs /\ items[k] = inputs[k]
    BY <1>4, <2>1
  <2>2. CASE k - Len(inputs) \in DOMAIN rest /\ items[k] = rest[k - Len(inputs)]
    <3>1. CASE k - Len(inputs) = 1
      BY <1>5, <1>6, <2>2, <3>1
    <3>2. CASE k - Len(inputs) = 2
      <4>1. k \in Nat
        BY <1>7, SeqFacts DEF Joins
      <4> QED
        BY <1>8, <3>2, <4>1
    <3> QED
      BY <1>5, <2>2, <3>1, <3>2
  <2> QED
    BY <1>7, <2>1, <2>2 DEF Joins
<1>10. Spawns(items)
  <2>1. Work.node \in Asked(items, {"scope"})
    BY <1>6, <1>8 DEF Asked
  <2>2. \A k \in DOMAIN items : items[k].do # "declarations"
    BY <1>6, <1>8, <1>9 DEF Item
  <2>3. \A k \in DOMAIN items : k # Len(items) => Local(items[k])
    BY <1>9 DEF Local, IsModuleWalk
  <2>4. ~Local(Work)
    BY <1>1 DEF Local
  <2>5. IsSeq(items)
    BY <1>7 DEF Joins
  <2> QED
    BY <1>1, <1>2, <1>6, <1>8, <2>1, <2>2, <2>3, <2>4, <2>5 DEF Spawns
<1> QED
  BY <1>10

LEMMA ScopeSpawns ==
  ASSUME IInv, OpenScope
  PROVE  \E items : Spawns(items)
<1> DEFINE n == Work.node
           scopeTable == Len(table) + 1
           returns == Each("return", n, scopeTable, Node(n).returns)
           body == Body(Node(n))
           walks == Walks(body, scopeTable)
           items == returns \o walks
<1>1. Busy /\ Work.do = "scope" /\ n \in AllNodes /\ ProgramInv /\ Node(n).tag = "MODULE"
  <2>1. Busy /\ Work.do = "scope"
    BY DEF OpenScope, At
  <2> QED
    BY <2>1, WorkFacts DEF IInv, ItemInv
<1>2. Call(items)
  BY DEF OpenScope
<1>3. IsSeq(returns) /\ \A k \in DOMAIN returns : returns[k].do = "return"
  <2>1. IsList(Node(n).returns)
    BY <1>1, ModuleFacts
  <2> QED
    BY <2>1, EachAsks
<1>4. body \in Seq(AllNodes) /\ \A k \in DOMAIN body : Node(body[k]).tag # "MODULE"
  BY <1>1, BodyFacts
<1>5. /\ IsSeq(walks) /\ DOMAIN walks = DOMAIN body
      /\ \A k \in DOMAIN body : walks[k].do = "walk" /\ walks[k].node = body[k]
      /\ Asked(walks, {"walk"}) = {body[k] : k \in DOMAIN body}
  BY <1>4, WalksAsk
<1>6. Parts(n) \subseteq {body[k] : k \in DOMAIN body}
  BY DEF Parts
<1> HIDE DEF walks, returns, body
<1>7. Joins(items, returns, walks)
  BY <1>3, <1>5, ConcatSeqs
<1> HIDE DEF items
<1>8. IsSeq(items) /\ \A k \in DOMAIN items : items[k].do # "declarations" /\ Local(items[k])
  BY <1>3, <1>4, <1>5, <1>7 DEF Joins, Local, IsModuleWalk
<1>9. Asked(walks, {"walk"}) \subseteq Asked(items, {"walk"})
  BY <1>7 DEF Joins, Asked
<1>10. Spawns(items)
  BY <1>1, <1>2, <1>5, <1>6, <1>8, <1>9 DEF Spawns, IsModuleWalk
<1> QED
  BY <1>10

LEMMA ScopesSpawns ==
  ASSUME IInv, ScopesNext
  PROVE  \E items : Spawns(items)
<1>1. CASE DeclareModules \/ DefineModule \/ Declare \/ Redeclare \/ MarkAssigned
             \/ WalkId \/ WalkGetValue \/ WalkUse
  BY <1>1, QuietSpawns
<1>2. CASE WalkSwitch \/ WalkArray \/ WalkExpression \/ WalkPrint \/ EnterFor \/ EnterCase \/ EnterWhile
  BY <1>2, WalkSpawns
<1>3. CASE WalkDeclare \/ WalkAssign
  BY <1>3, ListSpawns
<1> QED
  BY <1>1, <1>2, <1>3, ModuleSpawns, ScopeSpawns DEF ScopesNext

-----------------------------------------------------------------------------
(* What the first walk leaves: the switches it has passed have a type, and *)
(* the global table holds the names of the modules it has been through,    *)
(* which differ unless one has been reported.                              *)
Listed == Append(prog.modules, prog.driver)
NameAt(i) == Node(Listed[i]).name
Distinct(k) == \A i, j \in 1 .. k : NameAt(i) = NameAt(j) => i = j

Reached ==
  \E V : /\ Spread(V, Pending({"walk", "scope"}))
         /\ errors = {} => \A n \in V : Resolved(n)

AtTop(item) == ~Local(item) /\ item.table = GlobalTable

(* k modules have been defined; the agenda starts with c tasks inside the  *)
(* next one, and the others follow.                                        *)
Entered(k, c) ==
  /\ Len(todo) = c + (Len(Listed) - k) /\ k <= Len(Listed)
  /\ \A i \in 1 .. c : Local(todo[i])
  /\ \A j \in 1 .. Len(Listed) - k : AtTop(todo[c + j]) /\ todo[c + j].node = Listed[k + j]
  /\ DOMAIN table[GlobalTable].entry = {NameAt(i) : i \in 1 .. k}
  /\ errors = {} => Distinct(k)
NamesEntered == \E k, c \in Nat : Entered(k, c)

FirstInv == TypedTables /\ NotesTyped /\ AtStart /\ Reached /\ NamesEntered

LEMMA ListedFacts ==
  ASSUME ProgramInv
  PROVE  /\ Listed \in Seq(AllNodes) /\ Len(Listed) \in Nat /\ DOMAIN Listed = 1 .. Len(Listed)
         /\ Tops = {Listed[i] : i \in 1 .. Len(Listed)}
         /\ \A i \in 1 .. Len(Listed) : Node(Listed[i]).tag = "MODULE"
         /\ \E i \in 1 .. Len(Listed) : Listed[i] = prog.driver
<1> DEFINE ms == prog.modules
           d == prog.driver
           all == Append(ms, d)
<1>1. ms \in Seq(AllNodes) /\ d \in AllNodes
      /\ (\A i \in DOMAIN ms : Node(ms[i]).tag = "MODULE") /\ Node(d).tag = "MODULE"
  BY DEF ProgramInv, WellFormed, Node, AllNodes
<1>2. Tops = {d} \cup {ms[i] : i \in DOMAIN ms} /\ Listed = all
  BY DEF Tops, Listed
<1> HIDE DEF ms, d
<1>3. IsSeq(ms) /\ Len(ms) \in Nat /\ DOMAIN ms = 1 .. Len(ms)
  BY <1>1, RangeSeq, LenProperties
<1>4. /\ IsSeq(all) /\ Len(all) = Len(ms) + 1 /\ DOMAIN all = DOMAIN ms \cup {Len(ms) + 1}
      /\ \A i \in DOMAIN ms : all[i] = ms[i]
      /\ all[Len(ms) + 1] = d
  BY <1>3, AppendFacts
<1>5. all \in Seq(AllNodes)
  BY <1>1
<1> HIDE DEF all
<1>6. DOMAIN all = 1 .. Len(all)
  BY <1>5, LenProperties
<1>7. {d} \cup {ms[i] : i \in DOMAIN ms} = {all[i] : i \in DOMAIN all}
  BY <1>3, <1>4
<1>8. \A i \in DOMAIN all : Node(all[i]).tag = "MODULE"
  BY <1>1, <1>4
<1>9. Len(ms) + 1 \in DOMAIN all
  BY <1>4
<1> QED
  BY <1>2, <1>3, <1>4, <1>5, <1>6, <1>7, <1>8, <1>9 DEF d

LEMMA ReachedInductive ==
  ASSUME IInv, TypedTables, AtStart, Reached, ScopesNext
  PROVE  Reached'
<1>1. NotesMove /\ errors \subseteq errors'
  BY ScopesNotes, ScopesStep
<1>2. PICK items : Spawns(items)
  BY ScopesSpawns
<1>3. Busy /\ prog' = prog
  BY ScopesBusy
<1>4. Replaces(todo', todo, items) /\ Work = todo[1]
  <2>1. IsSeq(todo) /\ todo # << >>
    BY <1>3, RangeSeq DEF IInv, AgendaInv, Busy
  <2> QED
    BY <1>2, <2>1, AgendaReplaced DEF Spawns
<1>5. PICK V : /\ Spread(V, Pending({"walk", "scope"}))
               /\ errors = {} => \A n \in V : Resolved(n)
  BY DEF Reached
<1>6. PICK P : P = Pending({"walk", "scope"})
  OBVIOUS
<1>7. PICK Q : Q = Pending({"walk", "scope"})'
  OBVIOUS
<1>8. PICK h : h = Work.node
  OBVIOUS
<1>9. /\ P \subseteq Q \cup {h} /\ (Work.do \notin {"walk", "scope"} => P \subseteq Q)
      /\ Asked(items, {"walk", "scope"}) \subseteq Q
  BY <1>4, <1>6, <1>7, <1>8, PendingStep
<1>10. /\ Asked(items, {"walk"}) \subseteq Asked(items, {"walk", "scope"})
       /\ Asked(items, {"scope"}) \subseteq Asked(items, {"walk", "scope"})
  BY DEF Asked
<1>11. \A n : Node(n)' = Node(n)
  BY <1>3 DEF Node
<1>12. ASSUME errors' = {}, NEW n \in V, Node(n).tag \in Naming
       PROVE  Known(note'[n].type)
  <2>1. n \in AllNodes /\ Known(note[n].type)
    BY <1>1, <1>5, <1>12 DEF Spread, Resolved
  <2> QED
    BY <1>1, <1>12, <2>1 DEF NotesMove
<1>13. CASE (Work.do = "walk" /\ Node(h).tag # "MODULE") \/ Work.do = "scope"
  <2>1. Parts(h) \subseteq Q /\ h \in AllNodes
    BY <1>2, <1>3, <1>8, <1>9, <1>10, <1>13, WorkFacts DEF Spawns
  <2>2. Spread(V \cup {h}, Q)
    BY <1>5, <1>6, <1>9, <2>1, SpreadStep
  <2>3. Spread(V \cup {h}, Q)'
    BY <1>3, <2>2, SpreadKept
  <2>4. ASSUME errors' = {}, Node(h).tag \in Naming PROVE Known(note'[h].type)
    <3>1. Work.do = "walk"
      <4>1. Work.do = "scope" => Node(h).tag = "MODULE"
        BY <1>3, <1>8, WorkFacts DEF ItemInv
      <4> QED
        BY <1>13, <2>4, <4>1 DEF Naming
    <3> QED
      BY <1>1, <1>8, <2>4, <3>1 DEF NotesMove
  <2>5. errors' = {} => \A n \in V \cup {h} : Node(n).tag \in Naming => Known(note'[n].type)
    BY <1>12, <2>4
  <2> QED
    BY <1>7, <1>11, <2>3, <2>5 DEF Reached, Resolved
<1>14. CASE ~((Work.do = "walk" /\ Node(h).tag # "MODULE") \/ Work.do = "scope")
  <2>1. P \subseteq Q
    <3>1. CASE Work.do \notin {"walk", "scope"}
      BY <1>9, <3>1
    <3>2. CASE IsModuleWalk(Work)
      <4>1. h \in Q
        BY <1>2, <1>8, <1>9, <1>10, <3>2 DEF Spawns
      <4> QED
        BY <1>9, <4>1
    <3> QED
      BY <1>8, <1>14, <3>1, <3>2 DEF IsModuleWalk
  <2>2. Spread(V, Q)
    BY <1>5, <1>6, <2>1, SpreadMore
  <2>3. Spread(V, Q)'
    BY <1>3, <2>2, SpreadKept
  <2> QED
    BY <1>7, <1>11, <1>12, <2>3 DEF Reached, Resolved
<1> QED
  BY <1>13, <1>14

LEMMA AtStartInductive ==
  ASSUME IInv, TypedTables, AtStart, ScopesNext
  PROVE  AtStart'
<1>1. PICK items : Spawns(items)
  BY ScopesSpawns
<1>2. Busy /\ IsSeq(todo) /\ todo # << >>
  BY ScopesBusy, RangeSeq DEF IInv, AgendaInv, Busy
<1>3. Replaces(todo', todo, items)
  BY <1>1, <1>2, AgendaReplaced DEF Spawns
<1>4. ASSUME NEW i \in DOMAIN todo' PROVE todo'[i].do # "declarations"
  <2>1. CASE i \in DOMAIN items /\ todo'[i] = items[i]
    BY <1>1, <2>1 DEF Spawns
  <2>2. CASE /\ i - Len(items) + 1 \in DOMAIN todo /\ i - Len(items) + 1 > 1
             /\ todo'[i] = todo[i - Len(items) + 1]
    BY <2>2 DEF AtStart
  <2> QED
    BY <1>3, <2>1, <2>2 DEF Replaces
<1> QED
  BY <1>4 DEF AtStart

LEMMA EnteredNext ==
  ASSUME prog' = prog, NEW CONSTANT k \in Nat, NEW CONSTANT c \in Nat,
         k <= Len(Listed), Len(todo') = c + (Len(Listed) - k),
         \A i \in 1 .. c : Local(todo'[i]),
         \A j \in 1 .. Len(Listed) - k : AtTop(todo'[c + j]) /\ todo'[c + j].node = Listed[k + j],
         DOMAIN table'[GlobalTable].entry = {NameAt(i) : i \in 1 .. k},
         errors' = {} => Distinct(k)
  PROVE  Entered(k, c)'
<1>1. Listed' = Listed /\ \A n : Node(n)' = Node(n)
  BY DEF Listed, Node
<1>2. \A i : NameAt(i)' = NameAt(i)
  BY <1>1 DEF NameAt
<1>3. Distinct(k)' <=> Distinct(k)
  BY <1>2 DEF Distinct
<1>4. \A i : Local(todo[i])' <=> Local(todo'[i])
  BY <1>1 DEF Local, IsModuleWalk
<1>5. {NameAt(i)' : i \in 1 .. k} = {NameAt(i) : i \in 1 .. k}
  BY <1>2
<1> QED
  BY <1>1, <1>3, <1>4, <1>5 DEF Entered, AtTop

LEMMA LocalWork ==
  ASSUME IInv, ScopesNext, Local(Work), TablesMove, NEW k \in Nat, NEW c \in Nat, Entered(k, c),
         NEW items, Spawns(items), Replaces(todo', todo, items), Work = todo[1]
  PROVE  NamesEntered'
<1> SUFFICES ASSUME NEW CONSTANT l, l = Len(items) PROVE NamesEntered'
  OBVIOUS
<1>1. /\ l \in Nat /\ Len(todo) \in Nat /\ Len(todo) > 0 /\ DOMAIN items = 1 .. l
      /\ Len(todo') = l + Len(todo) - 1 /\ Len(Listed) \in Nat
      /\ DOMAIN todo = 1 .. Len(todo) /\ DOMAIN todo' = 1 .. Len(todo')
  <2>1. IsSeq(items) /\ IsSeq(todo')
    BY DEF Spawns, Replaces
  <2>2. IsSeq(todo)
    BY RangeSeq DEF IInv, AgendaInv
  <2> QED
    BY <2>1, <2>2, SeqFacts, ListedFacts DEF Replaces, IInv
<1>2. Len(todo) = c + (Len(Listed) - k) /\ k <= Len(Listed)
  BY DEF Entered
<1>3. c # 0
  <2>1. c = 0 => 1 \in 1 .. Len(Listed) - k /\ c + 1 = 1
    BY <1>1, <1>2
  <2> QED
    BY <2>1 DEF Entered, AtTop
<1> DEFINE d == l + c - 1
<1>4. d \in Nat /\ Len(todo') = d + (Len(Listed) - k)
  BY <1>1, <1>2, <1>3
<1>5. ASSUME NEW i \in 1 .. d PROVE Local(todo'[i])
  <2>1. i \in DOMAIN todo'
    BY <1>1, <1>2, <1>4
  <2>2. CASE i \in DOMAIN items /\ todo'[i] = items[i]
    BY <2>2 DEF Spawns
  <2>3. CASE i - l + 1 > 1 /\ todo'[i] = todo[i - l + 1]
    <3>1. i - l + 1 \in 1 .. c
      BY <1>1, <2>3
    <3> QED
      BY <2>3, <3>1 DEF Entered
  <2> QED
    BY <2>1, <2>2, <2>3 DEF Replaces
<1>6. ASSUME NEW j \in 1 .. Len(Listed) - k
      PROVE  AtTop(todo'[d + j]) /\ todo'[d + j].node = Listed[k + j]
  <2>1. c + j \in DOMAIN todo /\ c + j > 1 /\ l + (c + j) - 1 = d + j
    BY <1>1, <1>2, <1>3
  <2>2. todo'[d + j] = todo[c + j]
    BY <2>1 DEF Replaces
  <2> QED
    BY <2>2 DEF Entered
<1>7. DOMAIN table'[GlobalTable].entry = {NameAt(i) : i \in 1 .. k}
  BY DEF Entered, TablesMove, GlobalKept, Local
<1>8. errors' = {} => Distinct(k)
  BY ScopesStep DEF Entered
<1>9. prog' = prog
  BY ScopesBusy
<1>10. \E e \in Nat : e = d
  BY <1>4
<1> HIDE DEF d
<1>11. PICK e \in Nat : e = d
  BY <1>10
<1>12. Entered(k, e)'
  BY <1>2, <1>4, <1>5, <1>6, <1>7, <1>8, <1>9, <1>11, EnteredNext
<1> QED
  BY <1>12 DEF NamesEntered

LEMMA ModuleWork ==
  ASSUME IInv, ScopesNext, ~Local(Work), TablesMove, NEW k \in Nat, NEW c \in Nat, Entered(k, c),
         NEW items, Spawns(items), Replaces(todo', todo, items), Work = todo[1]
  PROVE  NamesEntered'
<1> SUFFICES ASSUME NEW CONSTANT l, l = Len(items) PROVE NamesEntered'
  OBVIOUS
<1>1. /\ l \in Nat /\ Len(todo) \in Nat /\ Len(todo) > 0 /\ DOMAIN items = 1 .. l
      /\ Len(todo') = l + Len(todo) - 1 /\ Len(Listed) \in Nat
      /\ DOMAIN todo = 1 .. Len(todo) /\ DOMAIN todo' = 1 .. Len(todo')
  <2>1. IsSeq(items) /\ IsSeq(todo')
    BY DEF Spawns, Replaces
  <2>2. IsSeq(todo)
    BY RangeSeq DEF IInv, AgendaInv
  <2> QED
    BY <2>1, <2>2, SeqFacts, ListedFacts DEF Replaces, IInv
<1>2. Len(todo) = c + (Len(Listed) - k) /\ k <= Len(Listed)
  BY DEF Entered
<1>3. c = 0
  <2>1. c # 0 => 1 \in 1 .. c
    OBVIOUS
  <2> QED
    BY <2>1 DEF Entered
<1>4. k + 1 <= Len(Listed) /\ 1 \in 1 .. Len(Listed) - k
  BY <1>1, <1>2, <1>3
<1>5. Work.node = Listed[k + 1] /\ Work.table = GlobalTable
  <2>1. todo[c + 1].node = Listed[k + 1] /\ AtTop(todo[c + 1]) /\ c + 1 = 1
    BY <1>3, <1>4 DEF Entered
  <2> QED
    BY <2>1 DEF AtTop
<1>6. ASSUME NEW j \in 2 .. Len(Listed) - k
      PROVE  /\ AtTop(todo[j]) /\ todo[j].node = Listed[k + j]
             /\ todo'[l + j - 1] = todo[j]
  <2>1. j \in 1 .. Len(Listed) - k /\ c + j = j /\ j \in DOMAIN todo /\ j > 1
    BY <1>1, <1>2, <1>3
  <2>2. AtTop(todo[j]) /\ todo[j].node = Listed[k + j]
    BY <2>1 DEF Entered
  <2>3. todo'[l + j - 1] = todo[j]
    BY <2>1 DEF Replaces
  <2> QED
    BY <2>2, <2>3
<1>7. prog' = prog /\ Busy
  BY ScopesBusy
<1>8. CASE IsModuleWalk(Work)
  <2>1. /\ l \in DOMAIN items /\ items[l] = Item("define", Work.node, GlobalTable, 0)
        /\ \A i \in DOMAIN items : i # l => Local(items[i])
    BY <1>8 DEF Spawns
  <2>2. \A i \in DOMAIN items : i \in DOMAIN todo' /\ todo'[i] = items[i]
    BY DEF Replaces
  <2> DEFINE d == l - 1
  <2>3. d \in Nat /\ d + 1 = l
    BY <1>1, <2>1
  <2>4. Len(todo') = d + (Len(Listed) - k)
    BY <1>1, <1>2, <1>3, <2>3
  <2>5. ASSUME NEW i \in 1 .. d PROVE Local(todo'[i])
    <3>1. i \in DOMAIN items /\ i # l
      BY <1>1, <2>3
    <3> QED
      BY <2>1, <2>2, <3>1
  <2>6. ASSUME NEW j \in 1 .. Len(Listed) - k
        PROVE  AtTop(todo'[d + j]) /\ todo'[d + j].node = Listed[k + j]
    <3>1. CASE j = 1
      <4>1. todo'[d + j] = Item("define", Work.node, GlobalTable, 0)
        BY <2>1, <2>2, <2>3, <3>1
      <4> QED
        BY <1>5, <3>1, <4>1 DEF AtTop, Local, Item
    <3>2. CASE j # 1
      <4>1. j \in 2 .. Len(Listed) - k /\ l + j - 1 = d + j
        BY <1>1, <2>3, <3>2
      <4> QED
        BY <1>6, <4>1
    <3> QED
      BY <3>1, <3>2
  <2>7. DOMAIN table'[GlobalTable].entry = {NameAt(i) : i \in 1 .. k}
    BY <1>8 DEF Entered, TablesMove, GlobalKept, IsModuleWalk
  <2>8. errors' = {} => Distinct(k)
    BY ScopesStep DEF Entered
  <2>9. \E e \in Nat : e = d
    BY <2>3
  <2> HIDE DEF d
  <2>10. PICK e \in Nat : e = d
    BY <2>9
  <2>11. Entered(k, e)'
    BY <1>2, <1>7, <2>4, <2>5, <2>6, <2>7, <2>8, <2>10, EnteredNext
  <2> QED
    BY <2>11 DEF NamesEntered
<1>9. CASE Work.do = "define"
  <2>1. l = 0
    BY <1>9 DEF Spawns
  <2>2. DefineModule
    BY <1>9 DEF ScopesNext, DeclareModules, EnterModule, OpenScope, DefineModule, Declare, Redeclare,
           WalkDeclare, EnterFor, EnterWhile, EnterCase, WalkSwitch, WalkId, WalkArray,
           WalkExpression, WalkPrint, WalkGetValue, WalkAssign, MarkAssigned, WalkUse,
           Declaring, WalkAt, At
  <2> DEFINE name == Node(Work.node).name
             old == DOMAIN table[GlobalTable].entry
             new == DOMAIN table'[GlobalTable].entry
  <2>3. name = NameAt(k + 1)
    BY <1>5 DEF NameAt
  <2>4. old = {NameAt(i) : i \in 1 .. k} /\ (errors = {} => Distinct(k))
    BY DEF Entered
  <2>5. ASSUME name \in old PROVE new = old \cup {name}
    <3>1. table' = table
      BY <1>5, <2>2, <2>5 DEF DefineModule
    <3> QED
      BY <2>5, <3>1
  <2>6. ASSUME name \notin old PROVE new = old \cup {name}
    <3>1. PICK v : table' = [table EXCEPT ![GlobalTable].entry = Extended(@, name, v)]
      BY <1>5, <2>2, <2>6 DEF DefineModule
    <3>2. GlobalTable \in DOMAIN table /\ IsTable(table[GlobalTable], Len(table))
      BY <1>5, <1>7, WorkFacts DEF IInv, TablesInv
    <3>3. table'[GlobalTable].entry = Extended(table[GlobalTable].entry, name, v)
      BY <3>1, <3>2 DEF IsTable
    <3> DEFINE f == table[GlobalTable].entry
               g == table'[GlobalTable].entry
    <3>4. g = Extended(f, name, v)
      BY <3>3
    <3> HIDE DEF f, g
    <3>5. DOMAIN g = DOMAIN f \cup {name}
      BY <3>4, DomainExtended
    <3> QED
      BY <3>5 DEF f, g
  <2>7. new = old \cup {name} /\ (errors' = {} => errors = {} /\ name \notin old)
    <3>1. errors' = {} => errors = {}
      BY ScopesStep
    <3>2. name \in old => errors' # {}
      BY <1>5, <2>2 DEF DefineModule, Report
    <3> QED
      BY <2>5, <2>6, <3>1, <3>2
  <2> HIDE DEF old, new, name
  <2>8. 1 .. k + 1 = (1 .. k) \cup {k + 1}
    OBVIOUS
  <2>9. new = {NameAt(i) : i \in 1 .. k + 1}
    BY <2>3, <2>4, <2>7, <2>8
  <2>10. errors' = {} => Distinct(k + 1)
    BY <2>3, <2>4, <2>7, <2>8 DEF Distinct
  <2>11. Len(todo') = 0 + (Len(Listed) - (k + 1))
    BY <1>1, <1>2, <1>3, <2>1
  <2>12. ASSUME NEW j \in 1 .. Len(Listed) - (k + 1)
         PROVE  AtTop(todo'[0 + j]) /\ todo'[0 + j].node = Listed[(k + 1) + j]
    <3>1. j + 1 \in 2 .. Len(Listed) - k /\ l + (j + 1) - 1 = 0 + j /\ k + (j + 1) = (k + 1) + j
      BY <1>1, <1>2, <2>1
    <3> QED
      BY <1>6, <3>1
  <2>13. k + 1 \in Nat /\ 0 \in Nat /\ \A i \in 1 .. 0 : Local(todo'[i])
    OBVIOUS
  <2>14. PICK m \in Nat : m = k + 1
    BY <2>13
  <2>15. Entered(m, 0)'
    BY <1>4, <1>7, <2>9, <2>10, <2>11, <2>12, <2>13, <2>14, EnteredNext DEF new
  <2> QED
    BY <2>13, <2>15 DEF NamesEntered
<1> QED
  BY <1>8, <1>9 DEF Local


LEMMA FirstInductive ==
  ASSUME IInv, FirstInv, ScopesNext
  PROVE  FirstInv'
<1>1. TypedTables' /\ NotesTyped'
  BY TypedInductive DEF FirstInv
<1>2. AtStart'
  BY AtStartInductive DEF FirstInv
<1>3. Reached'
  BY ReachedInductive DEF FirstInv
<1>4. NamesEntered'
  <2>1. PICK items : Spawns(items)
    BY ScopesSpawns
  <2>2. Replaces(todo', todo, items) /\ Work = todo[1]
    <3>1. IsSeq(todo) /\ todo # << >>
      BY ScopesBusy, RangeSeq DEF IInv, AgendaInv, Busy
    <3> QED
      BY <2>1, <3>1, AgendaReplaced DEF Spawns
  <2>3. PICK k, c \in Nat : Entered(k, c)
    BY DEF FirstInv, NamesEntered
  <2>4. TablesMove
    BY ScopesTables DEF FirstInv
  <2> QED
    BY <2>1, <2>2, <2>3, <2>4, LocalWork, ModuleWork
<1> QED
  BY <1>1, <1>2, <1>3, <1>4 DEF FirstInv

(* The first agenda: the declarations, then a walk for each of the modules *)
(* and the driver.                                                         *)
LEMMA FirstAgenda ==
  ASSUME ScopesInit, ProgramInv
  PROVE  /\ IsSeq(todo) /\ Len(todo) = 1 + Len(Listed) /\ DOMAIN todo = 1 .. Len(todo)
         /\ todo[1] = Item("declarations", 0, NamesTable, 0)
         /\ \A j \in 1 .. Len(Listed) : todo[1 + j] = Item("walk", Listed[j], GlobalTable, 0)
<1> DEFINE ms == prog.modules
           d == prog.driver
           first == <<Item("declarations", 0, NamesTable, 0)>>
           walks == Walks(ms, GlobalTable)
           last == Walks(<<d>>, GlobalTable)
           front == first \o walks
<1>1. todo = front \o last /\ ms \in Seq(AllNodes) /\ Listed = Append(ms, d)
  BY DEF ScopesInit, ProgramInv, WellFormed, AllNodes, Listed
<1>2. IsSeq(first) /\ DOMAIN first = {1} /\ Len(first) = 1 /\ first[1] = Item("declarations", 0, NamesTable, 0)
  BY DEF IsSeq
<1>3. /\ Len(ms) \in Nat /\ DOMAIN ms = 1 .. Len(ms) /\ IsSeq(ms)
      /\ IsSeq(walks) /\ Len(walks) = Len(ms) /\ DOMAIN walks = 1 .. Len(ms)
      /\ \A k \in 1 .. Len(ms) : walks[k] = Item("walk", ms[k], GlobalTable, 0)
  <2>1. walks = [k \in 1 .. Len(ms) |-> Item("walk", ms[k], GlobalTable, 0)]
        /\ Len(ms) \in Nat /\ DOMAIN ms = 1 .. Len(ms) /\ IsSeq(ms)
    BY <1>1, RangeSeq DEF Walks
  <2> HIDE DEF walks, ms
  <2>2. \A k \in 1 .. Len(ms) : walks[k] = Item("walk", ms[k], GlobalTable, 0)
    BY <2>1
  <2>3. walks = [k \in 1 .. Len(ms) |-> walks[k]]
    BY <2>1
  <2> QED
    BY <2>1, <2>2, <2>3, ListFacts, SeqFacts
<1>4. IsSeq(last) /\ Len(last) = 1 /\ DOMAIN last = {1} /\ last[1] = Item("walk", d, GlobalTable, 0)
  <2>1. last = [k \in 1 .. 1 |-> Item("walk", d, GlobalTable, 0)]
    BY DEF Walks
  <2> HIDE DEF last
  <2>2. last = [k \in 1 .. 1 |-> last[k]] /\ last[1] = Item("walk", d, GlobalTable, 0)
    BY <2>1
  <2>3. IsSeq(last) /\ Len(last) = 1
    BY <2>2, ListFacts
  <2>4. DOMAIN last = {1}
    BY <2>1
  <2> QED
    BY <2>2, <2>3, <2>4
<1>5. /\ Len(Listed) = Len(ms) + 1
      /\ \A k \in 1 .. Len(ms) : Listed[k] = ms[k]
      /\ Listed[Len(ms) + 1] = d
  BY <1>1, <1>3, AppendFacts
<1> HIDE DEF first, walks, last, ms, d
<1>6. Joins(front, first, walks)
  BY <1>2, <1>3, ConcatSeqs
<1> HIDE DEF front
<1>7. Joins(todo, front, last)
  <2>1. IsSeq(front)
    BY <1>6 DEF Joins
  <2> QED
    BY <1>1, <1>4, <2>1, ConcatSeqs
<1>8. /\ Len(front) = 1 + Len(ms) /\ front[1] = Item("declarations", 0, NamesTable, 0)
      /\ 1 \in DOMAIN front
  BY <1>2, <1>3, <1>6 DEF Joins
<1>9. Len(todo) = 1 + Len(Listed) /\ IsSeq(todo) /\ todo[1] = Item("declarations", 0, NamesTable, 0)
  BY <1>3, <1>4, <1>5, <1>7, <1>8 DEF Joins
<1>10. ASSUME NEW j \in 1 .. Len(Listed) PROVE todo[1 + j] = Item("walk", Listed[j], GlobalTable, 0)
  <2>1. CASE j = Len(ms) + 1
    <3>1. todo[Len(front) + 1] = last[1]
      BY <1>4, <1>7 DEF Joins
    <3>2. Len(front) + 1 = 1 + j
      BY <1>3, <1>8, <2>1
    <3> QED
      BY <1>4, <1>5, <2>1, <3>1, <3>2
  <2>2. CASE j \in 1 .. Len(ms)
    <3>1. Len(first) + j \in DOMAIN front /\ front[Len(first) + j] = walks[j]
      BY <1>3, <1>6, <2>2 DEF Joins
    <3>2. Len(first) + j = 1 + j
      BY <1>2
    <3>3. todo[1 + j] = walks[j]
      BY <1>7, <3>1, <3>2 DEF Joins
    <3> QED
      BY <1>3, <1>5, <2>2, <3>3
  <2> QED
    BY <1>3, <1>5, <2>1, <2>2
<1> QED
  BY <1>9, <1>10, SeqFacts

LEMMA FirstInitially ==
  ASSUME ScopesInit
  PROVE  FirstInv
<1>1. ProgramInv
  BY ProgramsWellFormed DEF ScopesInit, ProgramInv
<1>2. DOMAIN table = {1, 2} /\ \A t \in DOMAIN table : table[t].entry = << >>
  BY DEF ScopesInit, RootTable
<1>3. DOMAIN << >> = {}
  OBVIOUS
<1>4. TypedTables
  BY <1>2, <1>3 DEF TypedTables, TypedTable
<1>5. NotesTyped
  BY DEF ScopesInit, NotesTyped, NoteTyped, Undefined
<1>6. /\ IsSeq(todo) /\ Len(todo) = 1 + Len(Listed) /\ DOMAIN todo = 1 .. Len(todo)
      /\ todo[1] = Item("declarations", 0, NamesTable, 0)
      /\ \A j \in 1 .. Len(Listed) : todo[1 + j] = Item("walk", Listed[j], GlobalTable, 0)
  BY <1>1, FirstAgenda
<1>a. ASSUME NEW j \in 1 .. Len(Listed)
      PROVE  todo[1 + j].do = "walk" /\ todo[1 + j].node = Listed[j] /\ todo[1 + j].table = GlobalTable
  <2>1. PICK item : item = todo[1 + j]
    OBVIOUS
  <2>2. item = [do |-> "walk", node |-> Listed[j], table |-> GlobalTable, nth |-> 0]
    BY <1>6, <2>1 DEF Item
  <2>3. item.do = "walk" /\ item.node = Listed[j] /\ item.table = GlobalTable
    BY <2>2
  <2> QED
    BY <2>1, <2>3
<1>7. /\ Listed \in Seq(AllNodes) /\ Len(Listed) \in Nat
      /\ Tops = {Listed[i] : i \in 1 .. Len(Listed)}
      /\ \A i \in 1 .. Len(Listed) : Node(Listed[i]).tag = "MODULE"
  BY <1>1, ListedFacts
<1>8. \A i \in DOMAIN todo : i = 1 \/ \E j \in 1 .. Len(Listed) : i = 1 + j
  <2> SUFFICES ASSUME NEW i \in DOMAIN todo, i # 1 PROVE \E j \in 1 .. Len(Listed) : i = 1 + j
    OBVIOUS
  <2>1. i - 1 \in 1 .. Len(Listed) /\ i = 1 + (i - 1)
    BY <1>6, <1>7
  <2> QED
    BY <2>1
<1>9. AtStart
  <2>1. NamesTable \in DOMAIN table
    BY <1>2 DEF NamesTable
  <2>2. \A j \in 1 .. Len(Listed) : todo[1 + j].do = "walk"
    BY <1>a
  <2> QED
    BY <1>2, <1>3, <1>8, <2>1, <2>2 DEF AtStart
<1>10. Reached
  <2>1. Tops \subseteq Pending({"walk", "scope"})
    <3>1. ASSUME NEW j \in 1 .. Len(Listed) PROVE Listed[j] \in Pending({"walk", "scope"})
      <4>1. 1 + j \in DOMAIN todo /\ todo[1 + j].do = "walk" /\ todo[1 + j].node = Listed[j]
        BY <1>6, <1>7, <1>a
      <4> QED
        BY <4>1 DEF Pending
    <3> QED
      BY <1>7, <3>1
  <2>2. Spread({}, Pending({"walk", "scope"}))
    BY <2>1 DEF Spread
  <2> QED
    BY <2>2 DEF Reached
<1>11. Entered(0, 1)
  <2>1. Local(todo[1])
    BY <1>6 DEF Item, Local, IsModuleWalk
  <2>2. ASSUME NEW j \in 1 .. Len(Listed)
        PROVE  AtTop(todo[1 + j]) /\ todo[1 + j].node = Listed[j]
    <3>1. todo[1 + j].do = "walk" /\ todo[1 + j].node = Listed[j] /\ todo[1 + j].table = GlobalTable
      BY <1>a
    <3> QED
      BY <1>7, <3>1 DEF AtTop, Local, IsModuleWalk
  <2>3. DOMAIN table[GlobalTable].entry = {}
    BY <1>2, <1>3 DEF GlobalTable
  <2>4. {NameAt(i) : i \in 1 .. 0} = {} /\ Distinct(0)
    BY DEF Distinct
  <2>5. Len(todo) = 1 + (Len(Listed) - 0) /\ 0 <= Len(Listed) /\ Len(Listed) - 0 = Len(Listed)
        /\ (\A j \in 1 .. Len(Listed) : 0 + j = j) /\ 1 .. 1 = {1}
    BY <1>6, <1>7
  <2> QED
    BY <2>1, <2>2, <2>3, <2>4, <2>5 DEF Entered
<1> QED
  BY <1>4, <1>5, <1>9, <1>10, <1>11 DEF FirstInv, NamesEntered

-----------------------------------------------------------------------------
(* What the second walk leaves of a program without errors: every switch   *)
(* has the default its type asks for, and what is called is a module.      *)
Judged(V) ==
  \A n \in V :
    /\ Node(n).tag = "SWITCH" =>
         /\ note[n].type.form \in {"INTEGER", "BOOLEAN", "UNDEFINED"}
         /\ (note[n].type.form = "BOOLEAN") # Node(n).default
    /\ Node(n).tag = "USE" => Node(n).name \in DOMAIN table[GlobalTable].entry
Walked ==
  \E V : Spread(V, {}) /\ \A n \in V : Resolved(n)
(* The nodes a walk comes to, whichever way it goes about it.              *)
Inside == {n \in AllNodes : \A V : Spread(V, {}) => n \in V}
Checked == \E V : Spread(V, Pending({"check"})) /\ Judged(V)
NamesKnown ==
  /\ DOMAIN table[GlobalTable].entry = {NameAt(i) : i \in 1 .. Len(Listed)}
  /\ Distinct(Len(Listed))

Grounds == ProgramInv /\ Bounded /\ TypedTables /\ NotesTyped /\ DOMAIN note = AllNodes
             /\ Walked /\ NamesKnown
SecondInv ==
  /\ Grounds /\ Checked
  /\ IsSeq(todo) /\ \A i \in DOMAIN todo : todo[i].do = "check" => todo[i].node \in Inside

LEMMA InsideFacts ==
  /\ Tops \subseteq AllNodes => Tops \subseteq Inside
  /\ \A n \in Inside : n \in AllNodes /\ (Parts(n) \subseteq AllNodes => Parts(n) \subseteq Inside)
  /\ Walked => \A n \in Inside : Resolved(n) /\ Parts(n) \subseteq Inside
<1>1. Tops \subseteq AllNodes => Tops \subseteq Inside
  BY DEF Inside, Spread
<1>2. ASSUME NEW n \in Inside
      PROVE  n \in AllNodes /\ (Parts(n) \subseteq AllNodes => Parts(n) \subseteq Inside)
  <2>1. \A V : Spread(V, {}) => Parts(n) \subseteq V
    BY DEF Inside, Spread
  <2> QED
    BY <2>1 DEF Inside
<1>3. ASSUME Walked, NEW n \in Inside PROVE Resolved(n) /\ Parts(n) \subseteq Inside
  <2>1. PICK V : Spread(V, {}) /\ \A m \in V : Resolved(m)
    BY <1>3 DEF Walked
  <2>2. n \in V
    BY <2>1 DEF Inside
  <2>3. Parts(n) \subseteq V /\ V \subseteq AllNodes
    BY <2>1, <2>2 DEF Spread
  <2> QED
    BY <1>2, <2>1, <2>2, <2>3
<1> QED
  BY <1>1, <1>2, <1>3

LEMMA InsideKept ==
  ASSUME prog' = prog
  PROVE  Inside' = Inside
<1>1. AllNodes' = AllNodes /\ Tops' = Tops /\ \A n \in AllNodes : Parts(n)' = Parts(n)
  BY DEF AllNodes, Tops, Parts, Node, Body
<1>2. ASSUME NEW CONSTANT V PROVE Spread(V, {})' <=> Spread(V, {})
  BY <1>1 DEF Spread
<1> QED
  BY <1>1, <1>2 DEF Inside

LEMMA TasksAsk ==
  ASSUME NEW nodes \in Seq(AllNodes), NEW items, items = Checks(nodes)
  PROVE  /\ IsSeq(items) /\ Len(items) = Len(nodes) /\ DOMAIN items = DOMAIN nodes
         /\ \A k \in DOMAIN nodes : items[k].do = "check" /\ items[k].node = nodes[k]
         /\ Asked(items, {"check"}) = {nodes[k] : k \in DOMAIN nodes}
<1>1. DOMAIN items = 1 .. Len(nodes) /\ Len(nodes) \in Nat /\ DOMAIN items = DOMAIN nodes
  BY DEF Checks
<1>2. \A k \in DOMAIN nodes : items[k].do = "check" /\ items[k].node = nodes[k]
  BY DEF Checks, Item
<1>3. Len(items) = Len(nodes) /\ IsSeq(items)
  <2>1. items = [k \in 1 .. Len(nodes) |-> items[k]]
    BY <1>1 DEF Checks
  <2> QED
    BY <1>1, <2>1, ListFacts
<1>4. Asked(items, {"check"}) = {nodes[k] : k \in DOMAIN nodes}
  <2> HIDE DEF Item
  <2>1. {k \in DOMAIN items : items[k].do \in {"check"}} = DOMAIN nodes
    BY <1>1, <1>2
  <2> QED
    BY <1>2, <2>1 DEF Asked
<1> QED
  BY <1>1, <1>2, <1>3, <1>4

LEMMA JoinedAsk ==
  ASSUME NEW c, NEW s, NEW r, Joins(c, s, r), NEW tasks
  PROVE  Asked(s, tasks) \subseteq Asked(c, tasks)
BY DEF Joins, Asked

(* The tasks of one step of the second walk.                               *)
Assigns(items) ==
  /\ IsSeq(items) /\ Call(items)
  /\ \A k \in DOMAIN items : items[k].do = "check" => Work.do = "check" /\ items[k].node \in Parts(Work.node)
  /\ Work.do = "check" /\ errors' = {} => Parts(Work.node) \subseteq Asked(items, {"check"})

LEMMA AssignsNone ==
  ASSUME Call(<< >>), Work.do = "check" /\ errors' = {} => Parts(Work.node) = {}
  PROVE  Assigns(<< >>)
<1>1. IsSeq(<< >>) /\ DOMAIN << >> = {}
  BY DEF IsSeq
<1> QED
  BY <1>1 DEF Assigns

LEMMA AssignsChecks ==
  ASSUME NEW nodes \in Seq(AllNodes), Call(Checks(nodes)), Work.do = "check",
         Parts(Work.node) = {nodes[k] : k \in DOMAIN nodes}
  PROVE  Assigns(Checks(nodes))
<1> DEFINE items == Checks(nodes)
<1>1. /\ IsSeq(items) /\ DOMAIN items = DOMAIN nodes
      /\ \A k \in DOMAIN nodes : items[k].do = "check" /\ items[k].node = nodes[k]
      /\ Asked(items, {"check"}) = {nodes[k] : k \in DOMAIN nodes}
  <2>1. items = Checks(nodes)
    OBVIOUS
  <2> HIDE DEF items
  <2> QED
    BY <2>1, TasksAsk
<1>2. Call(items)
  OBVIOUS
<1> HIDE DEF items
<1>3. \A k \in DOMAIN items : items[k].node \in Parts(Work.node)
  BY <1>1
<1>4. Assigns(items)
  BY <1>1, <1>2, <1>3 DEF Assigns
<1> QED
  BY <1>4 DEF items

LEMMA AssignsLater ==
  ASSUME NEW nodes \in Seq(AllNodes), NEW do, do # "check", NEW n, Call(Checks(nodes) \o Later(do, n)),
         Work.do = "check", Parts(Work.node) = {nodes[k] : k \in DOMAIN nodes}
  PROVE  Assigns(Checks(nodes) \o Later(do, n))
<1> DEFINE checks == Checks(nodes)
           later == Later(do, n)
           items == checks \o later
<1>1. /\ IsSeq(checks) /\ DOMAIN checks = DOMAIN nodes
      /\ \A k \in DOMAIN nodes : checks[k].do = "check" /\ checks[k].node = nodes[k]
      /\ Asked(checks, {"check"}) = {nodes[k] : k \in DOMAIN nodes}
  <2>1. checks = Checks(nodes)
    OBVIOUS
  <2> HIDE DEF checks
  <2> QED
    BY <2>1, TasksAsk
<1>2. Call(items)
  OBVIOUS
<1>3. IsSeq(later) /\ DOMAIN later = {1} /\ later[1].do = do
  BY DEF Later, Item, IsSeq
<1> HIDE DEF checks, later
<1>4. Joins(items, checks, later)
  BY <1>1, <1>3, ConcatSeqs
<1> HIDE DEF items
<1>5. IsSeq(items) /\ Asked(checks, {"check"}) \subseteq Asked(items, {"check"})
  BY <1>4, JoinedAsk DEF Joins
<1>6. ASSUME NEW k \in DOMAIN items, items[k].do = "check" PROVE items[k].node \in Parts(Work.node)
  <2>1. CASE k \in DOMAIN checks /\ items[k] = checks[k]
    BY <1>1, <2>1
  <2>2. CASE k - Len(checks) \in DOMAIN later /\ items[k] = later[k - Len(checks)]
    BY <1>3, <1>6, <2>2
  <2> QED
    BY <1>4, <2>1, <2>2 DEF Joins
<1>7. Assigns(items)
  BY <1>1, <1>2, <1>5, <1>6 DEF Assigns
<1> QED
  BY <1>7 DEF checks, later, items

LEMMA SecondAssigns ==
  ASSUME SecondInv, SemanticsNext, ~BeginSemantics
  PROVE  /\ todo # << >> /\ prog' = prog /\ table' = table
         /\ \E items : Assigns(items)
         /\ errors' = {} => errors = {} /\ note' = note
<1>1. errors' = {} => errors = {}
  BY SemanticsStep
<1>2. todo # << >> /\ 1 \in DOMAIN todo /\ Work = todo[1]
  <2>1. todo # << >>
    BY DEF SemanticsNext, CheckModule, CheckReturned, CheckNothing, CheckLiteral, CheckSwitch,
           CheckBody, CheckFor, CheckCounter, CheckArray, CheckOperands, CheckBinary, CheckUnary,
           CheckSides, CheckAssign, CheckUse, CheckAt, CheckStep, Checking
  <2>2. IsSeq(todo)
    BY DEF SecondInv
  <2> QED
    BY <2>1, <2>2, EmptySeq, LenProperties DEF Work, IsSeq
<1>3. Work.do = "check" => Work.node \in AllNodes /\ Resolved(Work.node)
  BY <1>2, InsideFacts DEF SecondInv, Grounds
<1>4. Work.do = "check" => Here.kids \in Seq(AllNodes) /\ Body(Here) \in Seq(AllNodes)
  BY <1>3, KidsFacts, BodyFacts DEF SecondInv, Grounds, Here
<1>5. Here.tag \in Sections => Parts(Work.node) = {Body(Here)[k] : k \in DOMAIN Body(Here)}
  BY DEF Parts, Here
<1>6. prog' = prog /\ table' = table
  BY SemanticsStep DEF Storage
<1>7. CASE CheckModule \/ CheckFor
  <2>1. PICK do : do # "check" /\ Call(Checks(Body(Here)) \o Later(do, Work.node))
    BY <1>7 DEF CheckModule, CheckFor
  <2>2. Work.do = "check" /\ note' = note /\ Here.tag \in Sections
    BY <1>7 DEF CheckModule, CheckFor, CheckAt, CheckStep, Here, Sections, Branching
  <2> QED
    BY <1>1, <1>2, <1>4, <1>5, <1>6, <2>1, <2>2, AssignsLater
<1>8. CASE CheckBody
  <2>1. Work.do = "check" /\ note' = note /\ Call(Checks(Body(Here))) /\ Here.tag \in Sections
    BY <1>8 DEF CheckBody, CheckStep, Sections, Branching
  <2> QED
    BY <1>1, <1>2, <1>4, <1>5, <1>6, <2>1, AssignsChecks
<1>9. CASE CheckReturned \/ CheckCounter \/ CheckBinary \/ CheckUnary \/ CheckAssign
  <2>1. Work.do # "check" /\ note' = note /\ Call(<< >>)
    BY <1>9 DEF CheckReturned, CheckCounter, CheckBinary, CheckUnary, CheckAssign, CheckStep
  <2> QED
    BY <1>1, <1>2, <1>6, <2>1, AssignsNone
<1>10. CASE CheckNothing \/ CheckLiteral \/ CheckUse
  <2>1. /\ Here.tag \in {"DECLARE", "PRINT", "GET_VALUE", "ID", "INT", "BOOL", "REAL", "USE"}
        /\ note' = note /\ Call(<< >>)
    BY <1>10 DEF CheckNothing, CheckLiteral, CheckUse, CheckAt, Here
  <2>2. Parts(Work.node) = {}
    BY <2>1, NoParts DEF Here, Sections, Branching
  <2> QED
    BY <1>1, <1>2, <1>6, <2>1, <2>2, AssignsNone
<1>11. CASE CheckArray \/ CheckOperands \/ CheckSides
  <2>1. Work.do = "check" /\ Here.tag \in {"ARRAY", "BINARY", "UNARY", "ASSIGN"}
    BY <1>11 DEF CheckArray, CheckOperands, CheckSides, CheckAt, CheckStep, Here
  <2>2. Parts(Work.node) = {Here.kids[k] : k \in DOMAIN Here.kids}
    BY <1>5, <2>1 DEF Body, Sections
  <2>3. errors' = {} => note' = note
    BY <1>11 DEF CheckArray, CheckOperands, CheckSides, ReportIf, Report
  <2>4. \/ Call(Checks(Here.kids))
        \/ \E do : do # "check" /\ Call(Checks(Here.kids) \o Later(do, Work.node))
    <3>1. CASE CheckArray
      <4>1. Node(Work.node).tag = "ARRAY"
        BY <3>1 DEF CheckArray, CheckAt
      <4>2. Known(note[Work.node].type)
        BY <1>3, <2>1, <4>1 DEF Resolved, Naming
      <4>3. note[Work.node].type # Undefined
        BY <4>2 DEF Known, Undefined
      <4> QED
        BY <3>1, <4>3 DEF CheckArray
    <3>2. CASE CheckOperands \/ CheckSides
      BY <3>2 DEF CheckOperands, CheckSides
    <3> QED
      BY <1>11, <3>1, <3>2
  <2>5. \E items : Assigns(items)
    <3>2. CASE Call(Checks(Here.kids))
      BY <1>4, <2>1, <2>2, <3>2, AssignsChecks
    <3>3. ASSUME NEW do, do # "check", Call(Checks(Here.kids) \o Later(do, Work.node))
          PROVE  \E items : Assigns(items)
      BY <1>4, <2>1, <2>2, <3>3, AssignsLater
    <3> QED
      BY <2>4, <3>2, <3>3
  <2> QED
    BY <1>1, <1>2, <1>6, <2>3, <2>5
<1>12. CASE CheckSwitch
  <2>1. Work.do = "check" /\ note' = note /\ Here.tag = "SWITCH"
    BY <1>12 DEF CheckSwitch, CheckAt, CheckStep, Here
  <2>2. CASE Call(Checks(Here.kids))
    <3>1. Body(Here) = Here.kids /\ Here.tag \in Sections
      BY <2>1 DEF Body, Sections, Branching
    <3> QED
      BY <1>1, <1>2, <1>4, <1>5, <1>6, <2>1, <2>2, <3>1, AssignsChecks
  <2>3. CASE Call(<< >>) /\ errors' # {}
    BY <1>1, <1>2, <1>6, <2>1, <2>3, AssignsNone
  <2>4. Call(Checks(Here.kids)) \/ (Call(<< >>) /\ errors' # {})
    BY <1>12 DEF CheckSwitch, Report
  <2> QED
    BY <2>2, <2>3, <2>4
<1> QED
  BY <1>7, <1>8, <1>9, <1>10, <1>11, <1>12 DEF SemanticsNext

LEMMA GroundsKept ==
  ASSUME Grounds, prog' = prog, table' = table, note' = note
  PROVE  Grounds'
<1>1. ProgramInv' /\ AllNodes' = AllNodes /\ Listed' = Listed /\ \A n : Node(n)' = Node(n)
  BY DEF Grounds, ProgramInv, AllNodes, Listed, Node
<1>2. Bounded' /\ TypedTables'
  BY DEF Grounds, Bounded, TypedTables
<1>3. NotesTyped' /\ DOMAIN note' = AllNodes'
  BY <1>1 DEF Grounds, NotesTyped, NoteTyped, HoldersOf
<1>4. Walked'
  <2>1. PICK V : Spread(V, {}) /\ \A n \in V : Resolved(n)
    BY DEF Grounds, Walked
  <2>2. Spread(V, {})'
    BY <2>1, SpreadKept
  <2> QED
    BY <1>1, <2>1, <2>2 DEF Walked, Resolved
<1>5. NamesKnown'
  <2>1. \A i : NameAt(i)' = NameAt(i)
    BY <1>1 DEF NameAt
  <2> QED
    BY <1>1, <2>1 DEF Grounds, NamesKnown, Distinct, GlobalTable
<1> QED
  BY <1>1, <1>2, <1>3, <1>4, <1>5 DEF Grounds

LEMMA DriverFirst ==
  ASSUME ProgramInv
  PROVE  /\ <<prog.driver>> \o prog.modules \in Seq(AllNodes)
         /\ Tops = {(<<prog.driver>> \o prog.modules)[k] : k \in DOMAIN (<<prog.driver>> \o prog.modules)}
<1> DEFINE d == prog.driver
           ms == prog.modules
           one == <<d>>
           nodes == one \o ms
<1>1. d \in AllNodes /\ ms \in Seq(AllNodes) /\ one \in Seq(AllNodes) /\ DOMAIN one = {1} /\ one[1] = d
  <2>1. d \in AllNodes /\ ms \in Seq(AllNodes)
    BY DEF ProgramInv, WellFormed, AllNodes
  <2> HIDE DEF d, ms
  <2> QED
    BY <2>1
<1>2. Tops = {d} \cup {ms[i] : i \in DOMAIN ms}
  BY DEF Tops
<1> HIDE DEF d, ms, one
<1>3. nodes \in Seq(AllNodes)
  BY <1>1
<1>4. IsSeq(one) /\ IsSeq(ms)
  BY <1>1, RangeSeq
<1>5. Joins(nodes, one, ms)
  BY <1>4, ConcatSeqs
<1> HIDE DEF nodes
<1>6. {nodes[k] : k \in DOMAIN nodes} = {one[i] : i \in DOMAIN one} \cup {ms[i] : i \in DOMAIN ms}
  BY <1>5 DEF Joins
<1>7. {one[i] : i \in DOMAIN one} = {d}
  BY <1>1
<1> QED
  BY <1>2, <1>3, <1>6, <1>7 DEF nodes, one, ms, d

LEMMA SecondBegins ==
  ASSUME IInv, FirstInv, BeginSemantics, errors = {}
  PROVE  SecondInv'
<1>1. prog' = prog /\ table' = table /\ note' = note /\ todo = << >>
  BY DEF BeginSemantics
<1>2. ProgramInv /\ Bounded /\ TypedTables /\ NotesTyped /\ DOMAIN note = AllNodes
  BY TablesBounded DEF IInv, FirstInv, NotesInv
<1>3. Walked
  <2>1. Pending({"walk", "scope"}) = {}
    BY <1>1 DEF Pending
  <2> QED
    BY <2>1 DEF FirstInv, Reached, Walked
<1>4. NamesKnown
  <2>1. PICK k, c \in Nat : Entered(k, c)
    BY DEF FirstInv, NamesEntered
  <2>2. Len(Listed) \in Nat /\ Len(todo) = 0
    BY <1>1, <1>2, ListedFacts
  <2>3. k = Len(Listed)
    BY <2>1, <2>2 DEF Entered
  <2> QED
    BY <2>1, <2>3 DEF Entered, NamesKnown
<1>5. Grounds'
  BY <1>1, <1>2, <1>3, <1>4, GroundsKept DEF Grounds
<1> DEFINE nodes == <<prog.driver>> \o prog.modules
<1>6. nodes \in Seq(AllNodes) /\ Tops = {nodes[k] : k \in DOMAIN nodes} /\ todo' = Checks(nodes)
  BY <1>2, DriverFirst DEF BeginSemantics
<1> HIDE DEF nodes
<1>7. /\ IsSeq(todo') /\ DOMAIN todo' = DOMAIN nodes
      /\ \A k \in DOMAIN nodes : todo'[k].node = nodes[k]
      /\ Asked(todo', {"check"}) = {nodes[k] : k \in DOMAIN nodes}
  BY <1>6, TasksAsk
<1>8. AllNodes' = AllNodes /\ Tops' = Tops
  BY <1>1 DEF AllNodes, Tops
<1>9. Checked'
  <2>1. Pending({"check"})' = Tops
    BY <1>6, <1>7 DEF Pending, Asked
  <2>2. Spread({}, Pending({"check"}))' /\ Judged({})'
    BY <1>8, <2>1 DEF Spread, Judged
  <2> QED
    BY <2>2 DEF Checked
<1>10. \A i \in DOMAIN todo' : todo'[i].node \in Inside'
  <2>1. Inside' = Inside /\ Tops \subseteq Inside
    <3>1. Tops \subseteq AllNodes
      BY <1>6
    <3> QED
      BY <1>1, <3>1, InsideFacts, InsideKept
  <2> QED
    BY <1>6, <1>7, <2>1
<1> QED
  BY <1>5, <1>7, <1>9, <1>10 DEF SecondInv

(* What a task of the second walk has looked at and not reported.          *)
LEMMA CheckJudges ==
  ASSUME SemanticsNext, ~BeginSemantics, Work.do = "check", errors' = {}
  PROVE  /\ Here.tag = "SWITCH" =>
              /\ note[Work.node].type.form \in {"INTEGER", "BOOLEAN", "UNDEFINED"}
              /\ (note[Work.node].type.form = "BOOLEAN") # Here.default
         /\ Here.tag = "USE" => Here.name \in DOMAIN table[GlobalTable].entry
<1>1. ASSUME Here.tag = "SWITCH"
      PROVE  /\ SwitchForm \in {"INTEGER", "BOOLEAN", "UNDEFINED"}
             /\ (SwitchForm = "BOOLEAN") # Here.default
  <2>1. CheckSwitch
    BY <1>1 DEF SemanticsNext, CheckModule, CheckReturned, CheckNothing, CheckLiteral,
           CheckBody, CheckFor, CheckCounter, CheckArray, CheckOperands, CheckBinary, CheckUnary,
           CheckSides, CheckAssign, CheckUse, CheckAt, CheckStep, Here
  <2>2. ~ (SwitchForm \notin {"INTEGER", "BOOLEAN", "UNDEFINED"})
    BY <2>1 DEF CheckSwitch, Report
  <2>3. (IF (SwitchForm = "BOOLEAN") = Here.default
         THEN {[what |-> "default", node |-> Work.node]} ELSE {}) \subseteq errors'
    BY <2>1, <2>2 DEF CheckSwitch
  <2> QED
    BY <2>2, <2>3
<1>2. ASSUME Here.tag = "USE" PROVE IsDefined(Here.name)
  <2>1. CheckUse
    BY <1>2 DEF SemanticsNext, CheckModule, CheckReturned, CheckNothing, CheckLiteral, CheckSwitch,
           CheckBody, CheckFor, CheckCounter, CheckArray, CheckOperands, CheckBinary, CheckUnary,
           CheckSides, CheckAssign, CheckAt, CheckStep, Here
  <2>2. CallFaults = {}
    <3> SUFFICES ASSUME NEW f \in CallFaults PROVE FALSE
      OBVIOUS
    <3>1. [what |-> f, node |-> Work.node] \in errors'
      BY <2>1 DEF CheckUse
    <3> QED
      BY <3>1
  <2>3. CallIs = "normal"
    BY <2>2 DEF CallFaults
  <2> QED
    BY <2>3 DEF CallIs
<1> QED
  BY <1>1, <1>2 DEF SwitchForm, IsDefined

LEMMA SecondInductive ==
  ASSUME SecondInv, SemanticsNext, ~BeginSemantics, errors' = {}
  PROVE  SecondInv'
<1>1. todo # << >> /\ prog' = prog /\ table' = table /\ note' = note
  BY SecondAssigns
<1>2. PICK items : Assigns(items)
  BY SecondAssigns
<1>3. Replaces(todo', todo, items) /\ Work = todo[1] /\ 1 \in DOMAIN todo
  BY <1>1, <1>2, AgendaReplaced DEF SecondInv, Assigns
<1>4. Grounds'
  BY <1>1, GroundsKept DEF SecondInv
<1>5. AllNodes' = AllNodes /\ \A n : Node(n)' = Node(n)
  BY <1>1 DEF AllNodes, Node
<1>6. IsSeq(todo') /\ \A i \in DOMAIN todo' : todo'[i].do = "check" => todo'[i].node \in Inside'
  <2>1. Inside' = Inside
    BY <1>1, InsideKept
  <2>2. Work.do = "check" => Parts(Work.node) \subseteq Inside
    BY <1>3, InsideFacts DEF SecondInv, Grounds
  <2> QED
    BY <1>2, <1>3, <2>1, <2>2 DEF Replaces, SecondInv, Assigns
<1>7. PICK V : Spread(V, Pending({"check"})) /\ Judged(V)
  BY DEF SecondInv, Checked
<1>8. PICK P : P = Pending({"check"})
  OBVIOUS
<1>9. PICK Q : Q = Pending({"check"})'
  OBVIOUS
<1>10. PICK h : h = Work.node
  OBVIOUS
<1>11. /\ P \subseteq Q \cup {h} /\ (Work.do \notin {"check"} => P \subseteq Q)
       /\ Asked(items, {"check"}) \subseteq Q
  BY <1>3, <1>8, <1>9, <1>10, PendingStep
<1>12. Judged(V)'
  BY <1>1, <1>5, <1>7 DEF Judged
<1>13. CASE Work.do = "check"
  <2>1. h \in AllNodes /\ Parts(h) \subseteq Q
    BY <1>2, <1>3, <1>10, <1>11, <1>13, InsideFacts DEF SecondInv, Assigns
  <2>2. Spread(V \cup {h}, Q)
    BY <1>7, <1>8, <1>11, <2>1, SpreadStep
  <2>3. Spread(V \cup {h}, Q)'
    BY <1>1, <2>2, SpreadKept
  <2>4. Judged({h})
    BY <1>10, <1>13, CheckJudges DEF Judged, Here
  <2>5. Judged(V \cup {h})'
    BY <1>1, <1>5, <1>7, <2>4 DEF Judged
  <2> QED
    BY <1>4, <1>6, <1>9, <2>3, <2>5 DEF SecondInv, Checked
<1>14. CASE Work.do # "check"
  <2>1. Spread(V, Q)
    BY <1>7, <1>8, <1>11, <1>14, SpreadMore
  <2>2. Spread(V, Q)'
    BY <1>1, <2>1, SpreadKept
  <2> QED
    BY <1>4, <1>6, <1>9, <1>12, <2>2 DEF SecondInv, Checked
<1> QED
  BY <1>13, <1>14

-----------------------------------------------------------------------------
(* The labels an item of the generator's agenda has the right to place,    *)
(* those it will place, and those its code will go to.                     *)
CaseCount(item)      == Len(CasesOf(Node(item.node)))
SwitchLabel(item, k) == Numbered(item.nth + CaseCount(item) + k)
InLoop == {"while test", "leave while", "leave for"}

Own(item) ==
  CASE item.do = "gen" /\ Node(item.node).tag = "MODULE" -> {Named(Node(item.node).name)}
    [] item.do = "label" -> {Numbered(item.nth)}
    [] item.do = "tests" -> {SwitchLabel(item, 1), SwitchLabel(item, 2)}
    [] item.do \in InLoop -> {Numbered(item.nth + 1)}
    [] OTHER -> {}
Will(item) == IF item.do = "while test" THEN {} ELSE Own(item)
Wants(item) ==
  CASE item.do = "end arm" -> {SwitchLabel(item, 2)}
    [] item.do = "tests" -> {Numbered(item.nth + i - 1) : i \in 1 .. CaseCount(item)}
                            \cup IF Node(item.node).default THEN {SwitchLabel(item, 0)} ELSE {}
    [] item.do \in InLoop -> {Numbered(item.nth)}
    [] OTHER -> {}

Owns(items)   == UNION {Own(items[i]) : i \in DOMAIN items}
Willed(items) == UNION {Will(items[i]) : i \in DOMAIN items}
Wanted(items) == UNION {Wants(items[i]) : i \in DOMAIN items}

(* Labels that have code whatever is generated: the library's, the modules'.*)
Fixed == {Named("exit_array_error")} \cup {Named(x) : x \in DOMAIN table[GlobalTable].entry}
Sure(c, agenda) == LabelsOf(c) \cup Willed(agenda)
Older(S, n) == \A k \in Nat : k >= n /\ k < LabelsMax => Numbered(k) \notin S
Separate(items) == \A i, j \in DOMAIN items : i # j => Apart(Own(items[i]), Own(items[j]))

(* The books of the generator: c has been printed, agenda is to come, and  *)
(* n labels have been made.                                                *)
Accounted(c, agenda, n) ==
  /\ n \in Nat /\ IsSeq(c) /\ AreLabels(c) /\ PlacedOnce(c)
  /\ GoalsOf(c) \cup Fixed \cup Wanted(agenda) \subseteq Sure(c, agenda)
  /\ Apart(Owns(agenda), LabelsOf(c)) /\ Separate(agenda)
  /\ Older(LabelsOf(c) \cup Owns(agenda), n)

(* A step keeps the books if what it prints and leaves to do places labels *)
(* of its own or new ones, each once, and goes to such labels only.        *)
Minted(n, m) == {Numbered(k) : k \in {k \in Nat : n <= k /\ k < m}}
Fits(work, items, p, w, n, m) ==
  /\ p \cup Owns(items) \subseteq Own(work) \cup Minted(n, m)
  /\ Apart(Owns(items), p) /\ Separate(items)
  /\ Will(work) \subseteq p \cup Willed(items)
  /\ w \cup Wanted(items) \subseteq Fixed \cup Wants(work) \cup p \cup Willed(items)

LEMMA LabelsMost == LabelsMax \in Nat
BY DEF LabelsMax

LEMMA NumbersDiffer ==
  ASSUME NEW k, NEW l, k < LabelsMax, l < LabelsMax
  PROVE  Numbered(k) = Numbered(l) => k = l
BY DEF Numbered

LEMMA Unfolded ==
  ASSUME NEW items
  PROVE  /\ \A i \in DOMAIN items : /\ Own(items[i]) \subseteq Owns(items)
                                    /\ Will(items[i]) \subseteq Willed(items)
                                    /\ Wants(items[i]) \subseteq Wanted(items)
         /\ \A x \in Owns(items)   : \E i \in DOMAIN items : x \in Own(items[i])
         /\ \A x \in Willed(items) : \E i \in DOMAIN items : x \in Will(items[i])
         /\ \A x \in Wanted(items) : \E i \in DOMAIN items : x \in Wants(items[i])
BY DEF Owns, Willed, Wanted

LEMMA AccountedStep ==
  ASSUME NEW c, NEW old, NEW n, Accounted(c, old, n),
         NEW new, NEW items, Replaces(new, old, items), 1 \in DOMAIN old,
         NEW s, NEW p, NEW w, Emits(s, p, w), NEW m \in Nat, n <= m, m <= LabelsMax,
         Fits(old[1], items, p, w, n, m)
  PROVE  Accounted(c \o s, new, m)
<1> DEFINE d == c \o s
<1> PICK work : work = old[1]
  OBVIOUS
<1>a. n \in Nat /\ IsSeq(c) /\ AreLabels(c) /\ PlacedOnce(c)
  BY DEF Accounted
<1>b. /\ GoalsOf(c) \subseteq Sure(c, old) /\ Fixed \subseteq Sure(c, old)
      /\ Wanted(old) \subseteq Sure(c, old)
      /\ Apart(Owns(old), LabelsOf(c)) /\ Separate(old) /\ Older(LabelsOf(c) \cup Owns(old), n)
  BY DEF Accounted
<1>c. /\ p \cup Owns(items) \subseteq Own(work) \cup Minted(n, m)
      /\ Apart(Owns(items), p) /\ Separate(items)
      /\ Will(work) \subseteq p \cup Willed(items)
      /\ w \subseteq Fixed \cup Wants(work) \cup p \cup Willed(items)
      /\ Wanted(items) \subseteq Fixed \cup Wants(work) \cup p \cup Willed(items)
  BY DEF Fits
<1>d. /\ Own(work) \subseteq Owns(old) /\ Wants(work) \subseteq Wanted(old)
  BY Unfolded
<1>1. ASSUME NEW x \in Minted(n, m) PROVE x \notin LabelsOf(c) \cup Owns(old)
  <2>1. PICK k \in Nat : x = Numbered(k) /\ n <= k /\ k < m
    BY <1>1 DEF Minted
  <2>2. k < LabelsMax
    BY <1>a, <2>1, LabelsMost
  <2> QED
    BY <1>a, <1>b, <2>1, <2>2 DEF Older
<1>2. Apart(LabelsOf(c), p)
  BY <1>b, <1>c, <1>d, <1>1 DEF Apart
<1>3. Emits(d, LabelsOf(c) \cup p, GoalsOf(c) \cup w)
  <2>1. Emits(c, LabelsOf(c), GoalsOf(c))
    BY <1>a DEF Emits
  <2> QED
    BY <1>2, <2>1, CodeConcat DEF Apart
<1> HIDE DEF d
<1>4. /\ IsSeq(d) /\ AreLabels(d) /\ PlacedOnce(d)
      /\ LabelsOf(d) = LabelsOf(c) \cup p /\ GoalsOf(d) = GoalsOf(c) \cup w
  BY <1>3 DEF Emits
<1>5. ASSUME NEW i \in DOMAIN new
      PROVE  \/ i \in DOMAIN items /\ i <= Len(items) /\ new[i] = items[i]
             \/ /\ i > Len(items) /\ i - Len(items) + 1 \in DOMAIN old /\ i - Len(items) + 1 # 1
                /\ new[i] = old[i - Len(items) + 1]
  BY DEF Replaces
<1>6. Owns(new) \subseteq Owns(items) \cup Owns(old)
  BY <1>5, Unfolded
<1>7. Wanted(new) \subseteq Wanted(items) \cup Wanted(old)
  BY <1>5, Unfolded
<1>8. Willed(items) \subseteq Willed(new)
  <2>1. \A i \in DOMAIN items : i \in DOMAIN new /\ new[i] = items[i]
    BY DEF Replaces
  <2> QED
    BY <2>1 DEF Willed
<1>9. Willed(old) \subseteq p \cup Willed(new)
  <2> SUFFICES ASSUME NEW x \in Willed(old) PROVE x \in p \cup Willed(new)
    OBVIOUS
  <2>1. PICK i \in DOMAIN old : x \in Will(old[i])
    BY Unfolded
  <2>2. CASE i = 1
    BY <1>c, <1>8, <2>1, <2>2
  <2>3. CASE i # 1
    <3>1. i > 1
      BY <2>3, SeqFacts DEF Replaces
    <3>2. Len(items) + i - 1 \in DOMAIN new /\ new[Len(items) + i - 1] = old[i]
      BY <3>1 DEF Replaces
    <3> QED
      BY <2>1, <3>2, Unfolded
  <2> QED
    BY <2>2, <2>3
<1>10. Sure(c, old) \subseteq Sure(d, new)
  BY <1>4, <1>9 DEF Sure
<1>11. p \cup Willed(items) \subseteq Sure(d, new)
  BY <1>4, <1>8 DEF Sure
<1>12. GoalsOf(d) \cup Fixed \cup Wanted(new) \subseteq Sure(d, new)
  <2>1. Fixed \cup Wants(work) \cup p \cup Willed(items) \subseteq Sure(d, new)
    BY <1>b, <1>d, <1>10, <1>11
  <2> QED
    BY <1>b, <1>c, <1>4, <1>7, <1>10, <2>1
<1>13. ASSUME NEW i \in DOMAIN old, i # 1 PROVE Apart(Own(old[i]), Own(work) \cup Minted(n, m))
  <2>1. Apart(Own(old[i]), Own(work))
    BY <1>b, <1>13 DEF Separate
  <2>2. Own(old[i]) \subseteq Owns(old)
    BY Unfolded
  <2> QED
    BY <1>1, <2>1, <2>2 DEF Apart
<1>14. Apart(Owns(new), LabelsOf(d))
  <2> SUFFICES ASSUME NEW x \in Owns(new), x \in LabelsOf(c) \cup p PROVE FALSE
    BY <1>4 DEF Apart
  <2>1. PICK i \in DOMAIN new : x \in Own(new[i])
    BY Unfolded
  <2>2. CASE i \in DOMAIN items /\ new[i] = items[i]
    <3>1. x \in Owns(items)
      BY <2>1, <2>2, Unfolded
    <3> QED
      BY <1>b, <1>c, <1>d, <1>1, <3>1 DEF Apart
  <2>3. ASSUME NEW j \in DOMAIN old, j # 1, new[i] = old[j] PROVE FALSE
    <3>1. x \in Owns(old)
      BY <2>1, <2>3, Unfolded
    <3>2. x \notin Own(work) \cup Minted(n, m)
      BY <1>13, <2>1, <2>3 DEF Apart
    <3> QED
      BY <1>b, <1>c, <3>1, <3>2 DEF Apart
  <2> QED
    BY <1>5, <2>2, <2>3
<1>15. Separate(new)
  <2> SUFFICES ASSUME NEW i \in DOMAIN new, NEW j \in DOMAIN new, i # j
               PROVE  Apart(Own(new[i]), Own(new[j]))
    BY DEF Separate
  <2>1. i \in Int /\ j \in Int /\ Len(items) \in Int
    BY SeqFacts DEF Replaces
  <2>2. CASE i \in DOMAIN items /\ new[i] = items[i] /\ j \in DOMAIN items /\ new[j] = items[j]
    BY <1>c, <2>2 DEF Separate
  <2>3. ASSUME NEW a \in DOMAIN items, NEW b \in DOMAIN old, b # 1
        PROVE  Apart(Own(items[a]), Own(old[b]))
    <3>1. Own(items[a]) \subseteq Own(work) \cup Minted(n, m)
      BY <1>c, Unfolded
    <3> QED
      BY <1>13, <2>3, <3>1 DEF Apart
  <2>4. ASSUME i - Len(items) + 1 \in DOMAIN old, j - Len(items) + 1 \in DOMAIN old,
               new[i] = old[i - Len(items) + 1], new[j] = old[j - Len(items) + 1]
        PROVE  Apart(Own(new[i]), Own(new[j]))
    <3>1. i - Len(items) + 1 # j - Len(items) + 1
      BY <2>1
    <3> QED
      BY <1>b, <2>4, <3>1 DEF Separate
  <2>5. CASE i \in DOMAIN items /\ new[i] = items[i] /\ ~(j \in DOMAIN items /\ new[j] = items[j])
    BY <1>5, <2>3, <2>5
  <2>6. CASE j \in DOMAIN items /\ new[j] = items[j] /\ ~(i \in DOMAIN items /\ new[i] = items[i])
    <3>1. Apart(Own(new[j]), Own(new[i]))
      BY <1>5, <2>3, <2>6
    <3> QED
      BY <3>1 DEF Apart
  <2>7. CASE ~(i \in DOMAIN items /\ new[i] = items[i]) /\ ~(j \in DOMAIN items /\ new[j] = items[j])
    BY <1>5, <2>4, <2>7
  <2> QED
    BY <2>2, <2>5, <2>6, <2>7
<1>16. Older(LabelsOf(d) \cup Owns(new), m)
  <2> SUFFICES ASSUME NEW k \in Nat, k >= m, k < LabelsMax,
                      Numbered(k) \in LabelsOf(c) \cup p \cup Owns(new)
               PROVE  FALSE
    BY <1>4 DEF Older
  <2>1. Numbered(k) \notin LabelsOf(c) \cup Owns(old)
    BY <1>a, <1>b DEF Older
  <2>2. ASSUME NEW j \in Nat, n <= j, j < m, Numbered(k) = Numbered(j) PROVE FALSE
    <3>1. j < LabelsMax /\ j # k
      BY <2>2, LabelsMost
    <3> QED
      BY <2>2, <3>1, NumbersDiffer
  <2>3. Numbered(k) \notin Minted(n, m)
    BY <2>2 DEF Minted
  <2> QED
    BY <1>c, <1>d, <1>6, <2>1, <2>3
<1>17. Accounted(d, new, m)
  BY <1>4, <1>12, <1>14, <1>15, <1>16 DEF Accounted
<1> QED
  BY <1>17 DEF d

-----------------------------------------------------------------------------
(* Items: those that neither place labels nor go to any, and the sequences *)
(* of which this is true but for one.                                      *)
Good(n) ==
  /\ Node(n).tag = "SWITCH" =>
       /\ note[n].type.form \in {"INTEGER", "BOOLEAN"}
       /\ (note[n].type.form = "BOOLEAN") # Node(n).default
  /\ Node(n).tag = "USE" => Node(n).name \in DOMAIN table[GlobalTable].entry
Trusted(D) == Spread(D, {}) /\ \A n \in D : Good(n)

Sound(item, D) ==
  /\ item.node \in AllNodes /\ item.nth \in Nat
  /\ item.do = "gen" => item.node \in D \/ Node(item.node).tag \in Expressions
  /\ item.do = "while test" => item.node \in D /\ Node(item.node).tag = "WHILE"
  /\ item.do = "tests" => Node(item.node).tag = "SWITCH" /\ SwitchLabel(item, 1) # SwitchLabel(item, 2)
  /\ item.do = "leave module" => Node(item.node).tag = "MODULE"
Silent(item) == Own(item) = {} /\ Wants(item) = {}
Quiet(items, D) == IsSeq(items) /\ \A k \in DOMAIN items : Silent(items[k]) /\ Sound(items[k], D)
SilentBut(items, x) ==
  \E j \in DOMAIN items : items[j] = x /\ \A k \in DOMAIN items : k # j => Silent(items[k])
EndsIn(items, x, D) ==
  IsSeq(items) /\ SilentBut(items, x) /\ \A k \in DOMAIN items : Sound(items[k], D)

LEMMA QuietFacts ==
  ASSUME NEW items, NEW D, Quiet(items, D)
  PROVE  Owns(items) = {} /\ Willed(items) = {} /\ Wanted(items) = {} /\ Separate(items)
<1>1. \A k \in DOMAIN items : Own(items[k]) = {} /\ Will(items[k]) = {} /\ Wants(items[k]) = {}
  BY DEF Quiet, Silent, Will
<1> QED
  BY <1>1 DEF Owns, Willed, Wanted, Separate, Apart

LEMMA EndsFacts ==
  ASSUME NEW items, NEW x, NEW D, EndsIn(items, x, D)
  PROVE  Owns(items) = Own(x) /\ Willed(items) = Will(x) /\ Wanted(items) = Wants(x) /\ Separate(items)
<1>1. PICK j \in DOMAIN items : items[j] = x /\ \A k \in DOMAIN items : k # j => Silent(items[k])
  BY DEF EndsIn, SilentBut
<1>2. \A k \in DOMAIN items : k # j => Own(items[k]) = {} /\ Will(items[k]) = {} /\ Wants(items[k]) = {}
  BY <1>1 DEF Silent, Will
<1>3. Owns(items) = Own(x)
  BY <1>1, <1>2 DEF Owns
<1>4. Willed(items) = Will(x)
  BY <1>1, <1>2 DEF Willed
<1>5. Wanted(items) = Wants(x)
  BY <1>1, <1>2 DEF Wanted
<1>6. Separate(items)
  BY <1>1, <1>2 DEF Separate, Apart
<1> QED
  BY <1>3, <1>4, <1>5, <1>6

LEMMA QuietNone ==
  ASSUME NEW D
  PROVE  Quiet(<< >>, D)
BY DEF Quiet, IsSeq

LEMMA GensQuiet ==
  ASSUME NEW nodes \in Seq(AllNodes), NEW D, NEW t,
         \A k \in DOMAIN nodes : /\ Node(nodes[k]).tag # "MODULE"
                                 /\ nodes[k] \in D \/ Node(nodes[k]).tag \in Expressions
  PROVE  Quiet(Gens(nodes, t), D)
<1> DEFINE items == Gens(nodes, t)
<1>1. DOMAIN items = 1 .. Len(nodes) /\ Len(nodes) \in Nat /\ DOMAIN items = DOMAIN nodes
      /\ items = [k \in 1 .. Len(nodes) |-> items[k]]
  BY DEF Gens
<1>2. \A k \in DOMAIN nodes : items[k].do = "gen" /\ items[k].node = nodes[k] /\ items[k].nth = 0
  BY DEF Gens, Item
<1> HIDE DEF items
<1>3. IsSeq(items)
  BY <1>1, ListFacts
<1>4. ASSUME NEW k \in DOMAIN items PROVE Silent(items[k]) /\ Sound(items[k], D)
  <2>1. items[k].do = "gen" /\ Node(items[k].node).tag # "MODULE"
    BY <1>1, <1>2
  <2>2. Own(items[k]) = {}
    BY <2>1 DEF Own, InLoop
  <2>3. Wants(items[k]) = {}
    BY <2>1 DEF Wants, InLoop
  <2>4. Sound(items[k], D)
    <3>1. PICK n : n = items[k].node
      OBVIOUS
    <3>a. k \in DOMAIN nodes
      BY <1>1
    <3>b. n = nodes[k] /\ items[k].nth = 0
      BY <1>2, <3>1, <3>a
    <3>c. n \in AllNodes
      BY <3>a, <3>b
    <3>2. n \in AllNodes /\ (n \in D \/ Node(n).tag \in Expressions) /\ items[k].nth = 0
      BY <3>a, <3>b, <3>c
    <3> QED
      BY <2>1, <3>1, <3>2 DEF Sound
  <2> QED
    BY <2>2, <2>3, <2>4 DEF Silent
<1>5. Quiet(items, D)
  BY <1>3, <1>4 DEF Quiet
<1> QED
  BY <1>5 DEF items

LEMMA QuietJoin ==
  ASSUME NEW s, NEW r, NEW D, Quiet(s, D), Quiet(r, D)
  PROVE  Quiet(s \o r, D)
<1> DEFINE c == s \o r
<1>1. Joins(c, s, r)
  BY ConcatSeqs DEF Quiet
<1> HIDE DEF c
<1>2. Quiet(c, D)
  BY <1>1 DEF Quiet, Joins
<1> QED
  BY <1>2 DEF c

LEMMA EndsJoin ==
  ASSUME NEW s, NEW x, NEW D, Quiet(s, D), Sound(x, D)
  PROVE  EndsIn(s \o <<x>>, x, D)
<1> DEFINE one == <<x>>
           c == s \o one
<1>1. IsSeq(one) /\ DOMAIN one = {1} /\ one[1] = x
  BY DEF IsSeq
<1> HIDE DEF one
<1>2. Joins(c, s, one)
  BY <1>1, ConcatSeqs DEF Quiet
<1> HIDE DEF c
<1>3. Len(s) + 1 \in DOMAIN c /\ c[Len(s) + 1] = x
  BY <1>1, <1>2 DEF Joins
<1>4. ASSUME NEW k \in DOMAIN c
      PROVE  Sound(c[k], D) /\ (k # Len(s) + 1 => Silent(c[k]))
  <2>1. CASE k \in DOMAIN s /\ c[k] = s[k]
    BY <2>1 DEF Quiet
  <2>2. CASE k - Len(s) \in DOMAIN one /\ c[k] = one[k - Len(s)]
    <3>1. k - Len(s) = 1 /\ k \in Nat /\ Len(s) \in Nat
      BY <1>1, <1>2, <2>2, SeqFacts DEF Joins
    <3>2. k = Len(s) + 1
      BY <3>1
    <3> QED
      BY <1>3, <3>2
  <2> QED
    BY <1>2, <2>1, <2>2 DEF Joins
<1>5. EndsIn(c, x, D)
  BY <1>2, <1>3, <1>4 DEF EndsIn, SilentBut, Joins
<1> QED
  BY <1>5 DEF c, one

LEMMA EndsQuiet ==
  ASSUME NEW items, NEW x, NEW D, EndsIn(items, x, D), Silent(x)
  PROVE  Quiet(items, D)
BY DEF EndsIn, SilentBut, Quiet

(* What comes after the parts of a node.                                   *)
LEMMA AfterFacts ==
  ASSUME NEW do, NEW nth
  PROVE  /\ After(do, nth) = <<Item(do, Work.node, Work.table, nth)>>
         /\ Item(do, Work.node, Work.table, nth).do = do
         /\ Item(do, Work.node, Work.table, nth).node = Work.node
         /\ Item(do, Work.node, Work.table, nth).nth = nth
BY DEF After, Item

LEMMA QuietAfter ==
  ASSUME NEW s, NEW D, Quiet(s, D), Work.node \in AllNodes,
         NEW do \in {"element", "operator", "assign", "leave case", "leave module"},
         do = "leave module" => Here.tag = "MODULE"
  PROVE  Quiet(s \o After(do, 0), D)
<1> PICK x : x = Item(do, Work.node, Work.table, 0)
  OBVIOUS
<1>1. x.do = do /\ x.node = Work.node /\ x.nth = 0 /\ After(do, 0) = <<x>>
  BY AfterFacts
<1>2. Sound(x, D) /\ Silent(x)
  <2>1. Sound(x, D)
    <3>a. x.node \in AllNodes
      BY <1>1
    <3>b. x.nth \in Nat
      <4>1. x.nth = 0 /\ 0 \in Nat
        BY <1>1
      <4> QED
        BY ONLY <4>1
    <3>1. x.node \in AllNodes /\ x.nth \in Nat
      BY <3>a, <3>b
    <3>2. x.do # "gen" /\ x.do # "while test" /\ x.do # "tests"
          /\ (x.do = "leave module" => Node(x.node).tag = "MODULE")
      BY <1>1 DEF Here
    <3> QED
      BY <3>1, <3>2 DEF Sound
  <2>2. Own(x) = {}
    BY <1>1 DEF Own, InLoop
  <2>3. Wants(x) = {}
    BY <1>1 DEF Wants, InLoop
  <2> QED
    BY <2>1, <2>2, <2>3 DEF Silent
<1>3. EndsIn(s \o <<x>>, x, D)
  BY <1>2, EndsJoin
<1> QED
  BY <1>1, <1>2, <1>3, EndsQuiet

-----------------------------------------------------------------------------
(* A step of the generator.                                                *)
Settled(D) == Trusted(D) /\ \A i \in DOMAIN todo : Sound(todo[i], D)
ThirdInv == Grounds /\ IsSeq(todo) /\ Accounted(code, todo, labels) /\ \E D : Settled(D)

Moves(items, s, p, w, D) ==
  /\ IsSeq(items) /\ Call(items) /\ \A k \in DOMAIN items : Sound(items[k], D)
  /\ Emits(s, p, w) /\ code' = code \o s
  /\ labels' \in Nat /\ labels <= labels'
  /\ Fits(Work, items, p, w, labels, labels')
Proceeds(D) == \E items, s, p, w : Moves(items, s, p, w, D)

LEMMA PlacingMoves ==
  ASSUME NEW items, NEW D, Quiet(items, D), Call(items),
         NEW s, NEW p, NEW w, Emits(s, p, w), code' = code \o s,
         labels \in Nat, labels' \in Nat, labels <= labels',
         p \subseteq Own(Work) \cup Minted(labels, labels'),
         Will(Work) \subseteq p, w \subseteq Fixed \cup Wants(Work) \cup p
  PROVE  Proceeds(D)
<1>1. Owns(items) = {} /\ Willed(items) = {} /\ Wanted(items) = {} /\ Separate(items)
  BY QuietFacts
<1>2. Fits(Work, items, p, w, labels, labels')
  BY <1>1 DEF Fits, Apart
<1>3. IsSeq(items) /\ \A k \in DOMAIN items : Sound(items[k], D)
  BY DEF Quiet
<1>4. Moves(items, s, p, w, D)
  BY <1>2, <1>3 DEF Moves
<1> QED
  BY <1>4 DEF Proceeds

LEMMA QuietMoves ==
  ASSUME NEW items, NEW D, Quiet(items, D), Call(items),
         NEW s, NEW w, Emits(s, {}, w), code' = code \o s,
         labels \in Nat, labels' = labels, Will(Work) = {}, w \subseteq Fixed \cup Wants(Work)
  PROVE  Proceeds(D)
<1>1. labels' \in Nat /\ labels <= labels'
  OBVIOUS
<1>2. {} \subseteq Own(Work) \cup Minted(labels, labels') /\ Will(Work) \subseteq {}
      /\ w \subseteq Fixed \cup Wants(Work) \cup {}
  OBVIOUS
<1> QED
  BY <1>1, <1>2, PlacingMoves

LEMMA LastMoves ==
  ASSUME NEW items, NEW x, NEW D, EndsIn(items, x, D), Call(items),
         NEW s, NEW p, NEW w, Emits(s, p, w), code' = code \o s,
         labels \in Nat, labels' \in Nat, labels <= labels',
         p \cup Own(x) \subseteq Own(Work) \cup Minted(labels, labels'), Apart(Own(x), p),
         Will(Work) \subseteq p \cup Will(x),
         w \cup Wants(x) \subseteq Fixed \cup Wants(Work) \cup p \cup Will(x)
  PROVE  Proceeds(D)
<1>1. Owns(items) = Own(x) /\ Willed(items) = Will(x) /\ Wanted(items) = Wants(x) /\ Separate(items)
  BY EndsFacts
<1>2. Fits(Work, items, p, w, labels, labels')
  BY <1>1 DEF Fits
<1>3. IsSeq(items) /\ \A k \in DOMAIN items : Sound(items[k], D)
  BY DEF EndsIn
<1>4. Moves(items, s, p, w, D)
  BY <1>2, <1>3 DEF Moves
<1> QED
  BY <1>4 DEF Proceeds

LEMMA ItemsKept ==
  ASSUME prog' = prog, table' = table, note' = note
  PROVE  /\ \A item : Own(item)' = Own(item) /\ Will(item)' = Will(item) /\ Wants(item)' = Wants(item)
         /\ Fixed' = Fixed /\ AllNodes' = AllNodes
         /\ \A n : Good(n)' = Good(n) /\ Node(n)' = Node(n)
         /\ \A item : CaseCount(item)' = CaseCount(item)
         /\ \A item, k : SwitchLabel(item, k)' = SwitchLabel(item, k)
<1>1. \A n : Node(n)' = Node(n)
  BY DEF Node
<1>2. \A item : CaseCount(item)' = CaseCount(item)
  BY <1>1 DEF CaseCount
<1>3. \A item, k : SwitchLabel(item, k)' = SwitchLabel(item, k)
  BY <1>2 DEF SwitchLabel
<1>4. \A item : Own(item)' = Own(item)
  BY <1>1, <1>3 DEF Own
<1>5. \A item : Will(item)' = Will(item)
  BY <1>4 DEF Will
<1>6. \A item : Wants(item)' = Wants(item)
  BY <1>1, <1>2, <1>3 DEF Wants
<1>7. Fixed' = Fixed /\ AllNodes' = AllNodes
  BY DEF Fixed, AllNodes, GlobalTable
<1>8. \A n : Good(n)' = Good(n)
  BY <1>1 DEF Good, GlobalTable
<1> QED
  BY <1>1, <1>2, <1>3, <1>4, <1>5, <1>6, <1>7, <1>8

LEMMA AccountedKept ==
  ASSUME prog' = prog, table' = table, note' = note, Accounted(code', todo', labels')
  PROVE  Accounted(code, todo, labels)'
<1>1. /\ \A item : Own(item)' = Own(item) /\ Will(item)' = Will(item) /\ Wants(item)' = Wants(item)
      /\ Fixed' = Fixed
  BY ItemsKept
<1>2. Owns(todo)' = Owns(todo')
  BY <1>1 DEF Owns
<1>3. Willed(todo)' = Willed(todo')
  BY <1>1 DEF Willed
<1>4. Wanted(todo)' = Wanted(todo')
  BY <1>1 DEF Wanted
<1>5. Separate(todo)' = Separate(todo')
  BY <1>1 DEF Separate
<1>6. Sure(code, todo)' = Sure(code', todo')
  BY <1>3 DEF Sure
<1> QED
  BY <1>1, <1>2, <1>4, <1>5, <1>6 DEF Accounted

LEMMA ThirdStep ==
  ASSUME ThirdInv, todo # << >>, prog' = prog, table' = table, note' = note,
         NEW CONSTANT D, Settled(D), Proceeds(D), labels' <= LabelsMax
  PROVE  ThirdInv'
<1>1. PICK items, s, p, w : Moves(items, s, p, w, D)
  BY DEF Proceeds
<1>2. Replaces(todo', todo, items) /\ Work = todo[1] /\ 1 \in DOMAIN todo
  BY <1>1, AgendaReplaced DEF ThirdInv, Moves
<1>3. Accounted(code', todo', labels')
  <2>1. /\ Accounted(code, todo, labels) /\ Emits(s, p, w) /\ labels' \in Nat /\ labels <= labels'
        /\ Fits(todo[1], items, p, w, labels, labels') /\ code' = code \o s
    BY <1>1, <1>2 DEF ThirdInv, Moves
  <2>2. Accounted(code \o s, todo', labels')
    BY <1>2, <2>1, AccountedStep
  <2> QED
    BY <2>1, <2>2
<1>4. Accounted(code, todo, labels)'
  BY <1>3, AccountedKept
<1>5. Grounds' /\ IsSeq(todo')
  BY <1>2, GroundsKept DEF ThirdInv, Replaces
<1>6. /\ AllNodes' = AllNodes /\ (\A n : Good(n)' = Good(n) /\ Node(n)' = Node(n))
      /\ \A item, k : SwitchLabel(item, k)' = SwitchLabel(item, k)
  BY ItemsKept
<1>7. ASSUME NEW i \in DOMAIN todo' PROVE Sound(todo'[i], D)
  <2>1. CASE i \in DOMAIN items /\ todo'[i] = items[i]
    BY <1>1, <2>1 DEF Moves
  <2>2. CASE i - Len(items) + 1 \in DOMAIN todo /\ todo'[i] = todo[i - Len(items) + 1]
    BY <2>2 DEF Settled
  <2> QED
    BY <1>2, <2>1, <2>2 DEF Replaces
<1>8. \A i \in DOMAIN todo' : Sound(todo[i], D)'
  BY <1>6, <1>7 DEF Sound
<1>9. Trusted(D)'
  <2>1. Spread(D, {})'
    BY SpreadKept DEF Settled, Trusted
  <2> QED
    BY <1>6, <2>1 DEF Settled, Trusted
<1>10. Settled(D)'
  BY <1>8, <1>9 DEF Settled
<1> QED
  BY <1>4, <1>5, <1>10 DEF ThirdInv

-----------------------------------------------------------------------------
(* The generator starts: the library's code, and a module for each label   *)
(* the library and the calls go to.  A module named like one of the library*)
(* or like a label that is made could place a label a second time.         *)
NamesFree == \A i \in DOMAIN prog.modules :
               Node(prog.modules[i]).name \notin Reserved \cup DOMAIN NumberSpelt

Bland(x) == Tidy(x) /\ Places(x) = {} /\ Aims(x) = {}

LEMMA LabelFacts ==
  ASSUME NEW l
  PROVE  /\ Tidy(Label(l)) /\ Places(Label(l)) = {l} /\ Aims(Label(l)) = {}
         /\ \A on : Tidy(Jump(on, l)) /\ Places(Jump(on, l)) = {} /\ Aims(Jump(on, l)) = {l}
         /\ Tidy(CallOf(l)) /\ Places(CallOf(l)) = {} /\ Aims(CallOf(l)) = {l}
BY DEF Tidy, Places, Aims, Label, Jump, CallOf

LEMMA BlandOp ==
  ASSUME NEW x, x.op \notin {"label", "jump", "call"}
  PROVE  Bland(x)
BY DEF Bland, Tidy, Places, Aims

(* The names of the library are different ones, and none reads like a      *)
(* label that is made.                                                     *)
LEMMA LibraryKnown ==
  /\ DOMAIN LibraryNames = 1 .. 20
  /\ \A i, j \in 1 .. 20 : LibraryNames[i] = LibraryNames[j] => i = j
  /\ \A i \in 1 .. 20 : LibraryNames[i] \notin DOMAIN NumberSpelt /\ LibraryNames[i] \notin StartNames
<1>1. DOMAIN LibraryNames = 1 .. 20
  BY DEF LibraryNames
<1>2. \A i, j \in 1 .. 20 : LibraryNames[i] = LibraryNames[j] => i = j
  BY SMTT(60) DEF LibraryNames
<1>3. \A i \in 1 .. 20 : LibraryNames[i] \notin StartNames
  BY SMTT(60) DEF LibraryNames, StartNames
<1>4. \A i \in 1 .. 20 : LibraryNames[i] \in Reserved
  BY <1>1 DEF Reserved
<1> QED
  BY <1>1, <1>2, <1>3, <1>4, NumbersSpelt

LEMMA StartKnown ==
  /\ \A x \in StartNames \cup {"DRIVER"} : x \notin DOMAIN NumberSpelt
  /\ {"_main", "exit", "exit_array_error"} \subseteq StartNames
  /\ "_main" # "exit" /\ "_main" # "exit_array_error" /\ "exit" # "exit_array_error"
  /\ "DRIVER" \notin Reserved
<1>1. \A i \in 1 .. 20 : LibraryNames[i] # "DRIVER"
  BY SMTT(60) DEF LibraryNames
<1>2. DOMAIN LibraryNames = 1 .. 20
  BY LibraryKnown
<1> QED
  BY <1>1, <1>2, NumbersSpelt DEF Reserved, StartNames

(* Of names that read like no number each makes a label of its own.        *)
LEMMA PlainNames ==
  ASSUME NEW x, x \notin DOMAIN NumberSpelt
  PROVE  /\ \A y : y \notin DOMAIN NumberSpelt /\ Named(x) = Named(y) => x = y
         /\ \A k \in Nat : k < LabelsMax => Named(x) # Numbered(k)
BY DEF Named, Numbered

LEMMA NamesList ==
  ASSUME NEW n \in Nat, NEW names, DOMAIN names = 1 .. n,
         \A i, j \in 1 .. n : names[i] = names[j] => i = j,
         \A i \in 1 .. n : names[i] \notin DOMAIN NumberSpelt,
         NEW s, s = [i \in DOMAIN names |-> Label(Named(names[i]))]
  PROVE  Emits(s, {Named(names[i]) : i \in 1 .. n}, {})
<1>1. IsSeq(s) /\ DOMAIN s = 1 .. n
  <2>1. s = [i \in 1 .. n |-> s[i]]
    OBVIOUS
  <2> QED
    BY <2>1, ListFacts
<1>2. \A i \in 1 .. n : s[i] = Label(Named(names[i])) /\ s[i].op = "label" /\ s[i].label = Named(names[i])
  BY DEF Label
<1>3. AreLabels(s)
  BY <1>1, <1>2 DEF AreLabels
<1>4. PlacedOnce(s)
  BY <1>1, <1>2, PlainNames DEF PlacedOnce
<1>5. LabelsOf(s) = {Named(names[i]) : i \in 1 .. n} /\ GoalsOf(s) = {}
  <2>1. \A i \in DOMAIN s : s[i].op = "label"
    BY <1>1, <1>2
  <2>2. /\ {i \in DOMAIN s : s[i].op = "label"} = 1 .. n
        /\ {i \in DOMAIN s : s[i].op \in {"jump", "call"}} = {}
    BY <2>1, <1>1
  <2>3. LabelsOf(s) = {s[i].label : i \in 1 .. n}
    BY <2>2 DEF LabelsOf
  <2>4. {s[i].label : i \in 1 .. n} = {Named(names[i]) : i \in 1 .. n}
    BY <1>2
  <2>5. GoalsOf(s) = {}
    BY <2>2 DEF GoalsOf
  <2> QED
    BY <2>3, <2>4, <2>5
<1> QED
  BY <1>1, <1>3, <1>4, <1>5 DEF Emits

LEMMA StartEmits ==
  /\ Emits(<<Label(Named("_main")), CallOf(Named("DRIVER")), Label(Named("exit")), Exit>>,
           {Named("_main"), Named("exit")}, {Named("DRIVER")})
  /\ Emits(<<Label(Named("exit_array_error")), PrintReg("BOUNDS", "rax"), Exit>>,
           {Named("exit_array_error")}, {})
<1> PICK a : a = Label(Named("_main"))
  OBVIOUS
<1> PICK b : b = CallOf(Named("DRIVER"))
  OBVIOUS
<1> PICK c : c = Label(Named("exit"))
  OBVIOUS
<1> PICK d : d = Exit
  OBVIOUS
<1> PICK e : e = Label(Named("exit_array_error"))
  OBVIOUS
<1> PICK f : f = PrintReg("BOUNDS", "rax")
  OBVIOUS
<1>1. /\ Tidy(a) /\ Places(a) = {Named("_main")} /\ Aims(a) = {}
      /\ Tidy(b) /\ Places(b) = {} /\ Aims(b) = {Named("DRIVER")}
      /\ Tidy(c) /\ Places(c) = {Named("exit")} /\ Aims(c) = {}
      /\ Tidy(e) /\ Places(e) = {Named("exit_array_error")} /\ Aims(e) = {}
  BY LabelFacts
<1>2. Tidy(d) /\ Places(d) = {} /\ Aims(d) = {} /\ Tidy(f) /\ Places(f) = {} /\ Aims(f) = {}
  <2>1. d.op = "exit" /\ f.op = "print"
    BY DEF Exit, PrintReg
  <2>2. Bland(d) /\ Bland(f)
    BY <2>1, BlandOp
  <2> QED
    BY <2>2 DEF Bland
<1>3. Named("_main") # Named("exit")
  BY StartKnown, PlainNames
<1>4. Emits(<<a, b, c, d>>, {Named("_main"), Named("exit")}, {Named("DRIVER")})
  <2>1. /\ Apart(Places(a), Places(b)) /\ Apart(Places(a) \cup Places(b), Places(c))
        /\ Apart(Places(a) \cup Places(b) \cup Places(c), Places(d))
    BY <1>1, <1>2, <1>3 DEF Apart
  <2>2. Emits(<<a, b, c, d>>, Places(a) \cup Places(b) \cup Places(c) \cup Places(d),
              Aims(a) \cup Aims(b) \cup Aims(c) \cup Aims(d))
    BY <1>1, <1>2, <2>1, FourEmit
  <2>3. /\ Places(a) \cup Places(b) \cup Places(c) \cup Places(d) = {Named("_main"), Named("exit")}
        /\ Aims(a) \cup Aims(b) \cup Aims(c) \cup Aims(d) = {Named("DRIVER")}
    BY <1>1, <1>2
  <2> QED
    BY <2>2, <2>3
<1>5. Emits(<<e, f, d>>, {Named("exit_array_error")}, {})
  <2>1. Apart(Places(e), Places(f)) /\ Apart(Places(e) \cup Places(f), Places(d))
    BY <1>1, <1>2 DEF Apart
  <2>2. Emits(<<e, f, d>>, Places(e) \cup Places(f) \cup Places(d), Aims(e) \cup Aims(f) \cup Aims(d))
    BY <1>1, <1>2, <2>1, ThreeEmit
  <2>3. /\ Places(e) \cup Places(f) \cup Places(d) = {Named("exit_array_error")}
        /\ Aims(e) \cup Aims(f) \cup Aims(d) = {}
    BY <1>1, <1>2
  <2> QED
    BY <2>2, <2>3
<1> QED
  BY <1>4, <1>5

LEMMA PreludeEmits ==
  Emits(Prelude, {Named(x) : x \in Reserved}, {Named("DRIVER")})
<1> DEFINE names == LibraryNames
           listed == {Named(names[i]) : i \in 1 .. 20}
           list == [i \in DOMAIN names |-> Label(Named(names[i]))]
           start == {Named("_main"), Named("exit")} \cup {Named("exit_array_error")}
<1>1. /\ DOMAIN names = 1 .. 20
      /\ \A i, j \in 1 .. 20 : names[i] = names[j] => i = j
      /\ \A i \in 1 .. 20 : names[i] \notin DOMAIN NumberSpelt /\ names[i] \notin StartNames
  BY LibraryKnown
<1> HIDE DEF names
<1>2. Emits(list, listed, {})
  <2>1. 20 \in Nat /\ DOMAIN names = 1 .. 20
    BY <1>1
  <2>2. PICK s : s = [i \in DOMAIN names |-> Label(Named(names[i]))]
    OBVIOUS
  <2>3. Emits(s, listed, {})
    BY <1>1, <2>1, <2>2, NamesList
  <2> QED
    BY <2>2, <2>3
<1> HIDE DEF list
<1>3. \A x \in StartNames : x \notin DOMAIN NumberSpelt
  BY StartKnown
<1>4. Named("exit_array_error") \notin {Named("_main"), Named("exit")}
  BY StartKnown, PlainNames
<1>5. Emits(TextSection, start, {Named("DRIVER")})
  <2> PICK p : p = {Named("_main"), Named("exit")}
    OBVIOUS
  <2> PICK q : q = {Named("exit_array_error")}
    OBVIOUS
  <2> PICK w : w = {Named("DRIVER")}
    OBVIOUS
  <2> PICK a : a = <<Label(Named("_main")), CallOf(Named("DRIVER")), Label(Named("exit")), Exit>>
    OBVIOUS
  <2> PICK b : b = <<Label(Named("exit_array_error")), PrintReg("BOUNDS", "rax"), Exit>>
    OBVIOUS
  <2>1. p \cap q = {} /\ w \cup {} = w /\ start = p \cup q
    BY <1>4
  <2>2. Emits(a, p, w) /\ Emits(b, q, {})
    BY StartEmits
  <2>3. Emits(a \o b, p \cup q, w \cup {})
    BY <2>1, <2>2, CodeConcat
  <2>4. TextSection = a \o b
    BY DEF TextSection
  <2> QED
    BY <2>1, <2>3, <2>4
<1>6. start = {Named(x) : x \in StartNames}
  BY DEF StartNames
<1> HIDE DEF start
<1>7. start \cap listed = {}
  BY <1>1, <1>3, <1>6, PlainNames
<1>8. {Named(x) : x \in Reserved} = start \cup listed
  BY <1>1, <1>6 DEF Reserved, names
<1>9. Emits(TextSection \o list, start \cup listed, {Named("DRIVER")} \cup {})
  BY <1>2, <1>5, <1>7, CodeConcat
<1>10. Prelude = TextSection \o list
  BY DEF Prelude, list, names
<1> QED
  BY <1>8, <1>9, <1>10

LEMMA DriverOrder ==
  ASSUME ProgramInv, NEW nodes, nodes = <<prog.driver>> \o prog.modules
  PROVE  /\ nodes[1] = prog.driver /\ DOMAIN nodes = 1 .. Len(Listed) /\ Len(Listed) \in Nat
         /\ 1 \in DOMAIN nodes /\ Listed[Len(Listed)] = prog.driver
         /\ \A k \in DOMAIN nodes : k # 1 => /\ k - 1 \in 1 .. Len(Listed) - 1
                                             /\ nodes[k] = Listed[k - 1]
                                             /\ k - 1 \in DOMAIN prog.modules
                                             /\ nodes[k] = prog.modules[k - 1]
<1> PICK d : d = prog.driver
  OBVIOUS
<1> PICK ms : ms = prog.modules
  OBVIOUS
<1> DEFINE one == <<d>>
<1>1. ms \in Seq(AllNodes)
  BY DEF ProgramInv, WellFormed, AllNodes
<1>2. IsSeq(ms) /\ Len(ms) \in Nat /\ DOMAIN ms = 1 .. Len(ms)
  BY <1>1, RangeSeq
<1>3. IsSeq(one) /\ DOMAIN one = {1} /\ Len(one) = 1 /\ one[1] = d
  BY DEF IsSeq
<1>4. nodes = one \o ms
  OBVIOUS
<1> HIDE DEF one
<1>5. Joins(nodes, one, ms)
  BY <1>2, <1>3, <1>4, ConcatSeqs
<1>6. Listed = Append(ms, d)
  BY DEF Listed
<1>7. /\ Len(Listed) = Len(ms) + 1
      /\ \A i \in DOMAIN ms : Listed[i] = ms[i]
      /\ Listed[Len(ms) + 1] = d
  BY <1>2, <1>6, AppendFacts
<1>8. 1 \in DOMAIN nodes /\ nodes[1] = d
  BY <1>3, <1>5 DEF Joins
<1>9. DOMAIN nodes = 1 .. Len(Listed) /\ Len(Listed) \in Nat
  <2>1. Len(nodes) = 1 + Len(ms) /\ DOMAIN nodes = 1 .. Len(nodes)
    BY <1>3, <1>5, SeqFacts DEF Joins
  <2> QED
    BY <1>2, <1>7, <2>1
<1>10. ASSUME NEW k \in DOMAIN nodes, k # 1
       PROVE  k - 1 \in DOMAIN ms /\ nodes[k] = ms[k - 1] /\ k - 1 \in 1 .. Len(Listed) - 1
  <2>1. k - Len(one) \in DOMAIN ms /\ nodes[k] = ms[k - Len(one)]
    BY <1>3, <1>5, <1>10 DEF Joins
  <2> QED
    BY <1>2, <1>3, <1>7, <2>1
<1> QED
  BY <1>7, <1>8, <1>9, <1>10

AreModules(nodes) == nodes \in Seq(AllNodes) /\ \A k \in DOMAIN nodes : Node(nodes[k]).tag = "MODULE"
OwnNames(items, nodes) ==
  /\ IsSeq(items) /\ DOMAIN items = DOMAIN nodes
  /\ \A k \in DOMAIN nodes :
       /\ items[k].do = "gen" /\ items[k].node = nodes[k] /\ items[k].nth = 0
       /\ Own(items[k]) = {Named(Node(nodes[k]).name)} /\ Will(items[k]) = Own(items[k])
       /\ Wants(items[k]) = {}

LEMMA GensOwn ==
  ASSUME NEW nodes, AreModules(nodes), NEW t, NEW items, items = Gens(nodes, t)
  PROVE  OwnNames(items, nodes)
<1> USE DEF AreModules
<1>1. DOMAIN items = 1 .. Len(nodes) /\ Len(nodes) \in Nat /\ DOMAIN items = DOMAIN nodes
      /\ items = [k \in 1 .. Len(nodes) |-> items[k]]
  BY DEF Gens
<1>2. \A k \in DOMAIN nodes : items[k].do = "gen" /\ items[k].node = nodes[k] /\ items[k].nth = 0
  BY DEF Gens, Item
<1>3. IsSeq(items)
  BY <1>1, ListFacts
<1>4. ASSUME NEW k \in DOMAIN nodes
      PROVE  /\ Own(items[k]) = {Named(Node(nodes[k]).name)} /\ Will(items[k]) = Own(items[k])
             /\ Wants(items[k]) = {}
  <2>1. items[k].do = "gen" /\ items[k].node = nodes[k] /\ Node(items[k].node).tag = "MODULE"
    BY <1>2
  <2>2. Own(items[k]) = {Named(Node(nodes[k]).name)}
    <3> PICK x : x = items[k]
      OBVIOUS
    <3>1. Own(x) = {Named(Node(x.node).name)}
      BY <2>1 DEF Own, InLoop
    <3> QED
      BY <2>1, <3>1
  <2>3. Wants(items[k]) = {}
    BY <2>1 DEF Wants, InLoop
  <2>4. Will(items[k]) = Own(items[k])
    BY <2>1 DEF Will
  <2> QED
    BY <2>2, <2>3, <2>4
<1> QED
  BY <1>1, <1>2, <1>3, <1>4 DEF OwnNames

LEMMA FirstBooks ==
  ASSUME ProgramInv, NamesKnown, NamesFree,
         NEW items, items = Gens(<<prog.driver>> \o prog.modules, GlobalTable)
  PROVE  Accounted(Prelude, items, 0)
<1> PICK nodes : nodes = <<prog.driver>> \o prog.modules
  OBVIOUS
<1> DEFINE name(k) == Node(nodes[k]).name
<1>1. nodes \in Seq(AllNodes) /\ Tops = {nodes[k] : k \in DOMAIN nodes} /\ items = Gens(nodes, GlobalTable)
  BY DriverFirst
<1>2. Listed \in Seq(AllNodes) /\ Tops = {Listed[i] : i \in 1 .. Len(Listed)}
      /\ \A i \in 1 .. Len(Listed) : Node(Listed[i]).tag = "MODULE"
  BY ListedFacts
<1>3. /\ nodes[1] = prog.driver /\ DOMAIN nodes = 1 .. Len(Listed) /\ Len(Listed) \in Nat
      /\ 1 \in DOMAIN nodes /\ Listed[Len(Listed)] = prog.driver
      /\ \A k \in DOMAIN nodes : k # 1 => /\ k - 1 \in 1 .. Len(Listed) - 1
                                          /\ nodes[k] = Listed[k - 1]
                                          /\ k - 1 \in DOMAIN prog.modules
                                          /\ nodes[k] = prog.modules[k - 1]
  BY DriverOrder
<1>4. \A k \in DOMAIN nodes : Node(nodes[k]).tag = "MODULE"
  <2> SUFFICES ASSUME NEW k \in DOMAIN nodes PROVE Node(nodes[k]).tag = "MODULE"
    OBVIOUS
  <2>1. nodes[k] \in Tops
    BY <1>1
  <2>2. PICK i \in 1 .. Len(Listed) : nodes[k] = Listed[i]
    BY <1>2, <2>1
  <2> QED
    BY <1>2, <2>2
<1>5. /\ IsSeq(items) /\ DOMAIN items = DOMAIN nodes
      /\ \A k \in DOMAIN nodes : /\ Own(items[k]) = {Named(name(k))} /\ Will(items[k]) = {Named(name(k))}
                                 /\ Wants(items[k]) = {}
  <2>1. AreModules(nodes)
    BY <1>1, <1>4 DEF AreModules
  <2>2. OwnNames(items, nodes)
    BY <1>1, <2>1, GensOwn
  <2> QED
    BY <2>2 DEF OwnNames
<1>6. name(1) = "DRIVER"
  BY <1>3 DEF ProgramInv, WellFormed, Node
<1>7. ASSUME NEW k \in DOMAIN nodes PROVE name(k) \notin Reserved \cup DOMAIN NumberSpelt
  <2>1. CASE k = 1
    BY <1>6, <2>1, StartKnown
  <2>2. CASE k # 1
    BY <1>3, <2>2 DEF NamesFree
  <2> QED
    BY <2>1, <2>2
<1>8. ASSUME NEW i \in DOMAIN nodes, NEW j \in DOMAIN nodes, i # j PROVE name(i) # name(j)
  <2> DEFINE at(k) == IF k = 1 THEN Len(Listed) ELSE k - 1
  <2>1. \A k \in DOMAIN nodes : at(k) \in 1 .. Len(Listed) /\ name(k) = NameAt(at(k))
    BY <1>3 DEF NameAt
  <2>2. at(i) # at(j)
    BY <1>3, <1>8
  <2> HIDE DEF at, name
  <2> QED
    BY <2>1, <2>2 DEF NamesKnown, Distinct
<1>9. \A x \in DOMAIN table[GlobalTable].entry : \E k \in DOMAIN nodes : x = name(k)
  <2> SUFFICES ASSUME NEW x \in DOMAIN table[GlobalTable].entry PROVE \E k \in DOMAIN nodes : x = name(k)
    OBVIOUS
  <2>1. PICK i \in 1 .. Len(Listed) : x = NameAt(i)
    BY DEF NamesKnown
  <2>2. PICK k \in DOMAIN nodes : nodes[k] = Listed[i]
    BY <1>1, <1>2
  <2> QED
    BY <2>1, <2>2 DEF NameAt
<1> HIDE DEF name
<1>10. /\ IsSeq(Prelude) /\ AreLabels(Prelude) /\ PlacedOnce(Prelude)
       /\ LabelsOf(Prelude) = {Named(x) : x \in Reserved} /\ GoalsOf(Prelude) = {Named("DRIVER")}
  BY PreludeEmits DEF Emits
<1>11. Willed(items) = {Named(name(k)) : k \in DOMAIN nodes} /\ Owns(items) = {Named(name(k)) : k \in DOMAIN nodes}
  <2>1. \A k \in DOMAIN items : Own(items[k]) = {Named(name(k))} /\ Will(items[k]) = {Named(name(k))}
    BY <1>5
  <2>2. Willed(items) = {Named(name(k)) : k \in DOMAIN items}
    BY <2>1 DEF Willed
  <2>3. Owns(items) = {Named(name(k)) : k \in DOMAIN items}
    BY <2>1 DEF Owns
  <2> QED
    BY <1>5, <2>2, <2>3
<1>12. Wanted(items) = {}
  <2> SUFFICES ASSUME NEW x \in Wanted(items) PROVE FALSE
    OBVIOUS
  <2>1. PICK k \in DOMAIN items : x \in Wants(items[k])
    BY Unfolded
  <2> QED
    BY <1>5, <2>1
<1>13. \A x \in Reserved : x \notin DOMAIN NumberSpelt
  BY NumbersSpelt
<1>14. "exit_array_error" \in Reserved
  BY DEF Reserved, StartNames
<1>15. Fixed \subseteq Sure(Prelude, items)
  BY <1>9, <1>10, <1>11, <1>14 DEF Fixed, Sure
<1>16. GoalsOf(Prelude) \subseteq Sure(Prelude, items)
  BY <1>3, <1>6, <1>10, <1>11 DEF Sure
<1>17. Apart(Owns(items), LabelsOf(Prelude))
  BY <1>7, <1>10, <1>11, <1>13, PlainNames DEF Apart
<1>18. Separate(items)
  <2> SUFFICES ASSUME NEW i \in DOMAIN items, NEW j \in DOMAIN items, i # j
               PROVE  Apart(Own(items[i]), Own(items[j]))
    BY DEF Separate
  <2>1. Own(items[i]) = {Named(name(i))} /\ Own(items[j]) = {Named(name(j))} /\ name(i) # name(j)
    BY <1>5, <1>8
  <2>2. name(i) \notin DOMAIN NumberSpelt /\ name(j) \notin DOMAIN NumberSpelt
    BY <1>5, <1>7
  <2> QED
    BY <2>1, <2>2, PlainNames DEF Apart
<1>19. Older(LabelsOf(Prelude) \cup Owns(items), 0)
  BY <1>7, <1>10, <1>11, <1>13, PlainNames DEF Older
<1> QED
  BY <1>10, <1>12, <1>15, <1>16, <1>17, <1>18, <1>19 DEF Accounted

LEMMA ThirdBegins ==
  ASSUME SecondInv, NamesFree, BeginGenerate, phase' = "generate", code = << >>, labels = 0
  PROVE  ThirdInv'
<1>1. /\ todo = << >> /\ code' = code \o Prelude /\ labels' = 0
      /\ todo' = Gens(<<prog.driver>> \o prog.modules, GlobalTable)
      /\ prog' = prog /\ table' = table /\ note' = note
  BY DEF BeginGenerate, Emit
<1>2. Grounds'
  BY <1>1, GroundsKept DEF SecondInv
<1>3. ProgramInv /\ NamesKnown
  BY DEF SecondInv, Grounds
<1>4. Accounted(Prelude, todo', 0)
  BY <1>1, <1>3, FirstBooks
<1>5. code' = Prelude
  <2>1. IsSeq(Prelude)
    BY PreludeEmits DEF Emits
  <2>2. << >> \o Prelude = Prelude
    BY <2>1, NoInstruction
  <2> QED
    BY <1>1, <2>2
<1>6. Accounted(code, todo, labels)'
  BY <1>1, <1>4, <1>5, AccountedKept
<1>7. PICK V : Spread(V, {}) /\ \A n \in V : Resolved(n)
  BY DEF SecondInv, Grounds, Walked
<1>8. PICK W : Spread(W, {}) /\ Judged(W)
  <2>1. Pending({"check"}) = {}
    BY <1>1 DEF Pending
  <2> QED
    BY <2>1 DEF SecondInv, Checked
<1>9. PICK D : D = V \cap W
  OBVIOUS
<1>10. Spread(D, {})
  BY <1>7, <1>8, <1>9 DEF Spread
<1>11. \A n \in D : Good(n)
  BY <1>7, <1>8, <1>9 DEF Judged, Good, Resolved, Naming, Known
<1>12. Spread(D, {})'
  BY <1>1, <1>10, SpreadKept
<1>13. /\ AllNodes' = AllNodes /\ (\A n : Good(n)' = Good(n) /\ Node(n)' = Node(n))
       /\ \A item, k : SwitchLabel(item, k)' = SwitchLabel(item, k)
  BY <1>1, ItemsKept
<1>14. Trusted(D)'
  BY <1>11, <1>12, <1>13 DEF Trusted
<1> PICK nodes : nodes = <<prog.driver>> \o prog.modules
  OBVIOUS
<1>15. nodes \in Seq(AllNodes) /\ Tops = {nodes[k] : k \in DOMAIN nodes} /\ todo' = Gens(nodes, GlobalTable)
  BY <1>1, <1>3, DriverFirst
<1>16. OwnNames(todo', nodes)
  <2> SUFFICES \A k \in DOMAIN nodes : Node(nodes[k]).tag = "MODULE"
    BY <1>15, GensOwn DEF AreModules
  <2> SUFFICES ASSUME NEW k \in DOMAIN nodes PROVE Node(nodes[k]).tag = "MODULE"
    OBVIOUS
  <2>1. nodes[k] \in Tops
    BY <1>15
  <2>2. PICK i \in 1 .. Len(Listed) : nodes[k] = Listed[i]
    BY <1>3, <2>1, ListedFacts
  <2> QED
    BY <1>3, <2>2, ListedFacts
<1>17. ASSUME NEW k \in DOMAIN todo' PROVE Sound(todo'[k], D)
  <2>1. k \in DOMAIN nodes /\ todo'[k].do = "gen" /\ todo'[k].node = nodes[k] /\ todo'[k].nth = 0
    BY <1>16 DEF OwnNames
  <2>2. nodes[k] \in D
    BY <1>10, <1>15, <2>1 DEF Spread
  <2>3. nodes[k] \in AllNodes
    BY <1>10, <2>2 DEF Spread
  <2>4. todo'[k].nth \in Nat
    <3>1. todo'[k].nth = 0 /\ 0 \in Nat
      BY <2>1
    <3> QED
      BY ONLY <3>1
  <2> QED
    BY <2>1, <2>2, <2>3, <2>4 DEF Sound
<1>18. \A k \in DOMAIN todo' : Sound(todo[k], D)'
  BY <1>13, <1>17 DEF Sound
<1>19. Settled(D)'
  BY <1>14, <1>18 DEF Settled
<1> QED
  BY <1>2, <1>6, <1>16, <1>19 DEF ThirdInv, OwnNames

-----------------------------------------------------------------------------
(* What is known of the item whose turn it is.                             *)
LEMMA ThirdWork ==
  ASSUME ThirdInv, NEW D, Settled(D), todo # << >>
  PROVE  /\ Sound(Work, D) /\ Work.node \in AllNodes /\ Work.nth \in Nat /\ labels \in Nat
         /\ IsSeq(code) /\ ProgramInv
         /\ Work.do = "gen" => Work.node \in D \/ Here.tag \in Expressions
         /\ Trusted(D)
<1>1. 1 \in DOMAIN todo /\ Work = todo[1]
  <2>1. IsSeq(todo)
    BY DEF ThirdInv
  <2> QED
    BY <2>1, EmptySeq, LenProperties DEF Work, IsSeq
<1>2. Sound(Work, D)
  BY <1>1 DEF Settled
<1> QED
  BY <1>2 DEF Sound, ThirdInv, Accounted, Grounds, Here, Settled

LEMMA SilentWork ==
  ASSUME \/ Work.do = "gen" /\ Here.tag # "MODULE"
         \/ Work.do \in {"element", "operator", "assign", "leave case", "leave module", "end arm"}
  PROVE  Own(Work) = {} /\ Will(Work) = {}
<1>1. Own(Work) = {}
  BY DEF Own, InLoop, Here
<1> QED
  BY <1>1 DEF Will

LEMMA ExpressionKids ==
  ASSUME ProgramInv, NEW n \in AllNodes, Node(n).tag \in {"ASSIGN", "ARRAY", "BINARY", "UNARY"}
  PROVE  /\ Node(n).kids \in Seq(AllNodes)
         /\ \A k \in DOMAIN Node(n).kids : Node(Node(n).kids[k]).tag \in Expressions
BY KidsFacts, ArityFacts DEF Branching

LEMMA GensOfExpressions ==
  ASSUME NEW nodes \in Seq(AllNodes), \A k \in DOMAIN nodes : Node(nodes[k]).tag \in Expressions,
         NEW D, NEW t
  PROVE  Quiet(Gens(nodes, t), D)
<1>1. \A k \in DOMAIN nodes : Node(nodes[k]).tag # "MODULE"
  BY DEF Expressions
<1> QED
  BY <1>1, GensQuiet

LEMMA SectionBody ==
  ASSUME ProgramInv, NEW D, Trusted(D), NEW n \in D, Node(n).tag \in Sections, NEW t
  PROVE  Quiet(Gens(Body(Node(n)), t), D)
<1> PICK body : body = Body(Node(n))
  OBVIOUS
<1>1. n \in AllNodes
  BY DEF Trusted, Spread
<1>2. body \in Seq(AllNodes) /\ \A k \in DOMAIN body : Node(body[k]).tag # "MODULE"
  BY <1>1, BodyFacts
<1>3. Parts(n) = {body[k] : k \in DOMAIN body} /\ Parts(n) \subseteq D
  BY DEF Parts, Trusted, Spread
<1>4. \A k \in DOMAIN body : body[k] \in D
  BY <1>3
<1>5. Quiet(Gens(body, t), D)
  BY <1>2, <1>4, GensQuiet
<1> QED
  BY <1>5

(* Steps that print nothing.                                               *)
LEMMA UnprintedMoves ==
  ASSUME NEW items, NEW D, Quiet(items, D), Call(items), code' = code, IsSeq(code),
         labels \in Nat, labels' = labels, Will(Work) = {}
  PROVE  Proceeds(D)
<1>1. Emits(<< >>, {}, {}) /\ code' = code \o << >>
  BY NoInstruction, PlainFacts
<1> QED
  BY <1>1, QuietMoves

LEMMA UnprintedSteps ==
  ASSUME ThirdInv, NEW D, Settled(D), GenNothing \/ GenArray \/ GenOperands \/ GenAssign
  PROVE  Proceeds(D)
<1> DEFINE n == Work.node
           kids == Node(n).kids
<1>1. /\ todo # << >> /\ Work.do = "gen" /\ code' = code /\ labels' = labels
      /\ Node(n).tag \in {"BOOL", "REAL", "ID", "DECLARE", "ARRAY", "BINARY", "UNARY", "ASSIGN"}
  BY DEF GenNothing, GenArray, GenOperands, GenAssign, GenAt, GenStep, Generating, codeVars, Here
<1>2. n \in AllNodes /\ labels \in Nat /\ IsSeq(code) /\ ProgramInv
  BY <1>1, ThirdWork
<1>3. Will(Work) = {}
  BY <1>1, SilentWork DEF Here
<1>4. CASE GenNothing
  <2>1. Call(<< >>)
    BY <1>4 DEF GenNothing
  <2> QED
    BY <1>1, <1>2, <1>3, <2>1, QuietNone, UnprintedMoves
<1>5. ASSUME NEW do \in {"element", "operator"}, Call(Gens(kids, Work.table) \o After(do, 0)),
             Node(n).tag \in {"ARRAY", "BINARY", "UNARY"}
      PROVE  Proceeds(D)
  <2>1. Quiet(Gens(kids, Work.table), D)
    BY <1>2, <1>5, ExpressionKids, GensOfExpressions
  <2>2. Quiet(Gens(kids, Work.table) \o After(do, 0), D)
    BY <1>2, <2>1, QuietAfter
  <2> QED
    BY <1>1, <1>2, <1>3, <1>5, <2>2, UnprintedMoves
<1>6. CASE GenArray \/ GenOperands
  <2>1. Node(n).tag \in {"ARRAY", "BINARY", "UNARY"}
    BY <1>6 DEF GenArray, GenOperands, GenAt, GenStep, Here
  <2>2. Call(Gens(kids, Work.table) \o After("element", 0))
        \/ Call(Gens(kids, Work.table) \o After("operator", 0))
    BY <1>6 DEF GenArray, GenOperands, Here
  <2> QED
    BY <1>5, <2>1, <2>2
<1>7. CASE GenAssign
  <2> PICK left : left = kids[1]
    OBVIOUS
  <2> PICK right : right = kids[2]
    OBVIOUS
  <2> DEFINE one == <<right>>
             index == IF Node(left).tag = "ARRAY" THEN Gens(Node(left).kids, Work.table) ELSE << >>
             first == Gens(one, Work.table)
  <2>1. Node(n).tag = "ASSIGN"
    BY <1>7 DEF GenAssign, GenAt, Here
  <2>2. /\ kids \in Seq(AllNodes) /\ \A k \in DOMAIN kids : Node(kids[k]).tag \in Expressions
    BY <1>2, <2>1, ExpressionKids
  <2>3. Len(kids) = 2
    BY <1>2, <2>1, ArityFacts
  <2>4. left \in AllNodes /\ right \in AllNodes /\ Node(right).tag \in Expressions
    BY <2>2, <2>3
  <2>5. Call(first \o index \o index \o After("assign", 0))
    BY <1>7 DEF GenAssign, Here
  <2>6. Quiet(first, D)
    <3>1. one \in Seq(AllNodes) /\ \A k \in DOMAIN one : Node(one[k]).tag \in Expressions
      BY <2>4
    <3> HIDE DEF one
    <3> QED
      BY <3>1, GensOfExpressions
  <2>7. Quiet(index, D)
    <3>1. CASE Node(left).tag = "ARRAY"
      <4>1. Quiet(Gens(Node(left).kids, Work.table), D)
        BY <1>2, <2>4, <3>1, ExpressionKids, GensOfExpressions
      <4> QED
        BY <3>1, <4>1
    <3>2. CASE Node(left).tag # "ARRAY"
      BY <3>2, QuietNone
    <3> QED
      BY <3>1, <3>2
  <2> HIDE DEF first, index, one
  <2>8. Quiet(first \o index \o index \o After("assign", 0), D)
    <3>1. Quiet(first \o index, D)
      BY <2>6, <2>7, QuietJoin
    <3>2. Quiet(first \o index \o index, D)
      BY <2>7, <3>1, QuietJoin
    <3> QED
      BY <1>2, <3>2, QuietAfter
  <2> QED
    BY <1>1, <1>2, <1>3, <2>5, <2>8, UnprintedMoves
<1> QED
  BY <1>4, <1>6, <1>7

-----------------------------------------------------------------------------
(* Steps that print instructions, but no labels.                           *)
LEMMA BlandFacts ==
  ASSUME NEW a, NEW b, NEW c
  PROVE  /\ Bland(Move(a)) /\ Bland(Copy(a, b)) /\ Bland(Align) /\ Bland(Push(a)) /\ Bland(Pop(a))
         /\ Bland(Load(a, b, c)) /\ Bland(Store(a, b, c)) /\ Bland(Put(a, b, c))
         /\ Bland(LoadBy(a, b)) /\ Bland(StoreBy(a, b)) /\ Bland(PutBy(a, b)) /\ Bland(Set(a, b))
         /\ Bland(Alu(a, b, c)) /\ Bland(Compare(a, b)) /\ Bland(CompareWith(a, b))
         /\ Bland(Ret) /\ Bland(PrintReg(a, b)) /\ Bland(Scan(a, b))
<1>1. /\ Move(a).op = "move" /\ Copy(a, b).op = "copy" /\ Align.op = "align"
      /\ Push(a).op = "push" /\ Pop(a).op = "pop"
  BY DEF Move, Copy, Align, Push, Pop
<1>2. /\ Load(a, b, c).op = "load" /\ Store(a, b, c).op = "store" /\ Put(a, b, c).op = "put"
      /\ LoadBy(a, b).op = "load by" /\ StoreBy(a, b).op = "store by" /\ PutBy(a, b).op = "put by"
      /\ Set(a, b).op = "set"
  BY DEF Load, Store, Put, LoadBy, StoreBy, PutBy, Set
<1>3. /\ Alu(a, b, c).op = "alu" /\ Compare(a, b).op = "compare"
      /\ CompareWith(a, b).op = "compare with" /\ Ret.op = "ret"
      /\ PrintReg(a, b).op = "print" /\ Scan(a, b).op = "scan"
  BY DEF Alu, Compare, CompareWith, Ret, PrintReg, Scan
<1>4. Bland(Move(a)) /\ Bland(Copy(a, b)) /\ Bland(Align) /\ Bland(Push(a)) /\ Bland(Pop(a))
  BY <1>1, BlandOp
<1>5. /\ Bland(Load(a, b, c)) /\ Bland(Store(a, b, c)) /\ Bland(Put(a, b, c))
      /\ Bland(LoadBy(a, b)) /\ Bland(StoreBy(a, b)) /\ Bland(PutBy(a, b)) /\ Bland(Set(a, b))
  BY <1>2, BlandOp
<1>6. /\ Bland(Alu(a, b, c)) /\ Bland(Compare(a, b)) /\ Bland(CompareWith(a, b))
      /\ Bland(Ret) /\ Bland(PrintReg(a, b)) /\ Bland(Scan(a, b))
  BY <1>3, BlandOp
<1> QED
  BY <1>4, <1>5, <1>6

(* Sequences of such instructions.                                         *)
Calm(s) == Emits(s, {}, {})

LEMMA CalmTuples ==
  ASSUME NEW a, Bland(a)
  PROVE  /\ Calm(<<a>>)
         /\ \A b : Bland(b) => Calm(<<a, b>>)
         /\ \A b, c : Bland(b) /\ Bland(c) => Calm(<<a, b, c>>)
         /\ \A b, c, d : Bland(b) /\ Bland(c) /\ Bland(d) => Calm(<<a, b, c, d>>)
<1>1. Calm(<<a>>)
  <2>1. Emits(<<a>>, Places(a), Aims(a))
    BY OneEmits DEF Bland
  <2> QED
    BY <2>1 DEF Bland, Calm
<1>2. ASSUME NEW b, Bland(b) PROVE Calm(<<a, b>>)
  <2>1. Apart(Places(a), Places(b))
    BY <1>2 DEF Bland, Apart
  <2>2. Emits(<<a, b>>, Places(a) \cup Places(b), Aims(a) \cup Aims(b))
    BY <1>2, <2>1, TwoEmit DEF Bland
  <2> QED
    BY <1>2, <2>2 DEF Bland, Calm
<1>3. ASSUME NEW b, NEW c, Bland(b), Bland(c) PROVE Calm(<<a, b, c>>)
  <2>1. Emits(<<a, b>>, {}, {}) /\ Tidy(c) /\ Places(c) = {} /\ Aims(c) = {} /\ Apart({}, Places(c))
    BY <1>2, <1>3 DEF Calm, Bland, Apart
  <2>2. Emits(<<a, b>> \o <<c>>, {} \cup Places(c), {} \cup Aims(c))
    BY <2>1, AppendEmits
  <2>3. <<a, b, c>> = <<a, b>> \o <<c>>
    BY Tuples
  <2> QED
    BY <2>1, <2>2, <2>3 DEF Calm
<1>4. ASSUME NEW b, NEW c, NEW d, Bland(b), Bland(c), Bland(d) PROVE Calm(<<a, b, c, d>>)
  <2>1. Emits(<<a, b, c>>, {}, {}) /\ Tidy(d) /\ Places(d) = {} /\ Aims(d) = {} /\ Apart({}, Places(d))
    BY <1>3, <1>4 DEF Calm, Bland, Apart
  <2>2. Emits(<<a, b, c>> \o <<d>>, {} \cup Places(d), {} \cup Aims(d))
    BY <2>1, AppendEmits
  <2>3. <<a, b, c, d>> = <<a, b, c>> \o <<d>>
    BY Tuples
  <2> QED
    BY <2>1, <2>2, <2>3 DEF Calm
<1> QED
  BY <1>1, <1>2, <1>3, <1>4

LEMMA CalmJoin ==
  ASSUME NEW s, NEW r, NEW p, NEW w, Calm(s), Emits(r, p, w)
  PROVE  Emits(s \o r, p, w) /\ Emits(r \o s, p, w)
<1>1. Emits(s \o r, {} \cup p, {} \cup w)
  BY CodeConcat DEF Calm
<1>2. Emits(r \o s, p \cup {}, w \cup {})
  BY CodeConcat DEF Calm
<1>3. {} \cup p = p /\ {} \cup w = w /\ p \cup {} = p /\ w \cup {} = w
  OBVIOUS
<1> QED
  BY <1>1, <1>2, <1>3

LEMMA CalmJoins ==
  ASSUME NEW s, NEW r, Calm(s), Calm(r)
  PROVE  Calm(s \o r)
<1>1. Emits(r, {}, {})
  BY DEF Calm
<1> QED
  BY <1>1, CalmJoin DEF Calm

LEMMA CalmPlain ==
  ASSUME NEW s
  PROVE  (Plain(s) <=> Calm(s)) /\ Calm(<< >>)
<1>1. Plain(s) => Calm(s)
  BY PlainFacts DEF Calm
<1>2. ASSUME Calm(s) PROVE Plain(s)
  <2>1. IsSeq(s) /\ LabelsOf(s) = {} /\ GoalsOf(s) = {}
    BY <1>2 DEF Calm, Emits
  <2>2. ASSUME NEW i \in DOMAIN s PROVE s[i].op \notin {"label", "jump", "call"}
    <3>1. s[i].op = "label" => s[i].label \in LabelsOf(s)
      BY DEF LabelsOf
    <3>2. s[i].op \in {"jump", "call"} => s[i].label \in GoalsOf(s)
      BY DEF GoalsOf
    <3> QED
      BY <2>1, <3>1, <3>2
  <2> QED
    BY <2>1, <2>2 DEF Plain
<1>3. Calm(<< >>)
  BY NoInstruction, PlainFacts DEF Calm
<1> QED
  BY <1>1, <1>2, <1>3

LEMMA CalmMoves ==
  ASSUME NEW items, NEW D, Quiet(items, D), Call(items), NEW s, Calm(s), code' = code \o s,
         labels \in Nat, labels' = labels, Will(Work) = {}
  PROVE  Proceeds(D)
<1>1. Emits(s, {}, {}) /\ {} \subseteq Fixed \cup Wants(Work)
  BY DEF Calm
<1> QED
  BY <1>1, QuietMoves

LEMMA AddressEmits ==
  ASSUME NEW array
  PROVE  Emits(AddressInR8(array), {}, {Named("exit_array_error")})
<1> DEFINE index == Node(array).kids[1]
           en == Lookup(Work.table, Node(array).name)
<1> PICK a : a = IF Node(index).tag = "INT" THEN Set("r8", Node(index).value)
                 ELSE Load("r8", OffsetOf(index), 2)
  OBVIOUS
<1> PICK b : b = CompareWith("r8", en.type.low)
  OBVIOUS
<1> PICK c : c = Jump("l", Named("exit_array_error"))
  OBVIOUS
<1> PICK d : d = CompareWith("r8", en.type.high)
  OBVIOUS
<1> PICK e : e = Jump("g", Named("exit_array_error"))
  OBVIOUS
<1> PICK f : f = [op |-> "scale", low |-> en.type.low, base |-> ElementBase(en)]
  OBVIOUS
<1>1. AddressInR8(array) = <<a, b, c, d, e, f>>
  BY DEF AddressInR8
<1>2. Bland(a)
  BY BlandFacts
<1>3. Bland(b) /\ Bland(d)
  BY BlandFacts
<1>4. Bland(f)
  <2>1. f.op = "scale"
    OBVIOUS
  <2> QED
    BY <2>1, BlandOp
<1>5. Tidy(c) /\ Places(c) = {} /\ Aims(c) = {Named("exit_array_error")}
  BY LabelFacts
<1>6. Tidy(e) /\ Places(e) = {} /\ Aims(e) = {Named("exit_array_error")}
  BY LabelFacts
<1> HIDE DEF index, en
<1>7. /\ Tidy(a) /\ Tidy(b) /\ Tidy(d) /\ Tidy(f)
      /\ Places(a) = {} /\ Places(b) = {} /\ Places(d) = {} /\ Places(f) = {}
      /\ Aims(a) = {} /\ Aims(b) = {} /\ Aims(d) = {} /\ Aims(f) = {}
  BY <1>2, <1>3, <1>4 DEF Bland
<1>8. /\ Apart(Places(a), Places(b))
      /\ Apart(Places(a) \cup Places(b), Places(c))
      /\ Apart(Places(a) \cup Places(b) \cup Places(c), Places(d))
      /\ Apart(Places(a) \cup Places(b) \cup Places(c) \cup Places(d), Places(e))
      /\ Apart(Places(a) \cup Places(b) \cup Places(c) \cup Places(d) \cup Places(e), Places(f))
  BY <1>5, <1>6, <1>7 DEF Apart
<1>9. Emits(<<a, b, c, d, e, f>>,
            Places(a) \cup Places(b) \cup Places(c) \cup Places(d) \cup Places(e) \cup Places(f),
            Aims(a) \cup Aims(b) \cup Aims(c) \cup Aims(d) \cup Aims(e) \cup Aims(f))
  BY SMTT(30), <1>5, <1>6, <1>7, <1>8, SixEmit
<1>10. /\ Places(a) \cup Places(b) \cup Places(c) \cup Places(d) \cup Places(e) \cup Places(f) = {}
       /\ Aims(a) \cup Aims(b) \cup Aims(c) \cup Aims(d) \cup Aims(e) \cup Aims(f) = {Named("exit_array_error")}
  BY <1>5, <1>6, <1>7
<1> QED
  BY <1>1, <1>9, <1>10

LEMMA OperandCalm ==
  ASSUME NEW n, NEW reg, NEW form
  PROVE  Calm(Operand(n, reg, form))
<1> PICK a : a = Set(reg, Node(n).value)
  OBVIOUS
<1> PICK b : b = Load(reg, Printed(OffsetOf(n)), SizeOf[form])
  OBVIOUS
<1>1. Calm(<<a>>) /\ Calm(<<b>>) /\ Calm(<< >>)
  BY BlandFacts, CalmTuples, CalmPlain
<1>2. Operand(n, reg, form) \in {<< >>, <<a>>, <<b>>}
  BY DEF Operand
<1> QED
  BY <1>1, <1>2

LEMMA OperandsCalm ==
  ASSUME NEW form
  PROVE  Calm(Operands(form))
<1> PICK a : a = Operand(Here.kids[1], "r8", form)
  OBVIOUS
<1> PICK b : b = Operand(Here.kids[2], "r9", form)
  OBVIOUS
<1>1. Calm(a) /\ Calm(b)
  BY OperandCalm
<1>2. Calm(a \o b)
  BY <1>1, CalmJoins
<1> QED
  BY <1>2 DEF Operands

LEMMA CalmStep ==
  ASSUME ThirdInv, NEW D, Settled(D), todo # << >>, Call(<< >>), labels' = labels,
         NEW s, Calm(s), code' = code \o s,
         \/ Work.do = "gen" /\ Here.tag # "MODULE"
         \/ Work.do \in {"element", "operator", "assign", "leave case", "leave module", "end arm"}
  PROVE  Proceeds(D)
<1>1. labels \in Nat /\ Will(Work) = {} /\ Quiet(<< >>, D)
  BY ThirdWork, SilentWork, QuietNone
<1> QED
  BY <1>1, CalmMoves

LEMMA LiteralStep ==
  ASSUME ThirdInv, NEW D, Settled(D), GenLiteral
  PROVE  Proceeds(D)
<1>1. todo # << >> /\ Work.do = "gen" /\ Here.tag = "INT" /\ Call(<< >>) /\ labels' = labels
  BY DEF GenLiteral, GenAt, GenStep, Generating
<1> PICK s : s = <<Move(-2), Set("r8", Here.value), Store(NextOffset(2), 2, "r8")>>
  OBVIOUS
<1>2. code' = code \o s
  BY DEF GenLiteral, Emit
<1>3. Bland(Move(-2)) /\ Bland(Set("r8", Here.value)) /\ Bland(Store(NextOffset(2), 2, "r8"))
  BY BlandFacts
<1>4. Calm(s)
  BY <1>3, CalmTuples
<1> QED
  BY <1>1, <1>2, <1>4, CalmStep

LEMMA ElementStep ==
  ASSUME ThirdInv, NEW D, Settled(D), GenElement
  PROVE  Proceeds(D)
<1>1. todo # << >> /\ Work.do = "element" /\ Call(<< >>) /\ labels' = labels
  BY DEF GenElement, GenStep, Generating
<1> PICK s : s = AddressInR8(Work.node)
  OBVIOUS
<1> PICK r : r = <<Move(-2), LoadBy("r11", "r8"), Store(NextOffset(2), 2, "r11")>>
  OBVIOUS
<1>2. code' = code \o (s \o r)
  BY DEF GenElement, Emit
<1>3. Bland(Move(-2)) /\ Bland(LoadBy("r11", "r8")) /\ Bland(Store(NextOffset(2), 2, "r11"))
  BY BlandFacts
<1>4. Calm(r)
  BY <1>3, CalmTuples
<1>5. Emits(s, {}, {Named("exit_array_error")})
  BY AddressEmits
<1>6. Emits(s \o r, {}, {Named("exit_array_error")})
  BY <1>4, <1>5, CalmJoin
<1>7. {Named("exit_array_error")} \subseteq Fixed \cup Wants(Work)
  BY DEF Fixed
<1>8. labels \in Nat /\ Will(Work) = {} /\ Quiet(<< >>, D)
  BY <1>1, ThirdWork, SilentWork, QuietNone
<1> QED
  BY <1>1, <1>2, <1>6, <1>7, <1>8, QuietMoves

LEMMA ArithmeticStep ==
  ASSUME ThirdInv, NEW D, Settled(D), GenArithmetic
  PROVE  Proceeds(D)
<1>1. todo # << >> /\ Work.do = "operator" /\ Call(<< >>) /\ labels' = labels
  BY DEF GenArithmetic, GenStep, Generating
<1> PICK s : s = Arithmetic(Here.op)
  OBVIOUS
<1> PICK r : r = <<Move(-2), Store(NextOffset(2), 2, "r9")>>
  OBVIOUS
<1> PICK t : t = Operands("INTEGER")
  OBVIOUS
<1>2. code' = code \o (t \o s \o r) \/ code' = code \o (t \o s)
  BY DEF GenArithmetic, Emit
<1>3. Bland(Move(-2)) /\ Bland(Store(NextOffset(2), 2, "r9"))
  BY BlandFacts
<1>4. Calm(r)
  BY <1>3, CalmTuples
<1>5. Calm(s)
  <2>1. /\ Bland(Alu("add", "r9", "r8")) /\ Bland(Alu("imul", "r9", "r8"))
        /\ Bland(Alu("sub", "r8", "r9")) /\ Bland(Copy("r9", "r8"))
    BY BlandFacts
  <2>2. /\ Calm(<<Alu("add", "r9", "r8")>>) /\ Calm(<<Alu("imul", "r9", "r8")>>)
        /\ Calm(<<Alu("sub", "r8", "r9"), Copy("r9", "r8")>>)
    BY <2>1, CalmTuples
  <2>3. \/ s = <<Alu("add", "r9", "r8")>> \/ s = <<Alu("imul", "r9", "r8")>>
        \/ s = <<Alu("sub", "r8", "r9"), Copy("r9", "r8")>>
    BY DEF Arithmetic
  <2> QED
    BY <2>2, <2>3
<1>6. Calm(t \o s)
  BY <1>5, OperandsCalm, CalmJoins
<1>7. Calm(t \o s \o r)
  BY <1>4, <1>6, CalmJoins
<1> QED
  BY <1>1, <1>2, <1>6, <1>7, CalmStep

LEMMA OperandsOnlyStep ==
  ASSUME ThirdInv, NEW D, Settled(D), GenOperandsOnly
  PROVE  Proceeds(D)
<1>1. todo # << >> /\ Work.do = "operator" /\ Call(<< >>) /\ labels' = labels
  BY DEF GenOperandsOnly, GenStep, Generating
<1> PICK s : s = Operands("INTEGER")
  OBVIOUS
<1>2. code' = code \o s
  BY DEF GenOperandsOnly, Emit
<1>3. Calm(s)
  BY OperandsCalm
<1> QED
  BY <1>1, <1>2, <1>3, CalmStep

LEMMA UnaryStep ==
  ASSUME ThirdInv, NEW D, Settled(D), GenUnary
  PROVE  Proceeds(D)
<1>1. todo # << >> /\ Work.do = "operator" /\ Call(<< >>) /\ labels' = labels
  BY DEF GenUnary, GenStep, Generating
<1>2. CASE Here.op = "PLUS" \/ result[Work.node].form # "INTEGER"
  <2>1. code' = code
    BY <1>2 DEF GenUnary
  <2>2. code' = code \o << >>
    BY <1>1, <2>1, ThirdWork, NoInstruction
  <2>3. Calm(<< >>)
    BY CalmPlain
  <2> QED
    BY <1>1, <2>2, <2>3, CalmStep
<1>3. CASE Here.op # "PLUS" /\ result[Work.node].form = "INTEGER"
  <2> PICK off : off = OffsetOf(Here.kids[1])
    OBVIOUS
  <2> PICK s : s = <<Load("r8", off, 2), Alu("neg", "r8", "r8"),
                     Move(-2), Store(NextOffset(2), 2, "r8")>>
    OBVIOUS
  <2>1. code' = code \o s
    BY <1>3 DEF GenUnary, Emit
  <2>2. /\ Bland(Load("r8", off, 2)) /\ Bland(Alu("neg", "r8", "r8"))
        /\ Bland(Move(-2)) /\ Bland(Store(NextOffset(2), 2, "r8"))
    BY BlandFacts
  <2>3. Calm(s)
    BY <2>2, CalmTuples
  <2> QED
    BY <1>1, <2>1, <2>3, CalmStep
<1> QED
  BY <1>2, <1>3

(* Assignments.                                                            *)
LEMMA LiteralCalm ==
  ASSUME NEW left, NEW right
  PROVE  Calm(StoreLiteral(left, right))
<1> PICK a : a = Put(OffsetOf(left), 1, Node(right).value)
  OBVIOUS
<1> PICK b : b = PutBy("r8", Node(right).value)
  OBVIOUS
<1> PICK c : c = Put(OffsetOf(left), 2, Node(right).value)
  OBVIOUS
<1>1. Calm(<<a>>) /\ Calm(<<b>>) /\ Calm(<<c>>)
  BY BlandFacts, CalmTuples
<1>2. StoreLiteral(left, right) \in {<<a>>, <<b>>, <<c>>}
  BY DEF StoreLiteral
<1> QED
  BY <1>1, <1>2

LEMMA ValueCalm ==
  ASSUME NEW left, NEW right
  PROVE  Calm(StoreValue(left, right))
<1> PICK form : form = TypeOf(right).form
  OBVIOUS
<1> PICK a : a = Load("r12", Printed(OffsetOf(right)), 2)
  OBVIOUS
<1> PICK b : b = StoreBy("r8", "r12")
  OBVIOUS
<1> PICK c : c = Load("r8", Printed(OffsetOf(right)), SizeOf[form])
  OBVIOUS
<1> PICK d : d = Store(Printed(OffsetOf(left)), SizeOf[form], "r8")
  OBVIOUS
<1>1. Bland(a) /\ Bland(b) /\ Bland(c) /\ Bland(d)
  BY BlandFacts
<1>2. Calm(<<a, b>>) /\ Calm(<<c, d>>) /\ Calm(<< >>)
  BY <1>1, CalmTuples, CalmPlain
<1>3. StoreValue(left, right) \in {<< >>, <<a, b>>, <<c, d>>}
  BY DEF StoreValue
<1> QED
  BY <1>2, <1>3

LEMMA StoreStep ==
  ASSUME ThirdInv, NEW D, Settled(D), GenStore
  PROVE  Proceeds(D)
<1>1. todo # << >> /\ Work.do = "assign" /\ Call(<< >>) /\ labels' = labels
  BY DEF GenStore, GenStep, Generating
<1> PICK left : left = Here.kids[1]
  OBVIOUS
<1> PICK right : right = Here.kids[2]
  OBVIOUS
<1> PICK r : r = IF IsLiteral(right) THEN StoreLiteral(left, right) ELSE StoreValue(left, right)
  OBVIOUS
<1>2. Calm(r)
  <2>1. Calm(StoreLiteral(left, right))
    BY LiteralCalm
  <2>2. Calm(StoreValue(left, right))
    BY ValueCalm
  <2> QED
    BY <2>1, <2>2
<1>3. CASE Node(left).tag = "ARRAY"
  <2> PICK s : s = AddressInR8(left)
    OBVIOUS
  <2>1. code' = code \o (s \o r)
    BY <1>3 DEF GenStore, Emit
  <2>2. Emits(s \o r, {}, {Named("exit_array_error")})
    BY <1>2, AddressEmits, CalmJoin
  <2>3. {Named("exit_array_error")} \subseteq Fixed \cup Wants(Work)
    BY DEF Fixed
  <2>4. labels \in Nat /\ Will(Work) = {} /\ Quiet(<< >>, D)
    BY <1>1, ThirdWork, SilentWork, QuietNone
  <2> QED
    BY <1>1, <2>1, <2>2, <2>3, <2>4, QuietMoves
<1>4. CASE Node(left).tag # "ARRAY"
  <2> PICK e : e = << >>
    OBVIOUS
  <2>1. code' = code \o (e \o r)
    BY <1>4 DEF GenStore, Emit
  <2>2. Calm(e)
    BY CalmPlain
  <2>3. Calm(e \o r)
    BY <1>2, <2>2, CalmJoins
  <2> QED
    BY <1>1, <2>1, <2>3, CalmStep
<1> QED
  BY <1>3, <1>4

(* Pieces that print no labels; of a reversed array there are none.        *)
LEMMA CalmFlatten ==
  ASSUME NEW m \in Int, NEW seqs, seqs = [i \in 1 .. m |-> seqs[i]],
         \A i \in 1 .. m : Calm(seqs[i])
  PROVE  Calm(FlattenSeq(seqs))
<1>1. PICK n \in Nat : 1 .. m = 1 .. n
  <2>1. CASE m \in Nat
    BY <2>1
  <2>2. CASE m \notin Nat
    <3>1. 1 .. m = 1 .. 0
      BY <2>2
    <3> QED
      BY <3>1
  <2> QED
    BY <2>1, <2>2
<1>2. seqs = [i \in 1 .. n |-> seqs[i]]
  BY <1>1
<1>3. \A i \in 1 .. n : Plain(seqs[i])
  BY <1>1, CalmPlain
<1>4. Plain(FlattenSeq(seqs))
  BY <1>2, <1>3, PlainFlatten
<1> QED
  BY <1>4, CalmPlain

LEMMA AlignedCalm ==
  ASSUME NEW s, Calm(s)
  PROVE  Calm(Aligned(s))
<1> PICK a : a = Copy("rbx", "rsp")
  OBVIOUS
<1> PICK b : b = Align
  OBVIOUS
<1> PICK c : c = Copy("rsp", "rbx")
  OBVIOUS
<1>1. Bland(a) /\ Bland(b) /\ Bland(c)
  BY BlandFacts
<1>2. Calm(<<a, b>>) /\ Calm(<<c>>)
  BY <1>1, CalmTuples
<1>3. Calm(<<a, b>> \o s)
  BY <1>2, CalmJoins
<1>4. Calm(<<a, b>> \o s \o <<c>>)
  BY <1>2, <1>3, CalmJoins
<1> QED
  BY <1>4 DEF Aligned

LEMMA OneAligned ==
  ASSUME NEW x, Bland(x)
  PROVE  /\ Calm(Aligned(<<x>>)) /\ Calm(Aligned(<< >>))
         /\ \A y : Bland(y) => Calm(Aligned(<<x, y>>))
<1>1. Calm(<<x>>) /\ Calm(<< >>) /\ \A y : Bland(y) => Calm(<<x, y>>)
  BY CalmTuples, CalmPlain
<1> QED
  BY <1>1, AlignedCalm

(* Reading: the array is found where the semantic walk found it.           *)
LEMMA ReadStep ==
  ASSUME ThirdInv, NEW D, Settled(D), GenGetValue
  PROVE  Proceeds(D)
<1> DEFINE n == Work.node
<1> PICK type : type = note[n].type
  OBVIOUS
<1> PICK e : e = Lookup(note[n].table, Node(n).name)
  OBVIOUS
<1> PICK size : size = SizeOf[type.form]
  OBVIOUS
<1>1. /\ todo # << >> /\ Work.do = "gen" /\ Here.tag = "GET_VALUE" /\ Call(<< >>) /\ labels' = labels
      /\ Node(n).tag = "GET_VALUE"
  BY DEF GenGetValue, GenAt, GenStep, Generating, Here
<1>2. n \in AllNodes /\ Grounds
  BY <1>1, ThirdWork DEF ThirdInv
<1> DEFINE elements == ElementsOf(e, e.type)
           pieces == [i \in DOMAIN elements |-> Aligned(<<Scan(elements[i], 2)>>)]
<1> PICK s : s = CASE type.form \in {"INTEGER", "BOOLEAN"} -> Aligned(<<Scan(e.offset, size)>>)
                   [] type.form = "REAL" -> Aligned(<< >>)
                   [] type.form = "ARRAY" /\ e.type.form = "ARRAY" /\ e.type.elem = "INTEGER" ->
                        FlattenSeq(pieces)
                   [] OTHER -> << >>
  OBVIOUS
<1>3. code' = code \o s
  BY DEF GenGetValue, Emit, Here
<1>4. Calm(Aligned(<<Scan(e.offset, size)>>)) /\ Calm(Aligned(<< >>)) /\ Calm(<< >>)
  <2>1. Bland(Scan(e.offset, size))
    BY BlandFacts
  <2> QED
    BY <2>1, OneAligned, CalmPlain
<1>5. ASSUME type.form = "ARRAY", e.type.form = "ARRAY" PROVE Calm(FlattenSeq(pieces))
  <2>1. note[n].table \in DOMAIN table /\ HoldersOf(note[n].table, Node(n).name) # {}
    BY <1>1, <1>2, <1>5 DEF Grounds, NotesTyped, NoteTyped
  <2> PICK h : h = Holder(note[n].table, Node(n).name)
    OBVIOUS
  <2>2. h \in DOMAIN table /\ Node(n).name \in DOMAIN table[h].entry
    BY <1>2, <2>1, HolderFacts DEF Grounds
  <2>3. e = table[h].entry[Node(n).name]
    BY DEF Lookup
  <2>4. TypedEntry(e)
    BY <1>2, <2>2, <2>3 DEF Grounds, TypedTables, TypedTable
  <2>5. e.type.low \in Int /\ e.type.high \in Int
    BY <1>5, <2>4 DEF TypedEntry, TypedType
  <2> PICK m : m = Extent(e.type.low, e.type.high)
    OBVIOUS
  <2>6. m \in Int
    <3> PICK low : low = e.type.low
      OBVIOUS
    <3> PICK high : high = e.type.high
      OBVIOUS
    <3>1. low \in Int /\ high \in Int /\ m = high - low + 1
      BY <2>5 DEF Extent
    <3> QED
      BY ONLY <3>1
  <2>7. DOMAIN elements = 1 .. m
    BY DEF ElementsOf
  <2>8. \A i \in DOMAIN elements : Calm(Aligned(<<Scan(elements[i], 2)>>))
    BY BlandFacts, OneAligned
  <2> HIDE DEF elements
  <2>9. DOMAIN pieces = 1 .. m /\ pieces = [i \in 1 .. m |-> pieces[i]]
        /\ \A i \in 1 .. m : Calm(pieces[i])
    BY <2>7, <2>8
  <2> HIDE DEF pieces
  <2> QED
    BY <2>6, <2>9, CalmFlatten
<1> HIDE DEF pieces
<1>6. Calm(s)
  BY <1>4, <1>5
<1> QED
  BY <1>1, <1>3, <1>6, CalmStep

(* Printing.                                                               *)
LEMMA ShownCalm ==
  ASSUME Grounds, NEW n \in AllNodes
  PROVE  Calm(Shown(n))
<1> PICK type : type = note[n].type
  OBVIOUS
<1> PICK e : e = Lookup(Work.table, Node(n).name)
  OBVIOUS
<1> PICK v : v = Node(n).value
  OBVIOUS
<1> PICK off : off = Printed(note[n].offset)
  OBVIOUS
<1> PICK size : size = SizeOf[type.form]
  OBVIOUS
<1> DEFINE elements == ElementsOf(e, type)
           pieces == [i \in DOMAIN elements |->
                        Aligned(<<Load("rsi", elements[i], 2), PrintReg("INTEGER", "rsi")>>)]
           number  == Aligned(<<Set("rsi", v), PrintReg("INTEGER", "rsi")>>)
           truth   == Aligned(<<Set("rsi", v), PrintReg("BOOLEAN", "rsi")>>)
           stored  == Aligned(<<Load("rax", off, size), PrintReg(type.form, "rax")>>)
<1>1. Shown(n) =
        CASE Node(n).tag = "INT"  -> number
          [] Node(n).tag = "BOOL" -> truth
          [] Node(n).tag = "ID" /\ type.form \in {"INTEGER", "BOOLEAN"} -> stored
          [] Node(n).tag = "ID" /\ type.form = "ARRAY" /\ type.elem = "INTEGER" -> FlattenSeq(pieces)
          [] OTHER -> << >>
  BY DEF Shown
<1>2. Calm(number) /\ Calm(truth) /\ Calm(stored) /\ Calm(<< >>)
  <2>1. /\ Bland(Set("rsi", v)) /\ Bland(PrintReg("INTEGER", "rsi"))
        /\ Bland(PrintReg("BOOLEAN", "rsi"))
        /\ Bland(Load("rax", off, size)) /\ Bland(PrintReg(type.form, "rax"))
    BY BlandFacts
  <2> QED
    BY <2>1, OneAligned, CalmPlain
<1>3. ASSUME type.form = "ARRAY" PROVE Calm(FlattenSeq(pieces))
  <2>1. type.low \in Int /\ type.high \in Int
    BY <1>3 DEF Grounds, NotesTyped, NoteTyped
  <2> PICK m : m = Extent(type.low, type.high)
    OBVIOUS
  <2>2. m \in Int
    <3> PICK low : low = type.low
      OBVIOUS
    <3> PICK high : high = type.high
      OBVIOUS
    <3>1. low \in Int /\ high \in Int /\ m = high - low + 1
      BY <2>1 DEF Extent
    <3> QED
      BY ONLY <3>1
  <2>3. DOMAIN elements = 1 .. m
    BY DEF ElementsOf
  <2>4. \A i \in DOMAIN elements :
          Calm(Aligned(<<Load("rsi", elements[i], 2), PrintReg("INTEGER", "rsi")>>))
    BY BlandFacts, OneAligned
  <2> HIDE DEF elements
  <2>5. DOMAIN pieces = 1 .. m /\ pieces = [i \in 1 .. m |-> pieces[i]]
        /\ \A i \in 1 .. m : Calm(pieces[i])
    BY <2>3, <2>4
  <2> HIDE DEF pieces
  <2> QED
    BY <2>2, <2>5, CalmFlatten
<1> HIDE DEF pieces, number, truth, stored
<1> QED
  BY <1>1, <1>2, <1>3

LEMMA PrintStep ==
  ASSUME ThirdInv, NEW D, Settled(D), GenPrint
  PROVE  Proceeds(D)
<1> DEFINE n == Work.node
<1>1. /\ todo # << >> /\ Work.do = "gen" /\ Here.tag = "PRINT" /\ Call(<< >>) /\ labels' = labels
      /\ Node(n).tag = "PRINT"
  BY DEF GenPrint, GenAt, GenStep, Generating, Here
<1>2. n \in AllNodes /\ Grounds /\ ProgramInv
  BY <1>1, ThirdWork DEF ThirdInv
<1>3. Node(n).kids[1] \in AllNodes
  <2>1. Node(n).kids \in Seq(AllNodes) /\ Node(n).kids # << >>
    <3>1. Node(n).kids \in Seq(AllNodes) /\ Len(Node(n).kids) = 1
      BY <1>1, <1>2, KidsFacts, ArityFacts
    <3> QED
      BY <3>1
  <2> PICK kids : kids = Node(n).kids
    OBVIOUS
  <2>2. 1 \in DOMAIN kids
    BY <2>1, EmptySeq, LenProperties
  <2> QED
    BY <2>1, <2>2
<1> PICK a : a = Push(Saved)
  OBVIOUS
<1> PICK b : b = Pop(Reverse(Saved))
  OBVIOUS
<1> PICK s : s = Shown(Node(n).kids[1])
  OBVIOUS
<1>4. code' = code \o (<<a>> \o s \o <<b>>)
  BY DEF GenPrint, Emit, Here
<1>5. Calm(<<a>>) /\ Calm(<<b>>)
  <2>1. Bland(a) /\ Bland(b)
    BY BlandFacts
  <2> QED
    BY <2>1, CalmTuples
<1>6. Calm(s)
  BY <1>2, <1>3, ShownCalm
<1>7. Calm(<<a>> \o s \o <<b>>)
  BY <1>5, <1>6, CalmJoins
<1> QED
  BY <1>1, <1>4, <1>7, CalmStep

(* Scopes of cases.                                                        *)
LEMMA CaseSteps ==
  ASSUME ThirdInv, NEW D, Settled(D), GenCase \/ LeaveCase
  PROVE  Proceeds(D)
<1> DEFINE n == Work.node
<1>1. CASE LeaveCase
  <2>1. todo # << >> /\ Work.do = "leave case" /\ Call(<< >>) /\ labels' = labels
    BY <1>1 DEF LeaveCase, GenStep, Generating
  <2> PICK a : a = Move(SpaceOf(owned[n]))
    OBVIOUS
  <2>2. code' = code \o <<a>>
    BY <1>1 DEF LeaveCase, Emit
  <2>3. Calm(<<a>>)
    BY BlandFacts, CalmTuples
  <2> QED
    BY <2>1, <2>2, <2>3, CalmStep
<1>2. CASE GenCase
  <2>1. /\ todo # << >> /\ Work.do = "gen" /\ Here.tag = "CASE" /\ labels' = labels
        /\ Call(Gens(Body(Node(n)), owned[n]) \o After("leave case", 0)) /\ Node(n).tag = "CASE"
    BY <1>2 DEF GenCase, GenAt, GenStep, Generating, Here
  <2> PICK a : a = Move(-SpaceOf(owned[n]))
    OBVIOUS
  <2>2. code' = code \o <<a>>
    BY <1>2 DEF GenCase, Emit
  <2>3. Calm(<<a>>)
    BY BlandFacts, CalmTuples
  <2>4. n \in D /\ n \in AllNodes /\ ProgramInv /\ Trusted(D) /\ labels \in Nat /\ Will(Work) = {}
    BY <2>1, ThirdWork, SilentWork DEF Expressions
  <2>5. Quiet(Gens(Body(Node(n)), owned[n]), D)
    BY <2>1, <2>4, SectionBody DEF Sections, Branching
  <2>6. Quiet(Gens(Body(Node(n)), owned[n]) \o After("leave case", 0), D)
    BY <2>4, <2>5, QuietAfter
  <2> QED
    BY <2>1, <2>2, <2>3, <2>4, <2>6, CalmMoves
<1> QED
  BY <1>1, <1>2

(* The end of a module.                                                    *)
LEMMA OptionCalm ==
  ASSUME NEW x, Bland(x), NEW s, s = <<x>> \/ s = << >>
  PROVE  Calm(s)
BY CalmTuples, CalmPlain

LEMMA ListCalm ==
  ASSUME NEW list, IsList(list), NEW seqs, seqs = [i \in DOMAIN list |-> seqs[i]],
         \A i \in DOMAIN list : Calm(seqs[i])
  PROVE  Calm(FlattenSeq(seqs))
<1> PICK m : m = Len(list)
  OBVIOUS
<1>1. m \in Int /\ DOMAIN list = 1 .. m
  BY DEF IsList
<1>2. seqs = [i \in 1 .. m |-> seqs[i]] /\ \A i \in 1 .. m : Calm(seqs[i])
  BY <1>1
<1> QED
  BY <1>1, <1>2, CalmFlatten

LEMMA ResultsCalm ==
  ASSUME ProgramInv, Work.node \in AllNodes, Here.tag = "MODULE"
  PROVE  Calm(Results)
<1> DEFINE n == Work.node
<1> PICK returns : returns = Node(n).returns
  OBVIOUS
<1>1. IsList(returns)
  BY DEF ProgramInv, WellFormed, NodeWellFormed, AreVariables, Node, AllNodes, Here
<1> DEFINE en(i) == EntryIn(ScopeOf(n), returns[i])
           loaded(i) == Load(ReturnRegister[i], en(i).offset, SizeOf[en(i).type.form])
           pieces == [i \in DOMAIN returns |-> IF HasBytes(en(i).type) THEN <<loaded(i)>> ELSE << >>]
<1>2. Results = FlattenSeq(pieces)
  BY DEF Results, Here
<1>3. Calm(FlattenSeq(pieces))
  <2>1. ASSUME NEW i \in DOMAIN returns PROVE Calm(pieces[i])
    <3> PICK x : x = loaded(i)
      OBVIOUS
    <3>1. Bland(x)
      BY BlandFacts
    <3>2. pieces[i] = <<x>> \/ pieces[i] = << >>
      OBVIOUS
    <3> HIDE DEF pieces
    <3> QED
      BY <3>1, <3>2, OptionCalm
  <2>2. pieces = [i \in DOMAIN returns |-> pieces[i]]
    OBVIOUS
  <2> HIDE DEF pieces
  <2> QED
    BY <1>1, <2>1, <2>2, ListCalm
<1> QED
  BY <1>2, <1>3

LEMMA LeaveModuleStep ==
  ASSUME ThirdInv, NEW D, Settled(D), LeaveModule
  PROVE  Proceeds(D)
<1> DEFINE n == Work.node
<1>1. todo # << >> /\ Work.do = "leave module" /\ Call(<< >>) /\ labels' = labels
  BY DEF LeaveModule, GenStep, Generating
<1>2. n \in AllNodes /\ ProgramInv /\ Node(n).tag = "MODULE"
  <2>1. n \in AllNodes /\ ProgramInv /\ Sound(Work, D)
    BY <1>1, ThirdWork
  <2> QED
    BY <1>1, <2>1 DEF Sound
<1> PICK r : r = <<Move(FrameSize(n)), Pop(<<"rbp">>), Ret>>
  OBVIOUS
<1>3. code' = code \o (Results \o r)
  BY DEF LeaveModule, Emit
<1>4. Calm(r)
  <2>1. Bland(Move(FrameSize(n))) /\ Bland(Pop(<<"rbp">>)) /\ Bland(Ret)
    BY BlandFacts
  <2> QED
    BY <2>1, CalmTuples
<1>5. Calm(Results \o r)
  BY <1>2, <1>4, ResultsCalm, CalmJoins DEF Here
<1> QED
  BY <1>1, <1>3, <1>5, CalmStep

-----------------------------------------------------------------------------
(* Steps that place labels, the new ones of relations first.               *)
LEMMA TwoMinted ==
  ASSUME NEW n \in Nat, n + 2 <= LabelsMax
  PROVE  /\ {Numbered(n), Numbered(n + 1)} \subseteq Minted(n, n + 2)
         /\ Numbered(n) # Numbered(n + 1)
         /\ n + 2 \in Nat /\ n <= n + 2
<1>1. n \in {k \in Nat : n <= k /\ k < n + 2} /\ n + 1 \in {k \in Nat : n <= k /\ k < n + 2}
      /\ n # n + 1 /\ n + 2 \in Nat /\ n <= n + 2
  OBVIOUS
<1>2. n < LabelsMax /\ n + 1 < LabelsMax
  BY LabelsMost
<1>3. Numbered(n) # Numbered(n + 1)
  BY <1>1, <1>2, NumbersDiffer
<1> QED
  BY <1>1, <1>3 DEF Minted

LEMMA ChoiceEmits ==
  ASSUME NEW on, NEW off, labels \in Nat, labels + 2 <= LabelsMax
  PROVE  Emits(Choice(on, off), {Numbered(labels), Numbered(labels + 1)},
                                {Numbered(labels), Numbered(labels + 1)})
<1> PICK yes : yes = Numbered(labels)
  OBVIOUS
<1> PICK end : end = Numbered(labels + 1)
  OBVIOUS
<1> PICK a : a = Jump(on, yes)
  OBVIOUS
<1> PICK b : b = Put(off, 1, 0)
  OBVIOUS
<1> PICK c : c = Jump("always", end)
  OBVIOUS
<1> PICK d : d = Label(yes)
  OBVIOUS
<1> PICK e : e = Put(off, 1, 1)
  OBVIOUS
<1> PICK f : f = Label(end)
  OBVIOUS
<1>1. Choice(on, off) = <<a, b, c, d, e, f>>
  BY DEF Choice
<1>2. Tidy(a) /\ Places(a) = {} /\ Aims(a) = {yes}
  BY LabelFacts
<1>3. Tidy(c) /\ Places(c) = {} /\ Aims(c) = {end}
  BY LabelFacts
<1>4. Tidy(d) /\ Places(d) = {yes} /\ Aims(d) = {}
  BY LabelFacts
<1>5. Tidy(f) /\ Places(f) = {end} /\ Aims(f) = {}
  BY LabelFacts
<1>6. Tidy(b) /\ Places(b) = {} /\ Aims(b) = {} /\ Tidy(e) /\ Places(e) = {} /\ Aims(e) = {}
  <2>1. Bland(b) /\ Bland(e)
    BY BlandFacts
  <2> QED
    BY <2>1 DEF Bland
<1>7. yes # end
  BY TwoMinted
<1>8. /\ Apart(Places(a), Places(b))
      /\ Apart(Places(a) \cup Places(b), Places(c))
      /\ Apart(Places(a) \cup Places(b) \cup Places(c), Places(d))
      /\ Apart(Places(a) \cup Places(b) \cup Places(c) \cup Places(d), Places(e))
      /\ Apart(Places(a) \cup Places(b) \cup Places(c) \cup Places(d) \cup Places(e), Places(f))
  BY <1>2, <1>3, <1>4, <1>5, <1>6, <1>7 DEF Apart
<1>9. Emits(<<a, b, c, d, e, f>>,
            Places(a) \cup Places(b) \cup Places(c) \cup Places(d) \cup Places(e) \cup Places(f),
            Aims(a) \cup Aims(b) \cup Aims(c) \cup Aims(d) \cup Aims(e) \cup Aims(f))
  BY ZenonT(40), <1>2, <1>3, <1>4, <1>5, <1>6, <1>8, SixEmit
<1>10. /\ Places(a) \cup Places(b) \cup Places(c) \cup Places(d) \cup Places(e) \cup Places(f) = {yes, end}
       /\ Aims(a) \cup Aims(b) \cup Aims(c) \cup Aims(d) \cup Aims(e) \cup Aims(f) = {yes, end}
  BY <1>2, <1>3, <1>4, <1>5, <1>6
<1> QED
  BY <1>1, <1>9, <1>10

LEMMA LogicEmits ==
  ASSUME NEW op, NEW off, labels \in Nat, labels + 2 <= LabelsMax
  PROVE  Emits(Logic(op, off), {Numbered(labels), Numbered(labels + 1)},
                               {Numbered(labels), Numbered(labels + 1)})
<1> PICK no : no = Numbered(labels)
  OBVIOUS
<1> PICK end : end = Numbered(labels + 1)
  OBVIOUS
<1> PICK jump : jump = Jump("z", no)
  OBVIOUS
<1>1. Tidy(jump) /\ Places(jump) = {} /\ Aims(jump) = {no}
  BY LabelFacts
<1> PICK test : test = IF op = "AND" THEN <<CompareWith("r8", 0), jump, CompareWith("r9", 0), jump>>
                       ELSE <<Alu("or", "r8", "r9"), jump>>
  OBVIOUS
<1>2. Emits(test, {}, {no})
  <2> PICK a : a = CompareWith("r8", 0)
    OBVIOUS
  <2> PICK b : b = CompareWith("r9", 0)
    OBVIOUS
  <2> PICK c : c = Alu("or", "r8", "r9")
    OBVIOUS
  <2>1. /\ Tidy(a) /\ Places(a) = {} /\ Aims(a) = {} /\ Tidy(b) /\ Places(b) = {} /\ Aims(b) = {}
        /\ Tidy(c) /\ Places(c) = {} /\ Aims(c) = {}
    <3>1. Bland(a) /\ Bland(b) /\ Bland(c)
      BY BlandFacts
    <3> QED
      BY <3>1 DEF Bland
  <2>2. Emits(<<c, jump>>, {}, {no})
    <3>1. Apart(Places(c), Places(jump))
      BY <1>1, <2>1 DEF Apart
    <3>2. Emits(<<c, jump>>, Places(c) \cup Places(jump), Aims(c) \cup Aims(jump))
      BY <1>1, <2>1, <3>1, TwoEmit
    <3>3. Places(c) \cup Places(jump) = {} /\ Aims(c) \cup Aims(jump) = {no}
      BY <1>1, <2>1
    <3> QED
      BY <3>2, <3>3
  <2>3. Emits(<<a, jump, b, jump>>, {}, {no})
    <3>1. /\ Apart(Places(a), Places(jump)) /\ Apart(Places(a) \cup Places(jump), Places(b))
          /\ Apart(Places(a) \cup Places(jump) \cup Places(b), Places(jump))
      BY <1>1, <2>1 DEF Apart
    <3>2. Emits(<<a, jump, b, jump>>, Places(a) \cup Places(jump) \cup Places(b) \cup Places(jump),
                Aims(a) \cup Aims(jump) \cup Aims(b) \cup Aims(jump))
      BY <1>1, <2>1, <3>1, FourEmit
    <3>3. /\ Places(a) \cup Places(jump) \cup Places(b) \cup Places(jump) = {}
          /\ Aims(a) \cup Aims(jump) \cup Aims(b) \cup Aims(jump) = {no}
      BY <1>1, <2>1
    <3> QED
      BY <3>2, <3>3
  <2>4. test = <<a, jump, b, jump>> \/ test = <<c, jump>>
    OBVIOUS
  <2> QED
    BY <2>2, <2>3, <2>4
<1> PICK rest : rest = <<Put(off, 1, 1), Jump("always", end), Label(no), Put(off, 1, 0), Label(end)>>
  OBVIOUS
<1>3. Emits(rest, {no, end}, {end})
  <2> PICK a : a = Put(off, 1, 1)
    OBVIOUS
  <2> PICK b : b = Jump("always", end)
    OBVIOUS
  <2> PICK c : c = Label(no)
    OBVIOUS
  <2> PICK d : d = Put(off, 1, 0)
    OBVIOUS
  <2> PICK e : e = Label(end)
    OBVIOUS
  <2>1. Tidy(a) /\ Places(a) = {} /\ Aims(a) = {} /\ Tidy(d) /\ Places(d) = {} /\ Aims(d) = {}
    <3>1. Bland(a) /\ Bland(d)
      BY BlandFacts
    <3> QED
      BY <3>1 DEF Bland
  <2>2. Tidy(b) /\ Places(b) = {} /\ Aims(b) = {end}
    BY LabelFacts
  <2>3. Tidy(c) /\ Places(c) = {no} /\ Aims(c) = {}
    BY LabelFacts
  <2>4. Tidy(e) /\ Places(e) = {end} /\ Aims(e) = {}
    BY LabelFacts
  <2>5. no # end
    BY TwoMinted
  <2>6. /\ Apart(Places(a), Places(b)) /\ Apart(Places(a) \cup Places(b), Places(c))
        /\ Apart(Places(a) \cup Places(b) \cup Places(c), Places(d))
        /\ Apart(Places(a) \cup Places(b) \cup Places(c) \cup Places(d), Places(e))
    BY <2>1, <2>2, <2>3, <2>4, <2>5 DEF Apart
  <2>7. Emits(<<a, b, c, d, e>>, Places(a) \cup Places(b) \cup Places(c) \cup Places(d) \cup Places(e),
              Aims(a) \cup Aims(b) \cup Aims(c) \cup Aims(d) \cup Aims(e))
    BY <2>1, <2>2, <2>3, <2>4, <2>6, FiveEmit
  <2>8. /\ Places(a) \cup Places(b) \cup Places(c) \cup Places(d) \cup Places(e) = {no, end}
        /\ Aims(a) \cup Aims(b) \cup Aims(c) \cup Aims(d) \cup Aims(e) = {end}
    BY <2>1, <2>2, <2>3, <2>4
  <2>9. rest = <<a, b, c, d, e>>
    OBVIOUS
  <2> QED
    BY <2>7, <2>8, <2>9
<1>4. Emits(test \o rest, {} \cup {no, end}, {no} \cup {end})
  BY <1>2, <1>3, CodeConcat
<1>5. {} \cup {no, end} = {no, end} /\ {no} \cup {end} = {no, end}
  OBVIOUS
<1>6. Logic(op, off) = test \o rest
  BY DEF Logic
<1> QED
  BY <1>4, <1>5, <1>6

LEMMA RelationSteps ==
  ASSUME ThirdInv, NEW D, Settled(D), GenRelation \/ GenLogic, labels' <= LabelsMax
  PROVE  Proceeds(D)
<1> PICK p : p = {Numbered(labels), Numbered(labels + 1)}
  OBVIOUS
<1>1. todo # << >> /\ Work.do = "operator" /\ Call(<< >>) /\ labels' = labels + 2
  BY DEF GenRelation, GenLogic, GenStep, Generating
<1>2. labels \in Nat /\ Will(Work) = {} /\ Quiet(<< >>, D)
  BY <1>1, ThirdWork, SilentWork, QuietNone
<1>3. p \subseteq Minted(labels, labels') /\ labels' \in Nat /\ labels <= labels'
  BY <1>1, <1>2, TwoMinted
<1>4. ASSUME NEW s, Calm(s), NEW r, Emits(r, p, p), code' = code \o (s \o r)
      PROVE  Proceeds(D)
  <2>1. Emits(s \o r, p, p)
    BY <1>4, CalmJoin
  <2>2. /\ p \subseteq Own(Work) \cup Minted(labels, labels')
        /\ Will(Work) \subseteq p /\ p \subseteq Fixed \cup Wants(Work) \cup p
    BY <1>2, <1>3
  <2> QED
    BY <1>1, <1>2, <1>3, <1>4, <2>1, <2>2, PlacingMoves
<1>5. CASE GenRelation
  <2> PICK s : s = <<Move(-1), Compare("r8", "r9")>>
    OBVIOUS
  <2> PICK r : r = Choice(Condition[Here.op], NextOffset(1))
    OBVIOUS
  <2> PICK t : t = Operands("INTEGER")
    OBVIOUS
  <2>1. code' = code \o (t \o s \o r)
    BY <1>5 DEF GenRelation, Emit
  <2>2. Bland(Move(-1)) /\ Bland(Compare("r8", "r9"))
    BY BlandFacts
  <2>3. Calm(s)
    BY <2>2, CalmTuples
  <2>4. Calm(t \o s)
    BY <2>3, OperandsCalm, CalmJoins
  <2>5. Emits(r, p, p)
    BY <1>1, <1>2, ChoiceEmits
  <2> QED
    BY <1>4, <2>1, <2>4, <2>5
<1>6. CASE GenLogic
  <2> PICK s : s = <<Move(-1)>>
    OBVIOUS
  <2> PICK r : r = Logic(Here.op, NextOffset(1))
    OBVIOUS
  <2> PICK t : t = Operands("INTEGER")
    OBVIOUS
  <2> PICK u : u = IF AreBooleans THEN Operands("BOOLEAN") ELSE << >>
    OBVIOUS
  <2>1. code' = code \o (t \o s \o u \o r)
    BY <1>6 DEF GenLogic, Emit
  <2>2. Calm(s) /\ Calm(t) /\ Calm(u)
    BY BlandFacts, CalmTuples, OperandsCalm, CalmPlain
  <2>3. Calm(t \o s \o u)
    BY <2>2, CalmJoins
  <2>4. Emits(r, p, p)
    BY <1>1, <1>2, LogicEmits
  <2> QED
    BY <1>4, <2>1, <2>3, <2>4
<1> QED
  BY <1>5, <1>6

(* The ends of arms and loops.                                             *)
LEMMA LoopBooks ==
  ASSUME NEW x, x.do \in InLoop
  PROVE  /\ Own(x) = {Numbered(x.nth + 1)} /\ Wants(x) = {Numbered(x.nth)}
         /\ Will(x) = IF x.do = "while test" THEN {} ELSE {Numbered(x.nth + 1)}
<1>1. Own(x) = {Numbered(x.nth + 1)}
  BY DEF Own, InLoop
<1>2. Wants(x) = {Numbered(x.nth)}
  BY DEF Wants, InLoop
<1> QED
  BY <1>1, <1>2 DEF Will

LEMMA ArmSteps ==
  ASSUME ThirdInv, NEW D, Settled(D), StartArm \/ EndArm
  PROVE  Proceeds(D)
<1>1. /\ todo # << >> /\ Work.do \in {"label", "end arm"} /\ Call(<< >>) /\ labels' = labels
  BY DEF StartArm, EndArm, GenStep, Generating
<1>2. labels \in Nat /\ Quiet(<< >>, D)
  BY <1>1, ThirdWork, QuietNone
<1>a. labels' \in Nat /\ labels <= labels'
  <2>1. labels' = labels /\ labels \in Nat
    BY <1>1, <1>2
  <2> QED
    BY ONLY <2>1
<1>3. CASE StartArm
  <2>1. Work.do = "label"
    BY <1>3 DEF StartArm, GenStep
  <2> PICK l : l = Numbered(Work.nth)
    OBVIOUS
  <2> PICK x : x = Label(l)
    OBVIOUS
  <2>2. code' = code \o <<x>>
    BY <1>3 DEF StartArm, Emit
  <2>3. Tidy(x) /\ Places(x) = {l} /\ Aims(x) = {}
    BY LabelFacts
  <2>4. Emits(<<x>>, {l}, {})
    BY <2>3, OneEmits
  <2>5. Own(Work) = {l}
    BY <2>1 DEF Own, InLoop
  <2>6. Will(Work) = {l}
    BY <2>1, <2>5 DEF Will
  <2>7. /\ {l} \subseteq Own(Work) \cup Minted(labels, labels')
        /\ Will(Work) \subseteq {l} /\ {} \subseteq Fixed \cup Wants(Work) \cup {l}
    BY <2>5, <2>6
  <2> QED
    BY <1>1, <1>2, <1>a, <2>2, <2>4, <2>7, PlacingMoves
<1>4. CASE EndArm
  <2>1. Work.do = "end arm"
    BY <1>4 DEF EndArm, GenStep
  <2> PICK l : l = SwitchLabel(Work, 2)
    OBVIOUS
  <2> PICK x : x = Jump("always", l)
    OBVIOUS
  <2>2. l = EndLabel(Work.nth)
    BY DEF SwitchLabel, EndLabel, LabelAfter, CaseCount, Here
  <2>3. code' = code \o <<x>>
    BY <1>4, <2>2 DEF EndArm, Emit
  <2>4. Tidy(x) /\ Places(x) = {} /\ Aims(x) = {l}
    BY LabelFacts
  <2>5. Emits(<<x>>, {}, {l})
    BY <2>4, OneEmits
  <2>6. Wants(Work) = {l}
    BY <2>1 DEF Wants, InLoop
  <2>7. Will(Work) = {} /\ {l} \subseteq Fixed \cup Wants(Work)
    BY <2>1, <2>6, SilentWork
  <2> QED
    BY <1>1, <1>2, <2>3, <2>5, <2>7, QuietMoves
<1> QED
  BY <1>3, <1>4

LEMMA LoopEnds ==
  ASSUME ThirdInv, NEW D, Settled(D), LeaveFor \/ LeaveWhile
  PROVE  Proceeds(D)
<1> PICK again : again = Numbered(Work.nth)
  OBVIOUS
<1> PICK end : end = Numbered(Work.nth + 1)
  OBVIOUS
<1>1. /\ todo # << >> /\ Work.do \in {"leave for", "leave while"} /\ Call(<< >>) /\ labels' = labels
  BY DEF LeaveFor, LeaveWhile, GenStep, Generating
<1>2. labels \in Nat /\ Quiet(<< >>, D)
  BY <1>1, ThirdWork, QuietNone
<1>a. labels' \in Nat /\ labels <= labels'
  <2>1. labels' = labels /\ labels \in Nat
    BY <1>1, <1>2
  <2> QED
    BY ONLY <2>1
<1>3. Own(Work) = {end} /\ Wants(Work) = {again} /\ Will(Work) = {end}
  <2> PICK x : x = Work
    OBVIOUS
  <2>1. x.do \in InLoop /\ x.do # "while test" /\ x.nth = Work.nth
    BY <1>1 DEF InLoop
  <2>2. Own(x) = {Numbered(x.nth + 1)} /\ Wants(x) = {Numbered(x.nth)} /\ Will(x) = {Numbered(x.nth + 1)}
    BY <2>1, LoopBooks
  <2> QED
    BY <2>1, <2>2
<1>4. ASSUME NEW s, Emits(s, {end}, {again}), code' = code \o s
      PROVE  Proceeds(D)
  <2>1. /\ {end} \subseteq Own(Work) \cup Minted(labels, labels')
        /\ Will(Work) \subseteq {end} /\ {again} \subseteq Fixed \cup Wants(Work) \cup {end}
    BY <1>3
  <2> QED
    BY <1>1, <1>2, <1>a, <1>4, <2>1, PlacingMoves
<1> PICK b : b = Jump("always", again)
  OBVIOUS
<1> PICK c : c = Label(end)
  OBVIOUS
<1>5. Tidy(b) /\ Places(b) = {} /\ Aims(b) = {again}
  BY LabelFacts
<1>6. Tidy(c) /\ Places(c) = {end} /\ Aims(c) = {}
  BY LabelFacts
<1>7. Emits(<<b, c>>, {end}, {again})
  <2>1. Apart(Places(b), Places(c))
    BY <1>5 DEF Apart
  <2>2. Emits(<<b, c>>, Places(b) \cup Places(c), Aims(b) \cup Aims(c))
    BY <1>5, <1>6, <2>1, TwoEmit
  <2>3. Places(b) \cup Places(c) = {end} /\ Aims(b) \cup Aims(c) = {again}
    BY <1>5, <1>6
  <2> QED
    BY <2>2, <2>3
<1>8. ASSUME NEW d, Bland(d) PROVE Emits(<<b, c, d>>, {end}, {again})
  <2>1. <<b, c, d>> = <<b, c>> \o <<d>> /\ Calm(<<d>>)
    BY <1>8, Tuples, CalmTuples
  <2>2. Emits(<<b, c>> \o <<d>>, {end}, {again})
    BY <1>7, <2>1, CalmJoin
  <2> QED
    BY <2>1, <2>2
<1>9. CASE LeaveWhile
  <2> PICK d : d = Copy("rsp", "rcx")
    OBVIOUS
  <2>1. Bland(d)
    BY BlandFacts
  <2>2. code' = code \o <<b, c, d>>
    BY <1>9 DEF LeaveWhile, Emit
  <2> QED
    BY <1>4, <1>8, <2>1, <2>2
<1>10. CASE LeaveFor
  <2> PICK a : a = [op |-> "increment", off |-> CounterOffset]
    OBVIOUS
  <2> PICK d : d = Move(table[owned[Work.node]].size
                        + temps[owned[Work.node]] * Extent(Here.low, Here.high))
    OBVIOUS
  <2>1. Bland(d)
    BY BlandFacts
  <2>2. Bland(a)
    <3>1. a.op = "increment"
      OBVIOUS
    <3> QED
      BY <3>1, BlandOp
  <2>3. code' = code \o <<a, b, c, d>>
    BY <1>10 DEF LeaveFor, Emit
  <2>4. Tidy(a) /\ Places(a) = {} /\ Aims(a) = {} /\ Tidy(d) /\ Places(d) = {} /\ Aims(d) = {}
    BY <2>1, <2>2 DEF Bland
  <2>5. /\ Apart(Places(a), Places(b)) /\ Apart(Places(a) \cup Places(b), Places(c))
        /\ Apart(Places(a) \cup Places(b) \cup Places(c), Places(d))
    BY <1>5, <1>6, <2>4 DEF Apart
  <2>6. Emits(<<a, b, c, d>>, Places(a) \cup Places(b) \cup Places(c) \cup Places(d),
              Aims(a) \cup Aims(b) \cup Aims(c) \cup Aims(d))
    BY <1>5, <1>6, <2>4, <2>5, FourEmit
  <2>7. /\ Places(a) \cup Places(b) \cup Places(c) \cup Places(d) = {end}
        /\ Aims(a) \cup Aims(b) \cup Aims(c) \cup Aims(d) = {again}
    BY <1>5, <1>6, <2>4
  <2>8. Emits(<<a, b, c, d>>, {end}, {again})
    BY <2>6, <2>7
  <2> QED
    BY <1>4, <2>3, <2>8
<1> QED
  BY <1>1, <1>9, <1>10

(* The beginnings of loops: the end of the loop is left to do.             *)
LEMMA LoopItem ==
  ASSUME NEW D, NEW do, do \in InLoop, NEW k, k \in Nat, Work.node \in AllNodes,
         Work.node \in D, Here.tag = "WHILE" \/ do # "while test",
         NEW s, Quiet(s, D), NEW x, x = Item(do, Work.node, Work.table, k)
  PROVE  EndsIn(s \o After(do, k), x, D)
<1>1. x.do = do /\ x.node = Work.node /\ x.nth = k /\ After(do, k) = <<x>>
  BY AfterFacts
<1>2. Sound(x, D)
  <2>1. x.node \in AllNodes /\ x.nth \in Nat
    BY <1>1
  <2>2. x.do \notin {"gen", "tests", "leave module"}
    BY <1>1 DEF InLoop
  <2>3. x.do = "while test" => x.node \in D /\ Node(x.node).tag = "WHILE"
    BY <1>1 DEF Here
  <2> QED
    BY <2>1, <2>2, <2>3 DEF Sound
<1> QED
  BY <1>1, <1>2, EndsJoin

LEMMA LoopItemBooks ==
  ASSUME NEW do, do \in InLoop, NEW k, NEW x, x = Item(do, Work.node, Work.table, k)
  PROVE  /\ Own(x) = {Numbered(k + 1)} /\ Wants(x) = {Numbered(k)}
         /\ Will(x) = IF do = "while test" THEN {} ELSE {Numbered(k + 1)}
<1>1. x.do = do /\ x.nth = k
  BY AfterFacts
<1> QED
  BY <1>1, LoopBooks

LEMMA ForStep ==
  ASSUME ThirdInv, NEW D, Settled(D), GenFor, labels' <= LabelsMax
  PROVE  Proceeds(D)
<1> DEFINE n == Work.node
<1> PICK again : again = Numbered(labels)
  OBVIOUS
<1> PICK end : end = Numbered(labels + 1)
  OBVIOUS
<1>1. /\ todo # << >> /\ Work.do = "gen" /\ Here.tag = "FOR" /\ labels' = labels + 2
      /\ Call(Gens(Body(Node(n)), owned[n]) \o After("leave for", labels)) /\ Node(n).tag = "FOR"
  BY DEF GenFor, GenAt, GenStep, Generating, Here
<1>2. n \in D /\ n \in AllNodes /\ ProgramInv /\ Trusted(D) /\ labels \in Nat /\ Will(Work) = {}
  BY <1>1, ThirdWork, SilentWork DEF Expressions
<1>3. {again, end} \subseteq Minted(labels, labels') /\ again # end /\ labels' \in Nat /\ labels <= labels'
  BY <1>1, <1>2, TwoMinted
<1>4. Quiet(Gens(Body(Node(n)), owned[n]), D)
  BY <1>1, <1>2, SectionBody DEF Sections, Branching
<1> PICK items : items = Gens(Body(Node(n)), owned[n]) \o After("leave for", labels)
  OBVIOUS
<1>5. PICK x : EndsIn(items, x, D) /\ Own(x) = {end} /\ Wants(x) = {again} /\ Will(x) = {end}
  <2> PICK do : do = "leave for"
    OBVIOUS
  <2>1. do \in InLoop /\ do # "while test"
    BY DEF InLoop
  <2> PICK s : s = Gens(Body(Node(n)), owned[n])
    OBVIOUS
  <2> PICK x : x = Item(do, Work.node, Work.table, labels)
    OBVIOUS
  <2>2. Quiet(s, D) /\ labels \in Nat /\ Work.node \in AllNodes /\ Work.node \in D
        /\ x = Item(do, Work.node, Work.table, labels)
    BY <1>2, <1>4
  <2>3. EndsIn(s \o After(do, labels), x, D)
    BY ONLY <2>1, <2>2, LoopItem
  <2>4. Own(x) = {Numbered(labels + 1)} /\ Wants(x) = {Numbered(labels)}
        /\ Will(x) = IF do = "while test" THEN {} ELSE {Numbered(labels + 1)}
    <3>1. x.do = do /\ x.nth = labels
      BY ONLY <2>2 DEF Item
    <3>2. x.do \in InLoop
      BY <2>1, <3>1
    <3>3. Own(x) = {Numbered(x.nth + 1)} /\ Wants(x) = {Numbered(x.nth)}
      BY <3>2, LoopBooks
    <3>4. Will(x) = IF x.do = "while test" THEN {} ELSE {Numbered(x.nth + 1)}
      BY <3>2, LoopBooks
    <3> QED
      BY <3>1, <3>3, <3>4
  <2> QED
    BY <2>1, <2>3, <2>4
<1> PICK a : a = Move(-SpaceOf(owned[n]))
  OBVIOUS
<1> PICK b : b = Put(CounterOffset, 2, Here.low)
  OBVIOUS
<1> PICK c : c = Label(again)
  OBVIOUS
<1> PICK d : d = [op |-> "compare word", off |-> CounterOffset, value |-> Here.high + 1]
  OBVIOUS
<1> PICK e : e = Jump("z", end)
  OBVIOUS
<1>6. code' = code \o <<a, b, c, d, e>>
  BY DEF GenFor, Emit
<1>7. Bland(a) /\ Bland(b)
  BY BlandFacts
<1>8. Bland(d)
  <2>1. d.op = "compare word"
    OBVIOUS
  <2> QED
    BY <2>1, BlandOp
<1>9. Tidy(c) /\ Places(c) = {again} /\ Aims(c) = {}
  BY LabelFacts
<1>10. Tidy(e) /\ Places(e) = {} /\ Aims(e) = {end}
  BY LabelFacts
<1>11. /\ Tidy(a) /\ Places(a) = {} /\ Aims(a) = {} /\ Tidy(b) /\ Places(b) = {} /\ Aims(b) = {}
       /\ Tidy(d) /\ Places(d) = {} /\ Aims(d) = {}
  BY <1>7, <1>8 DEF Bland
<1>12. Emits(<<a, b, c, d, e>>, {again}, {end})
  <2>1. /\ Apart(Places(a), Places(b)) /\ Apart(Places(a) \cup Places(b), Places(c))
        /\ Apart(Places(a) \cup Places(b) \cup Places(c), Places(d))
        /\ Apart(Places(a) \cup Places(b) \cup Places(c) \cup Places(d), Places(e))
    BY <1>9, <1>10, <1>11 DEF Apart
  <2>2. Emits(<<a, b, c, d, e>>, Places(a) \cup Places(b) \cup Places(c) \cup Places(d) \cup Places(e),
              Aims(a) \cup Aims(b) \cup Aims(c) \cup Aims(d) \cup Aims(e))
    BY <1>9, <1>10, <1>11, <2>1, FiveEmit
  <2>3. /\ Places(a) \cup Places(b) \cup Places(c) \cup Places(d) \cup Places(e) = {again}
        /\ Aims(a) \cup Aims(b) \cup Aims(c) \cup Aims(d) \cup Aims(e) = {end}
    BY <1>9, <1>10, <1>11
  <2> QED
    BY <2>2, <2>3
<1>13. /\ {again} \cup Own(x) \subseteq Own(Work) \cup Minted(labels, labels')
       /\ Will(Work) \subseteq {again} \cup Will(x)
       /\ {end} \cup Wants(x) \subseteq Fixed \cup Wants(Work) \cup {again} \cup Will(x)
  BY <1>2, <1>3, <1>5
<1>14. Apart(Own(x), {again})
  BY <1>3, <1>5 DEF Apart
<1>15. Call(items)
  BY <1>1
<1> QED
  BY <1>2, <1>3, <1>5, <1>6, <1>12, <1>13, <1>14, <1>15, LastMoves

LEMMA WhileStep ==
  ASSUME ThirdInv, NEW D, Settled(D), GenWhile, labels' <= LabelsMax
  PROVE  Proceeds(D)
<1> DEFINE n == Work.node
<1> PICK again : again = Numbered(labels)
  OBVIOUS
<1> PICK end : end = Numbered(labels + 1)
  OBVIOUS
<1> PICK test : test = Predicate(Node(n))
  OBVIOUS
<1>1. /\ todo # << >> /\ Work.do = "gen" /\ Here.tag = "WHILE" /\ labels' = labels + 2
      /\ Call(Gens(<<test>>, owned[n]) \o After("while test", labels)) /\ Node(n).tag = "WHILE"
  BY DEF GenWhile, GenAt, GenStep, Generating, Here
<1>2. n \in D /\ n \in AllNodes /\ ProgramInv /\ Trusted(D) /\ labels \in Nat /\ Will(Work) = {}
  BY <1>1, ThirdWork, SilentWork DEF Expressions
<1>3. {again, end} \subseteq Minted(labels, labels') /\ again # end /\ labels' \in Nat /\ labels <= labels'
  BY <1>1, <1>2, TwoMinted
<1>4. Quiet(Gens(<<test>>, owned[n]), D)
  <2>1. test \in AllNodes /\ Node(test).tag \in Expressions
    <3> PICK kids : kids = Node(n).kids
      OBVIOUS
    <3>1. kids \in Seq(AllNodes) /\ kids # << >> /\ Node(kids[1]).tag \in Expressions
      BY <1>1, <1>2 DEF ProgramInv, WellFormed, NodeWellFormed, Node, AllNodes, Predicate
    <3>2. 1 \in DOMAIN kids
      BY <3>1, EmptySeq, LenProperties
    <3> QED
      BY <3>1, <3>2 DEF Predicate
  <2> DEFINE one == <<test>>
  <2>2. one \in Seq(AllNodes) /\ \A k \in DOMAIN one : Node(one[k]).tag \in Expressions
    BY <2>1
  <2> HIDE DEF one
  <2>3. Quiet(Gens(one, owned[n]), D)
    BY <2>2, GensOfExpressions
  <2> QED
    BY <2>3 DEF one
<1> PICK items : items = Gens(<<test>>, owned[n]) \o After("while test", labels)
  OBVIOUS
<1>5. PICK x : EndsIn(items, x, D) /\ Own(x) = {end} /\ Wants(x) = {again} /\ Will(x) = {}
  <2> PICK do : do = "while test"
    OBVIOUS
  <2> PICK s : s = Gens(<<test>>, owned[n])
    OBVIOUS
  <2> PICK x : x = Item(do, Work.node, Work.table, labels)
    OBVIOUS
  <2>1. do \in InLoop /\ (Here.tag = "WHILE" \/ do # "while test")
    BY <1>1 DEF InLoop
  <2>2. Quiet(s, D) /\ labels \in Nat /\ Work.node \in AllNodes /\ Work.node \in D
        /\ x = Item(do, Work.node, Work.table, labels)
    BY <1>2, <1>4
  <2>3. EndsIn(s \o After(do, labels), x, D)
    BY ONLY <2>1, <2>2, LoopItem
  <2>4. Own(x) = {Numbered(labels + 1)} /\ Wants(x) = {Numbered(labels)} /\ Will(x) = {}
    BY <2>1, LoopItemBooks
  <2> QED
    BY <2>3, <2>4
<1> PICK a : a = Copy("rcx", "rsp")
  OBVIOUS
<1> PICK b : b = Label(again)
  OBVIOUS
<1> PICK c : c = Move(-SpaceOf(owned[n]))
  OBVIOUS
<1>6. code' = code \o <<a, b, c>>
  BY DEF GenWhile, Emit
<1>7. Bland(a) /\ Bland(c)
  BY BlandFacts
<1>8. Tidy(b) /\ Places(b) = {again} /\ Aims(b) = {}
  BY LabelFacts
<1>9. Tidy(a) /\ Places(a) = {} /\ Aims(a) = {} /\ Tidy(c) /\ Places(c) = {} /\ Aims(c) = {}
  BY <1>7 DEF Bland
<1>10. Emits(<<a, b, c>>, {again}, {})
  <2>1. Apart(Places(a), Places(b)) /\ Apart(Places(a) \cup Places(b), Places(c))
    BY <1>8, <1>9 DEF Apart
  <2>2. Emits(<<a, b, c>>, Places(a) \cup Places(b) \cup Places(c), Aims(a) \cup Aims(b) \cup Aims(c))
    BY <1>8, <1>9, <2>1, ThreeEmit
  <2>3. Places(a) \cup Places(b) \cup Places(c) = {again} /\ Aims(a) \cup Aims(b) \cup Aims(c) = {}
    BY <1>8, <1>9
  <2> QED
    BY <2>2, <2>3
<1>11. /\ {again} \cup Own(x) \subseteq Own(Work) \cup Minted(labels, labels')
       /\ Will(Work) \subseteq {again} \cup Will(x)
       /\ {} \cup Wants(x) \subseteq Fixed \cup Wants(Work) \cup {again} \cup Will(x)
  BY <1>2, <1>3, <1>5
<1>12. Apart(Own(x), {again})
  BY <1>3, <1>5 DEF Apart
<1>13. Call(items)
  BY <1>1
<1> QED
  BY <1>2, <1>3, <1>5, <1>6, <1>10, <1>11, <1>12, <1>13, LastMoves

LEMMA WhileTestStep ==
  ASSUME ThirdInv, NEW D, Settled(D), GenWhileTest
  PROVE  Proceeds(D)
<1> DEFINE n == Work.node
<1> PICK again : again = Numbered(Work.nth)
  OBVIOUS
<1> PICK end : end = Numbered(Work.nth + 1)
  OBVIOUS
<1>1. todo # << >> /\ Work.do = "while test" /\ labels' = labels
  BY DEF GenWhileTest, GenStep, Generating
<1>2. /\ n \in AllNodes /\ ProgramInv /\ Trusted(D) /\ labels \in Nat /\ IsSeq(code)
      /\ Work.nth \in Nat /\ Sound(Work, D)
  BY <1>1, ThirdWork
<1>3. n \in D /\ Node(n).tag = "WHILE"
  BY <1>1, <1>2 DEF Sound
<1>4. Own(Work) = {end} /\ Wants(Work) = {again} /\ Will(Work) = {}
  <2> PICK x : x = Work
    OBVIOUS
  <2>1. x.do \in InLoop /\ x.do = "while test" /\ x.nth = Work.nth
    BY <1>1 DEF InLoop
  <2>2. Own(x) = {Numbered(x.nth + 1)} /\ Wants(x) = {Numbered(x.nth)} /\ Will(x) = {}
    BY <2>1, LoopBooks
  <2> QED
    BY <2>1, <2>2
<1>5. labels' \in Nat /\ labels <= labels'
  <2>1. labels' = labels /\ labels \in Nat
    BY <1>1, <1>2
  <2> QED
    BY ONLY <2>1
<1>6. CASE Node(Predicate(Here)).tag # "BINARY"
  <2>1. Call(<< >>) /\ code' = code
    BY <1>6 DEF GenWhileTest
  <2> QED
    BY <1>1, <1>2, <1>4, <2>1, QuietNone, UnprintedMoves
<1>7. CASE Node(Predicate(Here)).tag = "BINARY"
  <2> PICK items : items = Gens(Body(Node(n)), owned[n]) \o After("leave while", Work.nth)
    OBVIOUS
  <2>1. Call(items)
    BY <1>7 DEF GenWhileTest, Here
  <2>2. Quiet(Gens(Body(Node(n)), owned[n]), D)
    BY <1>2, <1>3, SectionBody DEF Sections, Branching
  <2>3. PICK x : EndsIn(items, x, D) /\ Own(x) = {end} /\ Wants(x) = {again} /\ Will(x) = {end}
    <3> PICK do : do = "leave while"
      OBVIOUS
    <3>1. do \in InLoop /\ do # "while test"
      BY DEF InLoop
    <3> PICK s : s = Gens(Body(Node(n)), owned[n])
      OBVIOUS
    <3> PICK k : k = Work.nth
      OBVIOUS
    <3> PICK x : x = Item(do, Work.node, Work.table, k)
      OBVIOUS
    <3>2. Quiet(s, D) /\ k \in Nat /\ Work.node \in AllNodes /\ Work.node \in D
          /\ x = Item(do, Work.node, Work.table, k)
      BY <1>2, <1>3, <2>2
    <3>3. EndsIn(s \o After(do, k), x, D)
      BY ONLY <3>1, <3>2, LoopItem
    <3>4. Own(x) = {Numbered(k + 1)} /\ Wants(x) = {Numbered(k)}
          /\ Will(x) = IF do = "while test" THEN {} ELSE {Numbered(k + 1)}
      <4>1. x.do = do /\ x.nth = k
        BY ONLY <3>2 DEF Item
      <4>2. x.do \in InLoop
        BY <3>1, <4>1
      <4>3. Own(x) = {Numbered(x.nth + 1)} /\ Wants(x) = {Numbered(x.nth)}
        BY <4>2, LoopBooks
      <4>4. Will(x) = IF x.do = "while test" THEN {} ELSE {Numbered(x.nth + 1)}
        BY <4>2, LoopBooks
      <4> QED
        BY <4>1, <4>3, <4>4
    <3> QED
      BY <3>1, <3>3, <3>4
  <2> PICK a : a = Load("r11", place[Predicate(Here)], 1)
    OBVIOUS
  <2> PICK b : b = CompareWith("r11", 0)
    OBVIOUS
  <2> PICK c : c = Jump("z", end)
    OBVIOUS
  <2>4. code' = code \o <<a, b, c>>
    BY <1>7 DEF GenWhileTest, Emit
  <2>5. Bland(a) /\ Bland(b)
    BY BlandFacts
  <2>6. Tidy(c) /\ Places(c) = {} /\ Aims(c) = {end}
    BY LabelFacts
  <2>7. Emits(<<a, b, c>>, {}, {end})
    <3>a. Calm(<<a, b>>)
      BY <2>5, CalmTuples
    <3>b. <<a, b, c>> = <<a, b>> \o <<c>>
      BY ONLY Tuples
    <3>1. Calm(<<a, b>>) /\ <<a, b, c>> = <<a, b>> \o <<c>>
      BY <3>a, <3>b
    <3>2. Emits(<<c>>, {}, {end})
      BY <2>6, OneEmits
    <3>3. Emits(<<a, b>> \o <<c>>, {}, {end})
      BY <3>1, <3>2, CalmJoin
    <3> QED
      BY <3>1, <3>3
  <2>8. /\ {} \cup Own(x) \subseteq Own(Work) \cup Minted(labels, labels')
        /\ Will(Work) \subseteq {} \cup Will(x)
        /\ {end} \cup Wants(x) \subseteq Fixed \cup Wants(Work) \cup {} \cup Will(x)
    BY <1>4, <2>3
  <2>9. Apart(Own(x), {})
    BY DEF Apart
  <2> QED
    BY <1>2, <1>5, <2>1, <2>3, <2>4, <2>7, <2>8, <2>9, LastMoves
<1> QED
  BY <1>6, <1>7

(* Uses of a module: its name is that of an entry of the global table.     *)
LEMMA PassedCalm ==
  ASSUME NEW n, NEW name, NEW reg
  PROVE  Calm(Argument(n, reg)) /\ Calm(Received(name, reg))
<1>1. Calm(Argument(n, reg))
  <2> PICK e : e = Lookup(Work.table, Node(n).name)
    OBVIOUS
  <2> PICK a : a = Load(reg, e.offset, SizeOf[e.type.form])
    OBVIOUS
  <2> PICK b : b = Set(reg, Node(n).value)
    OBVIOUS
  <2>1. Bland(a) /\ Bland(b)
    BY BlandFacts
  <2>2. Calm(<<a>>) /\ Calm(<<b>>) /\ Calm(<< >>)
    BY <2>1, CalmTuples, CalmPlain
  <2>3. Argument(n, reg) = <<a>> \/ Argument(n, reg) = <<b>> \/ Argument(n, reg) = << >>
    BY DEF Argument
  <2> QED
    BY <2>2, <2>3
<1>2. Calm(Received(name, reg))
  <2> PICK e : e = Lookup(Work.table, name)
    OBVIOUS
  <2> PICK a : a = Store(e.offset, SizeOf[e.type.form], reg)
    OBVIOUS
  <2>1. Bland(a)
    BY BlandFacts
  <2>2. Received(name, reg) = <<a>> \/ Received(name, reg) = << >>
    BY DEF Received
  <2> QED
    BY <2>1, <2>2, OptionCalm
<1> QED
  BY <1>1, <1>2

LEMMA UseStep ==
  ASSUME ThirdInv, NEW D, Settled(D), GenUse
  PROVE  Proceeds(D)
<1> DEFINE n == Work.node
<1> PICK goal : goal = Named(Node(n).name)
  OBVIOUS
<1> PICK kids : kids = Node(n).kids
  OBVIOUS
<1> PICK results : results = Node(n).results
  OBVIOUS
<1>1. /\ todo # << >> /\ Work.do = "gen" /\ Here.tag = "USE" /\ Call(<< >>) /\ labels' = labels
      /\ Node(n).tag = "USE"
  BY DEF GenUse, GenAt, GenStep, Generating, Here
<1>2. n \in D /\ n \in AllNodes /\ ProgramInv /\ Trusted(D) /\ labels \in Nat /\ Will(Work) = {}
      /\ Quiet(<< >>, D)
  BY <1>1, ThirdWork, SilentWork, QuietNone DEF Expressions
<1>3. {goal} \subseteq Fixed \cup Wants(Work)
  BY <1>1, <1>2 DEF Trusted, Good, Fixed
<1>4. IsList(kids) /\ IsList(results)
  <2>1. kids \in Seq(AllNodes) /\ IsList(results)
    BY <1>1, <1>2 DEF ProgramInv, WellFormed, NodeWellFormed, Node, AllNodes
  <2> QED
    BY <2>1 DEF IsList
<1> DEFINE passed   == [i \in DOMAIN kids |-> Argument(kids[i], ArgumentRegister[i])]
           received == [i \in DOMAIN results |-> Received(results[i], ReturnRegister[i])]
<1> PICK a : a = Push(Saved)
  OBVIOUS
<1> PICK b : b = CallOf(goal)
  OBVIOUS
<1> PICK c : c = Pop(Reverse(Saved))
  OBVIOUS
<1>5. code' = code \o (<<a>> \o FlattenSeq(passed) \o <<b, c>> \o FlattenSeq(received))
  BY DEF GenUse, Emit, Here
<1>6. Calm(FlattenSeq(passed))
  <2>1. passed = [i \in DOMAIN kids |-> passed[i]] /\ \A i \in DOMAIN kids : Calm(passed[i])
    BY PassedCalm
  <2> HIDE DEF passed
  <2> QED
    BY <1>4, <2>1, ListCalm
<1>7. Calm(FlattenSeq(received))
  <2>1. received = [i \in DOMAIN results |-> received[i]] /\ \A i \in DOMAIN results : Calm(received[i])
    BY PassedCalm
  <2> HIDE DEF received
  <2> QED
    BY <1>4, <2>1, ListCalm
<1> PICK s : s = FlattenSeq(passed)
  OBVIOUS
<1> PICK r : r = FlattenSeq(received)
  OBVIOUS
<1> HIDE DEF passed, received
<1>8. Calm(<<a>>) /\ Bland(c)
  BY BlandFacts, CalmTuples
<1>9. Tidy(b) /\ Places(b) = {} /\ Aims(b) = {goal}
  BY LabelFacts
<1>10. Emits(<<b, c>>, {}, {goal})
  <2>1. Tidy(c) /\ Places(c) = {} /\ Aims(c) = {} /\ Apart(Places(b), Places(c))
    BY <1>8, <1>9 DEF Bland, Apart
  <2>2. Emits(<<b, c>>, Places(b) \cup Places(c), Aims(b) \cup Aims(c))
    BY <1>9, <2>1, TwoEmit
  <2>3. Places(b) \cup Places(c) = {} /\ Aims(b) \cup Aims(c) = {goal}
    BY <1>9, <2>1
  <2> QED
    BY <2>2, <2>3
<1>11. Emits(<<a>> \o s \o <<b, c>> \o r, {}, {goal})
  <2>1. Calm(<<a>> \o s)
    BY <1>6, <1>8, CalmJoins
  <2>2. Emits((<<a>> \o s) \o <<b, c>>, {}, {goal})
    BY <1>10, <2>1, CalmJoin
  <2> QED
    BY <1>7, <2>2, CalmJoin
<1>12. code' = code \o (<<a>> \o s \o <<b, c>> \o r)
  BY <1>5
<1> QED
  BY <1>1, <1>2, <1>3, <1>11, <1>12, QuietMoves

(* Modules.                                                                *)
LEMMA ModuleStep ==
  ASSUME ThirdInv, NEW D, Settled(D), GenModule
  PROVE  Proceeds(D)
<1> DEFINE n == Work.node
<1> PICK name : name = Named(Node(n).name)
  OBVIOUS
<1> PICK inputs : inputs = Node(n).inputs
  OBVIOUS
<1> PICK items : items = Gens(Body(Node(n)), ScopeOf(n)) \o After("leave module", 0)
  OBVIOUS
<1>1. /\ todo # << >> /\ Work.do = "gen" /\ Here.tag = "MODULE" /\ labels' = labels
      /\ Call(items) /\ Node(n).tag = "MODULE"
  BY DEF GenModule, GenAt, GenStep, Generating, Here
<1>2. n \in D /\ n \in AllNodes /\ ProgramInv /\ Trusted(D) /\ labels \in Nat
  BY <1>1, ThirdWork DEF Expressions
<1>3. Own(Work) = {name} /\ Will(Work) = {name}
  <2>1. Own(Work) = {name}
    BY <1>1 DEF Own, InLoop
  <2> QED
    BY <1>1, <2>1 DEF Will
<1>4. IsList(inputs)
  BY <1>1, <1>2 DEF ProgramInv, WellFormed, NodeWellFormed, AreVariables, Node, AllNodes
<1>5. Quiet(items, D)
  <2>1. Quiet(Gens(Body(Node(n)), ScopeOf(n)), D)
    BY <1>1, <1>2, SectionBody DEF Sections, Branching
  <2> QED
    BY <1>1, <1>2, <2>1, QuietAfter
<1> DEFINE en(i) == EntryIn(owned[n], inputs[i])
           stored(i) == Store(en(i).offset, SizeOf[en(i).type.form], ArgumentRegister[i])
           pieces == [i \in DOMAIN inputs |-> IF HasBytes(en(i).type) THEN <<stored(i)>> ELSE << >>]
<1>6. Calm(FlattenSeq(pieces))
  <2>1. ASSUME NEW i \in DOMAIN inputs PROVE Calm(pieces[i])
    <3> PICK x : x = stored(i)
      OBVIOUS
    <3>1. Bland(x)
      BY BlandFacts
    <3>2. pieces[i] = <<x>> \/ pieces[i] = << >>
      OBVIOUS
    <3> HIDE DEF pieces
    <3> QED
      BY <3>1, <3>2, OptionCalm
  <2>2. pieces = [i \in DOMAIN inputs |-> pieces[i]]
    OBVIOUS
  <2> HIDE DEF pieces
  <2> QED
    BY <1>4, <2>1, <2>2, ListCalm
<1> PICK a : a = Label(name)
  OBVIOUS
<1> PICK b : b = Push(<<"rbp">>)
  OBVIOUS
<1> PICK c : c = Copy("rbp", "rsp")
  OBVIOUS
<1> PICK d : d = Move(-FrameSize(n))
  OBVIOUS
<1> PICK s : s = FlattenSeq(pieces)
  OBVIOUS
<1>7. code' = code \o (<<a, b, c, d>> \o s)
  BY DEF GenModule, Emit, Here
<1> HIDE DEF pieces
<1>8. Bland(b) /\ Bland(c) /\ Bland(d)
  BY BlandFacts
<1>9. Tidy(a) /\ Places(a) = {name} /\ Aims(a) = {}
  BY LabelFacts
<1>10. /\ Tidy(b) /\ Places(b) = {} /\ Aims(b) = {} /\ Tidy(c) /\ Places(c) = {} /\ Aims(c) = {}
       /\ Tidy(d) /\ Places(d) = {} /\ Aims(d) = {}
  BY <1>8 DEF Bland
<1>11. Emits(<<a, b, c, d>>, {name}, {})
  <2>1. /\ Apart(Places(a), Places(b)) /\ Apart(Places(a) \cup Places(b), Places(c))
        /\ Apart(Places(a) \cup Places(b) \cup Places(c), Places(d))
    BY <1>9, <1>10 DEF Apart
  <2>2. Emits(<<a, b, c, d>>, Places(a) \cup Places(b) \cup Places(c) \cup Places(d),
              Aims(a) \cup Aims(b) \cup Aims(c) \cup Aims(d))
    BY <1>9, <1>10, <2>1, FourEmit
  <2>3. /\ Places(a) \cup Places(b) \cup Places(c) \cup Places(d) = {name}
        /\ Aims(a) \cup Aims(b) \cup Aims(c) \cup Aims(d) = {}
    BY <1>9, <1>10
  <2> QED
    BY <2>2, <2>3
<1>12. Emits(<<a, b, c, d>> \o s, {name}, {})
  BY <1>6, <1>11, CalmJoin
<1>13. labels' \in Nat /\ labels <= labels'
  <2>1. labels' = labels /\ labels \in Nat
    BY <1>1, <1>2
  <2> QED
    BY ONLY <2>1
<1>14. /\ {name} \subseteq Own(Work) \cup Minted(labels, labels')
       /\ Will(Work) \subseteq {name} /\ {} \subseteq Fixed \cup Wants(Work) \cup {name}
  BY <1>3
<1> PICK t : t = <<a, b, c, d>> \o s
  OBVIOUS
<1>15. Emits(t, {name}, {}) /\ code' = code \o t /\ Call(items)
  BY <1>1, <1>7, <1>12
<1> HIDE DEF n
<1> QED
  BY ONLY <1>2, <1>5, <1>13, <1>14, <1>15, PlacingMoves

-----------------------------------------------------------------------------
(* Switches: pieces that go to one label each.                             *)
AreAimed(seqs, aims, n) ==
  seqs = [i \in 1 .. n |-> seqs[i]] /\ \A i \in 1 .. n : Emits(seqs[i], {}, {aims[i]})
Targets(aims, n) == {aims[i] : i \in 1 .. n}

LEMMA AimedFlatten ==
  ASSUME NEW n \in Nat, NEW seqs, NEW aims, AreAimed(seqs, aims, n)
  PROVE  Emits(FlattenSeq(seqs), {}, Targets(aims, n))
<1> DEFINE flat == FlattenSeq(seqs)
<1>1. /\ seqs = [i \in 1 .. n |-> seqs[i]]
      /\ \A i \in 1 .. n : IsSeq(seqs[i]) /\ LabelsOf(seqs[i]) = {} /\ GoalsOf(seqs[i]) = {aims[i]}
  BY DEF Emits, AreAimed
<1>2. IsSeq(flat) /\ Pieces(flat, seqs, n)
  BY <1>1, FlattenFacts
<1> HIDE DEF flat
<1>3. PICK of, nth :
        /\ \A k \in DOMAIN flat : /\ of[k] \in 1 .. n /\ nth[k] \in DOMAIN seqs[of[k]]
                                  /\ flat[k] = seqs[of[k]][nth[k]]
        /\ \A k, l \in DOMAIN flat : of[k] = of[l] /\ nth[k] = nth[l] => k = l
        /\ \A i \in 1 .. n : \A j \in DOMAIN seqs[i] :
             \E k \in DOMAIN flat : of[k] = i /\ nth[k] = j
  BY <1>2 DEF Pieces
<1>4. ASSUME NEW k \in DOMAIN flat PROVE flat[k].op # "label"
  <2>1. flat[k].op = "label" => flat[k].label \in LabelsOf(seqs[of[k]])
    BY <1>3 DEF LabelsOf
  <2> QED
    BY <1>1, <1>3, <2>1
<1>5. ASSUME NEW k \in DOMAIN flat, flat[k].op \in {"jump", "call"}
      PROVE  flat[k].label \in {aims[i] : i \in 1 .. n}
  <2>1. flat[k].label \in GoalsOf(seqs[of[k]])
    BY <1>3, <1>5 DEF GoalsOf
  <2> QED
    BY <1>1, <1>3, <2>1
<1>6. ASSUME NEW i \in 1 .. n PROVE aims[i] \in GoalsOf(flat)
  <2>1. aims[i] \in GoalsOf(seqs[i])
    BY <1>1
  <2>2. PICK j \in DOMAIN seqs[i] : seqs[i][j].op \in {"jump", "call"} /\ seqs[i][j].label = aims[i]
    BY <2>1 DEF GoalsOf
  <2>3. PICK k \in DOMAIN flat : of[k] = i /\ nth[k] = j
    BY <1>3
  <2>4. flat[k] = seqs[i][j]
    BY <1>3, <2>3
  <2> QED
    BY <2>2, <2>4 DEF GoalsOf
<1>7. LabelsOf(flat) = {} /\ AreLabels(flat) /\ PlacedOnce(flat)
  BY <1>4 DEF LabelsOf, AreLabels, PlacedOnce
<1>8. GoalsOf(flat) = {aims[i] : i \in 1 .. n}
  BY <1>5, <1>6 DEF GoalsOf
<1>9. Emits(flat, {}, {aims[i] : i \in 1 .. n})
  BY <1>2, <1>7, <1>8 DEF Emits
<1> QED
  BY <1>9 DEF flat, Targets

LEMMA CasesFacts ==
  ASSUME ProgramInv, NEW n \in AllNodes, Node(n).tag = "SWITCH"
  PROVE  /\ CasesOf(Node(n)) \in Seq(AllNodes) /\ Node(n).kids \in Seq(AllNodes)
         /\ \A i \in DOMAIN CasesOf(Node(n)) : i \in DOMAIN Node(n).kids /\ CasesOf(Node(n))[i] = Node(n).kids[i]
         /\ Node(n).default \in BOOLEAN
         /\ Len(Node(n).kids) = Len(CasesOf(Node(n))) + IF Node(n).default THEN 1 ELSE 0
         /\ \A i \in DOMAIN Node(n).kids : Node(Node(n).kids[i]).tag # "MODULE"
<1> PICK kids : kids = Node(n).kids
  OBVIOUS
<1> PICK cases : cases = CasesOf(Node(n))
  OBVIOUS
<1>1. /\ kids \in Seq(AllNodes) /\ Node(n).default \in BOOLEAN /\ (Node(n).default => kids # << >>)
      /\ \A i \in DOMAIN kids : Node(kids[i]).tag # "MODULE"
  BY DEF ProgramInv, WellFormed, NodeWellFormed, Node, AllNodes
<1>2. cases = IF Node(n).default THEN SubSeq(kids, 1, Len(kids) - 1) ELSE kids
  BY DEF CasesOf
<1>3. CASE ~Node(n).default
  <2>1. cases = kids
    BY <1>2, <1>3
  <2> QED
    BY <1>1, <1>3, <2>1
<1>4. CASE Node(n).default
  <2>1. Len(kids) \in Nat /\ Len(kids) # 0
    BY <1>1, <1>4, EmptySeq, LenProperties
  <2> PICK m : m = Len(kids) - 1
    OBVIOUS
  <2>2. m \in Nat /\ Len(kids) = m + 1
    BY <2>1
  <2>3. cases = SubSeq(kids, 1, m)
    BY <1>2, <1>4
  <2>4. \A i \in 1 .. m : kids[i] \in AllNodes
    BY <1>1, <2>2
  <2>5. cases \in Seq(AllNodes) /\ Len(cases) = m /\ \A i \in 1 .. m : cases[i] = kids[i]
    BY <1>1, <2>2, <2>3, <2>4
  <2>6. DOMAIN cases = 1 .. m /\ DOMAIN kids = 1 .. m + 1
    BY <1>1, <2>2, <2>5
  <2> QED
    BY <1>1, <1>4, <2>2, <2>5, <2>6
<1> QED
  BY <1>3, <1>4

LEMMA TestsStep ==
  ASSUME ThirdInv, NEW D, Settled(D), GenTests
  PROVE  Proceeds(D)
<1> DEFINE n == Work.node
<1> PICK k : k = Work.nth
  OBVIOUS
<1> PICK cases : cases = CasesOf(Node(n))
  OBVIOUS
<1> PICK last : last = SwitchLabel(Work, 0)
  OBVIOUS
<1> PICK start : start = SwitchLabel(Work, 1)
  OBVIOUS
<1> PICK end : end = SwitchLabel(Work, 2)
  OBVIOUS
<1>1. todo # << >> /\ Work.do = "tests" /\ Call(<< >>) /\ labels' = labels
  BY DEF GenTests, GenStep, Generating
<1>2. /\ n \in AllNodes /\ ProgramInv /\ labels \in Nat /\ Node(n).tag = "SWITCH"
      /\ k \in Nat /\ Quiet(<< >>, D)
  <2>1. n \in AllNodes /\ ProgramInv /\ labels \in Nat /\ Sound(Work, D) /\ k \in Nat
    BY <1>1, ThirdWork
  <2> QED
    BY <1>1, <2>1, QuietNone DEF Sound
<1> PICK count : count = Len(cases)
  OBVIOUS
<1>3. count \in Nat /\ DOMAIN cases = 1 .. count /\ count = CaseCount(Work)
  <2>1. cases \in Seq(AllNodes)
    BY <1>2, CasesFacts
  <2> QED
    BY <2>1 DEF CaseCount
<1>4. /\ last = Numbered(k + count + 0) /\ start = Numbered(k + count + 1)
      /\ end = Numbered(k + count + 2)
  BY <1>3 DEF SwitchLabel
<1>5. start # end
  <2>1. Sound(Work, D)
    BY <1>1, ThirdWork
  <2> QED
    BY <1>1, <2>1 DEF Sound
<1> DEFINE pieces == [i \in DOMAIN cases |->
             <<CompareWith("r8", Node(cases[i]).value), Jump("z", Numbered(k + i - 1))>>]
           aims == [i \in 1 .. count |-> Numbered(k + i - 1)]
           beyond == IF Node(n).default THEN <<Jump("always", last)>> ELSE << >>
           goals == {aims[i] : i \in 1 .. count}
           rest  == IF Node(n).default THEN {last} ELSE {}
<1>6. code' = code \o (<<Label(start)>> \o FlattenSeq(pieces) \o beyond \o <<Label(end)>>)
  BY DEF GenTests, Emit, Here, TestLabel, EndLabel, DefaultLabel, LabelAfter, SwitchLabel, CaseCount
<1>7. Emits(FlattenSeq(pieces), {}, goals)
  <2>1. ASSUME NEW i \in 1 .. count PROVE Emits(pieces[i], {}, {aims[i]})
    <3> PICK a : a = CompareWith("r8", Node(cases[i]).value)
      OBVIOUS
    <3> PICK b : b = Jump("z", aims[i])
      OBVIOUS
    <3>1. pieces[i] = <<a, b>>
      BY <1>3
    <3> HIDE DEF pieces, aims
    <3>2. Bland(a)
      BY BlandFacts
    <3>3. Tidy(b) /\ Places(b) = {} /\ Aims(b) = {aims[i]}
      BY LabelFacts
    <3>4. Tidy(a) /\ Places(a) = {} /\ Aims(a) = {} /\ Apart(Places(a), Places(b))
      BY <3>2, <3>3 DEF Bland, Apart
    <3>5. Emits(<<a, b>>, Places(a) \cup Places(b), Aims(a) \cup Aims(b))
      BY <3>3, <3>4, TwoEmit
    <3>6. Places(a) \cup Places(b) = {} /\ Aims(a) \cup Aims(b) = {aims[i]}
      BY <3>3, <3>4
    <3> QED
      BY <3>1, <3>5, <3>6
  <2>2. pieces = [i \in 1 .. count |-> pieces[i]]
    BY <1>3
  <2> PICK seqs : seqs = pieces
    OBVIOUS
  <2> PICK to : to = aims
    OBVIOUS
  <2>3. count \in Nat /\ AreAimed(seqs, to, count)
    BY <1>3, <2>1, <2>2 DEF AreAimed
  <2>4. Emits(FlattenSeq(seqs), {}, Targets(to, count))
    BY <2>3, AimedFlatten
  <2>5. Targets(to, count) = goals
    BY DEF Targets
  <2> QED
    BY <2>4, <2>5
<1>8. Emits(beyond, {}, rest)
  <2>1. CASE Node(n).default
    <3> PICK a : a = Jump("always", last)
      OBVIOUS
    <3>1. Tidy(a) /\ Places(a) = {} /\ Aims(a) = {last}
      BY LabelFacts
    <3>2. Emits(<<a>>, {}, {last})
      BY <3>1, OneEmits
    <3> QED
      BY <2>1, <3>2
  <2>2. CASE ~Node(n).default
    <3>1. Emits(<< >>, {}, {})
      BY CalmPlain DEF Calm
    <3> QED
      BY <2>2, <3>1
  <2> QED
    BY <2>1, <2>2
<1>9. Wants(Work) = goals \cup rest
  <2>1. Wants(Work) = {Numbered(Work.nth + i - 1) : i \in 1 .. CaseCount(Work)}
                      \cup IF Node(Work.node).default THEN {SwitchLabel(Work, 0)} ELSE {}
    BY <1>1 DEF Wants, InLoop
  <2> QED
    BY <1>3, <2>1
<1>10. Own(Work) = {start, end} /\ Will(Work) = {start, end}
  <2>1. Own(Work) = {start, end}
    BY <1>1 DEF Own, InLoop
  <2> QED
    BY <1>1, <2>1 DEF Will
<1> PICK s : s = FlattenSeq(pieces)
  OBVIOUS
<1> PICK r : r = beyond
  OBVIOUS
<1> PICK x : x = Label(start)
  OBVIOUS
<1> PICK y : y = Label(end)
  OBVIOUS
<1> HIDE DEF pieces, beyond, goals, rest
<1>11. Emits(<<x>>, {start}, {}) /\ Emits(<<y>>, {end}, {})
  <2>1. Tidy(x) /\ Places(x) = {start} /\ Aims(x) = {}
    BY LabelFacts
  <2>2. Tidy(y) /\ Places(y) = {end} /\ Aims(y) = {}
    BY LabelFacts
  <2>3. Emits(<<x>>, {start}, {})
    BY <2>1, OneEmits
  <2>4. Emits(<<y>>, {end}, {})
    BY <2>2, OneEmits
  <2> QED
    BY <2>3, <2>4
<1>12. Emits(<<x>> \o s \o r \o <<y>>, {start, end}, Wants(Work))
  <2>1. {start} \cap {} = {} /\ {start} \cap {end} = {} /\ {start} \cup {} = {start}
        /\ {start} \cup {end} = {start, end}
    BY <1>5
  <2>2. Emits(<<x>> \o s, {start} \cup {}, {} \cup goals)
    BY <1>7, <1>11, <2>1, CodeConcat
  <2>3. Emits(<<x>> \o s, {start}, goals)
    <3>1. {start} \cup {} = {start} /\ {} \cup goals = goals
      OBVIOUS
    <3> QED
      BY <2>2, <3>1
  <2>4. Emits(<<x>> \o s \o r, {start} \cup {}, goals \cup rest)
    BY <1>8, <2>1, <2>3, CodeConcat
  <2>5. Emits(<<x>> \o s \o r, {start}, Wants(Work))
    BY <1>9, <2>1, <2>4
  <2>6. Emits((<<x>> \o s \o r) \o <<y>>, {start} \cup {end}, Wants(Work) \cup {})
    BY <1>11, <2>1, <2>5, CodeConcat
  <2>7. Wants(Work) \cup {} = Wants(Work)
    OBVIOUS
  <2> QED
    BY <2>1, <2>6, <2>7
<1>13. labels' \in Nat /\ labels <= labels'
  <2>1. labels' = labels /\ labels \in Nat
    BY <1>1, <1>2
  <2> QED
    BY ONLY <2>1
<1> PICK p : p = {start, end}
  OBVIOUS
<1> PICK w : w = Wants(Work)
  OBVIOUS
<1> PICK t : t = <<x>> \o s \o r \o <<y>>
  OBVIOUS
<1>14. p \subseteq Own(Work) \cup Minted(labels, labels')
       /\ Will(Work) \subseteq p /\ w \subseteq Fixed \cup Wants(Work) \cup p
  BY <1>10
<1>15. Emits(t, p, w) /\ code' = code \o t /\ Call(<< >>)
  BY <1>1, <1>6, <1>12
<1> HIDE DEF n
<1> QED
  BY ONLY <1>2, <1>13, <1>14, <1>15, PlacingMoves

(* An arm of a switch: its label, the case, and the jump behind the tests. *)
ArmOf(arm, door, end, D) ==
  /\ IsSeq(arm) /\ DOMAIN arm = {1, 2, 3} /\ \A j \in {1, 2, 3} : Sound(arm[j], D)
  /\ Own(arm[1]) = {door} /\ Will(arm[1]) = {door} /\ Wants(arm[1]) = {}
  /\ Silent(arm[2])
  /\ Own(arm[3]) = {} /\ Will(arm[3]) = {} /\ Wants(arm[3]) = {end}
AreArms(seqs, doors, end, m, D) ==
  /\ seqs = [i \in 1 .. m |-> seqs[i]] /\ \A i \in 1 .. m : ArmOf(seqs[i], doors[i], end, D)
  /\ \A i, j \in 1 .. m : doors[i] = doors[j] => i = j

LEMMA ThreeFacts ==
  ASSUME NEW a, NEW b, NEW c, NEW s, s = <<a, b, c>>
  PROVE  IsSeq(s) /\ DOMAIN s = {1, 2, 3} /\ s[1] = a /\ s[2] = b /\ s[3] = c
<1>1. s \in Seq({a, b, c}) /\ DOMAIN s = 1 .. 3 /\ s[1] = a /\ s[2] = b /\ s[3] = c
  OBVIOUS
<1>2. 1 .. 3 = {1, 2, 3}
  OBVIOUS
<1> QED
  BY <1>1, <1>2, RangeSeq

LEMMA OneGen ==
  ASSUME NEW a, NEW t
  PROVE  Gens(<<a>>, t) = <<Item("gen", a, t, 0)>>
<1> DEFINE y == Item("gen", a, t, 0)
           g == [i \in 1 .. 1 |-> y]
           one == <<y>>
<1>1. Gens(<<a>>, t) = g
  BY DEF Gens
<1> HIDE DEF y
<1>2. g \in Seq({y}) /\ Len(g) = 1 /\ g[1] = y
  OBVIOUS
<1>3. one \in Seq({y}) /\ Len(one) = 1 /\ one[1] = y
  OBVIOUS
<1> HIDE DEF g, one
<1>4. \A i \in 1 .. Len(g) : g[i] = one[i]
  BY <1>2, <1>3
<1>5. g = one
  BY <1>2, <1>3, <1>4, SeqEqual
<1> QED
  BY <1>1, <1>5 DEF y, one

LEMMA ArmFacts ==
  ASSUME NEW D, Work.node \in AllNodes, NEW a \in AllNodes, a \in D, Node(a).tag # "MODULE",
         NEW k \in Nat, labels \in Nat
  PROVE  ArmOf(Arm(a, k), Numbered(k), Numbered(labels + Len(CasesOf(Here)) + 2), D)
<1> PICK x : x = Item("label", Work.node, Work.table, k)
  OBVIOUS
<1> PICK y : y = Item("gen", a, Work.table, 0)
  OBVIOUS
<1> PICK z : z = Item("end arm", Work.node, Work.table, labels)
  OBVIOUS
<1>1. x.do = "label" /\ x.node = Work.node /\ x.nth = k
  BY DEF Item
<1>2. y.do = "gen" /\ y.node = a /\ y.nth = 0
  BY DEF Item
<1>3. z.do = "end arm" /\ z.node = Work.node /\ z.nth = labels
  BY DEF Item
<1>4. Arm(a, k) = <<x, y, z>>
  <2>1. Gens(<<a>>, Work.table) = <<y>>
    BY OneGen
  <2>2. Arm(a, k) = <<x>> \o <<y>> \o <<z>>
    BY <2>1 DEF Arm, After
  <2>3. <<x, y>> = <<x>> \o <<y>>
    BY ONLY Tuples
  <2>4. <<x, y, z>> = <<x, y>> \o <<z>>
    BY ONLY Tuples
  <2> QED
    BY <2>2, <2>3, <2>4
<1>5. Own(x) = {Numbered(k)} /\ Wants(x) = {}
  <2>1. Own(x) = {Numbered(k)}
    BY <1>1 DEF Own, InLoop
  <2>2. Wants(x) = {}
    BY <1>1 DEF Wants, InLoop
  <2> QED
    BY <2>1, <2>2
<1>6. Will(x) = {Numbered(k)}
  BY <1>1, <1>5 DEF Will
<1>7. Silent(y)
  <2>1. Own(y) = {}
    BY <1>2 DEF Own, InLoop
  <2>2. Wants(y) = {}
    BY <1>2 DEF Wants, InLoop
  <2> QED
    BY <2>1, <2>2 DEF Silent
<1>8. Own(z) = {} /\ Wants(z) = {Numbered(labels + Len(CasesOf(Here)) + 2)}
  <2>1. Own(z) = {}
    BY <1>3 DEF Own, InLoop
  <2>2. Wants(z) = {SwitchLabel(z, 2)}
    BY <1>3 DEF Wants, InLoop
  <2>3. SwitchLabel(z, 2) = Numbered(labels + Len(CasesOf(Here)) + 2)
    BY <1>3 DEF SwitchLabel, CaseCount, Here
  <2> QED
    BY <2>1, <2>2, <2>3
<1>9. Will(z) = {}
  BY <1>3, <1>8 DEF Will
<1>10. Sound(x, D) /\ Sound(z, D)
  BY <1>1, <1>3 DEF Sound
<1>11. Sound(y, D)
  <2>1. y.nth \in Nat
    <3>1. y.nth = 0 /\ 0 \in Nat
      BY <1>2
    <3> QED
      BY ONLY <3>1
  <2> QED
    BY <1>2, <2>1 DEF Sound
<1>a. PICK arm : arm = <<x, y, z>>
  OBVIOUS
<1>12. IsSeq(arm) /\ DOMAIN arm = {1, 2, 3} /\ arm[1] = x /\ arm[2] = y /\ arm[3] = z
  BY ONLY <1>a, ThreeFacts
<1>13. ArmOf(arm, Numbered(k), Numbered(labels + Len(CasesOf(Here)) + 2), D)
  BY <1>5, <1>6, <1>7, <1>8, <1>9, <1>10, <1>11, <1>12 DEF ArmOf
<1> QED
  BY <1>a, <1>4, <1>13

LEMMA ArmsFlatten ==
  ASSUME NEW m \in Nat, NEW seqs, NEW doors, NEW end, NEW D, AreArms(seqs, doors, end, m, D)
  PROVE  LET flat == FlattenSeq(seqs) IN
         /\ IsSeq(flat) /\ \A k \in DOMAIN flat : Sound(flat[k], D)
         /\ Owns(flat) = Targets(doors, m) /\ Willed(flat) = Targets(doors, m)
         /\ Wanted(flat) \subseteq {end} /\ Separate(flat)
<1> DEFINE flat == FlattenSeq(seqs)
<1>1. /\ seqs = [i \in 1 .. m |-> seqs[i]] /\ \A i \in 1 .. m : ArmOf(seqs[i], doors[i], end, D)
      /\ \A i, j \in 1 .. m : doors[i] = doors[j] => i = j
  BY DEF AreArms
<1>2. IsSeq(flat) /\ Pieces(flat, seqs, m)
  <2>1. \A i \in 1 .. m : IsSeq(seqs[i])
    BY <1>1 DEF ArmOf
  <2> QED
    BY <1>1, <2>1, FlattenFacts
<1> HIDE DEF flat
<1>3. PICK of, nth :
        /\ \A k \in DOMAIN flat : /\ of[k] \in 1 .. m /\ nth[k] \in DOMAIN seqs[of[k]]
                                  /\ flat[k] = seqs[of[k]][nth[k]]
        /\ \A k, l \in DOMAIN flat : of[k] = of[l] /\ nth[k] = nth[l] => k = l
        /\ \A i \in 1 .. m : \A j \in DOMAIN seqs[i] :
             \E k \in DOMAIN flat : of[k] = i /\ nth[k] = j
  BY <1>2 DEF Pieces
<1>4. ASSUME NEW k \in DOMAIN flat
      PROVE  /\ Sound(flat[k], D)
             /\ \/ nth[k] = 1 /\ Own(flat[k]) = {doors[of[k]]} /\ Will(flat[k]) = {doors[of[k]]}
                              /\ Wants(flat[k]) = {}
                \/ Own(flat[k]) = {} /\ Will(flat[k]) = {} /\ Wants(flat[k]) \subseteq {end}
  <2> PICK i : i = of[k]
    OBVIOUS
  <2> PICK arm : arm = seqs[i]
    OBVIOUS
  <2>1. i \in 1 .. m /\ nth[k] \in DOMAIN arm /\ flat[k] = arm[nth[k]] /\ ArmOf(arm, doors[i], end, D)
    BY <1>1, <1>3
  <2>2. nth[k] = 1 \/ nth[k] = 2 \/ nth[k] = 3
    BY <2>1 DEF ArmOf
  <2>3. Sound(flat[k], D)
    BY <2>1, <2>2 DEF ArmOf
  <2>4. CASE nth[k] = 1
    BY <2>1, <2>3, <2>4 DEF ArmOf
  <2>5. CASE nth[k] = 2
    BY <2>1, <2>3, <2>5 DEF ArmOf, Silent, Will
  <2>6. CASE nth[k] = 3
    BY <2>1, <2>3, <2>6 DEF ArmOf
  <2> QED
    BY <2>2, <2>4, <2>5, <2>6
<1>5. \A i \in 1 .. m : \E k \in DOMAIN flat :
        nth[k] = 1 /\ Own(flat[k]) = {doors[i]} /\ Will(flat[k]) = {doors[i]}
  <2> SUFFICES ASSUME NEW i \in 1 .. m
               PROVE  \E k \in DOMAIN flat :
                        nth[k] = 1 /\ Own(flat[k]) = {doors[i]} /\ Will(flat[k]) = {doors[i]}
    OBVIOUS
  <2>1. 1 \in DOMAIN seqs[i]
    BY <1>1 DEF ArmOf
  <2>2. PICK k \in DOMAIN flat : of[k] = i /\ nth[k] = 1
    BY <1>3, <2>1
  <2>3. flat[k] = seqs[i][1] /\ ArmOf(seqs[i], doors[i], end, D)
    BY <1>1, <1>3, <2>2
  <2> QED
    BY <2>2, <2>3 DEF ArmOf
<1>6. Owns(flat) = Targets(doors, m)
  <2>1. \A k \in DOMAIN flat : Own(flat[k]) \subseteq Targets(doors, m)
    BY <1>3, <1>4 DEF Targets
  <2>2. \A i \in 1 .. m : doors[i] \in Owns(flat)
    BY <1>5, Unfolded
  <2> QED
    BY <2>1, <2>2 DEF Owns, Targets
<1>7. Willed(flat) = Targets(doors, m)
  <2>1. \A k \in DOMAIN flat : Will(flat[k]) \subseteq Targets(doors, m)
    BY <1>3, <1>4 DEF Targets
  <2>2. \A i \in 1 .. m : doors[i] \in Willed(flat)
    BY <1>5, Unfolded
  <2> QED
    BY <2>1, <2>2 DEF Willed, Targets
<1>8. Wanted(flat) \subseteq {end}
  BY <1>4 DEF Wanted
<1>9. Separate(flat)
  <2> SUFFICES ASSUME NEW k \in DOMAIN flat, NEW l \in DOMAIN flat, k # l,
                      NEW x, x \in Own(flat[k]), x \in Own(flat[l])
               PROVE  FALSE
    BY DEF Separate, Apart
  <2>1. nth[k] = 1 /\ x = doors[of[k]] /\ nth[l] = 1 /\ x = doors[of[l]]
    BY <1>4
  <2>2. of[k] = of[l]
    BY <1>1, <1>3, <2>1
  <2> QED
    BY <1>3, <2>1, <2>2
<1>10. /\ IsSeq(flat) /\ \A k \in DOMAIN flat : Sound(flat[k], D)
       /\ Owns(flat) = Targets(doors, m) /\ Willed(flat) = Targets(doors, m)
       /\ Wanted(flat) \subseteq {end} /\ Separate(flat)
  BY <1>2, <1>4, <1>6, <1>7, <1>8, <1>9
<1> QED
  BY <1>10 DEF flat

(* One more item behind others.                                            *)
LEMMA BooksJoin ==
  ASSUME NEW s, NEW x, NEW D, IsSeq(s), Separate(s), Apart(Owns(s), Own(x)), Sound(x, D),
         \A k \in DOMAIN s : Sound(s[k], D)
  PROVE  LET c == s \o <<x>> IN
         /\ IsSeq(c) /\ \A k \in DOMAIN c : Sound(c[k], D)
         /\ Owns(c) = Owns(s) \cup Own(x) /\ Willed(c) = Willed(s) \cup Will(x)
         /\ Wanted(c) = Wanted(s) \cup Wants(x) /\ Separate(c)
<1> DEFINE one == <<x>>
           c == s \o one
<1>1. IsSeq(one) /\ DOMAIN one = {1} /\ one[1] = x
  BY DEF IsSeq
<1> HIDE DEF one
<1>2. Joins(c, s, one)
  BY <1>1, ConcatSeqs
<1> HIDE DEF c
<1> PICK last : last = Len(s) + 1
  OBVIOUS
<1>3. IsSeq(c) /\ last \in DOMAIN c /\ c[last] = x
  BY <1>1, <1>2 DEF Joins
<1>4. ASSUME NEW k \in DOMAIN c
      PROVE  (k \in DOMAIN s /\ c[k] = s[k]) \/ (k = last /\ c[k] = x)
  <2>1. CASE k - Len(s) \in DOMAIN one /\ c[k] = one[k - Len(s)]
    <3>1. k - Len(s) = 1 /\ k \in Nat /\ Len(s) \in Nat
      BY <1>1, <1>2, <2>1, SeqFacts DEF Joins
    <3>2. k = Len(s) + 1
      BY <3>1
    <3> QED
      BY <1>3, <3>2
  <2> QED
    BY <1>2, <2>1 DEF Joins
<1>5. \A k \in DOMAIN s : k \in DOMAIN c /\ c[k] = s[k]
  BY <1>2 DEF Joins
<1>6. Owns(c) = Owns(s) \cup Own(x)
  BY <1>3, <1>4, <1>5 DEF Owns
<1>7. Willed(c) = Willed(s) \cup Will(x)
  BY <1>3, <1>4, <1>5 DEF Willed
<1>8. Wanted(c) = Wanted(s) \cup Wants(x)
  BY <1>3, <1>4, <1>5 DEF Wanted
<1>9. Separate(c)
  <2>1. \A k \in DOMAIN s : Apart(Own(s[k]), Own(x)) /\ Apart(Own(x), Own(s[k]))
    BY Unfolded DEF Apart
  <2>2. \A k, l \in DOMAIN s : k # l => Apart(Own(s[k]), Own(s[l]))
    BY DEF Separate
  <2> QED
    BY <1>4, <2>1, <2>2 DEF Separate
<1>10. \A k \in DOMAIN c : Sound(c[k], D)
  BY <1>4
<1>11. /\ IsSeq(c) /\ \A k \in DOMAIN c : Sound(c[k], D)
       /\ Owns(c) = Owns(s) \cup Own(x) /\ Willed(c) = Willed(s) \cup Will(x)
       /\ Wanted(c) = Wanted(s) \cup Wants(x) /\ Separate(c)
  BY <1>3, <1>6, <1>7, <1>8, <1>9, <1>10
<1> QED
  BY <1>11 DEF c, one

(* The item of the tests has the labels of the arms to go to.              *)
LEMMA TestsItem ==
  ASSUME NEW D, ProgramInv, Work.node \in AllNodes, Here.tag = "SWITCH", labels \in Nat,
         NEW c \in Nat, c = Len(CasesOf(Here)), labels + c + 3 <= LabelsMax,
         NEW x, x = Item("tests", Work.node, Work.table, labels)
  PROVE  /\ Sound(x, D)
         /\ Own(x) = {Numbered(labels + c + 1), Numbered(labels + c + 2)}
         /\ Will(x) = {Numbered(labels + c + 1), Numbered(labels + c + 2)}
         /\ Wants(x) = {Numbered(labels + i - 1) : i \in 1 .. c}
                       \cup IF Here.default THEN {Numbered(labels + c + 0)} ELSE {}
<1>1. x.do = "tests" /\ x.node = Work.node /\ x.nth = labels
  BY DEF Item
<1>2. CaseCount(x) = c
  BY <1>1 DEF CaseCount, Here
<1>3. SwitchLabel(x, 0) = Numbered(labels + c + 0) /\ SwitchLabel(x, 1) = Numbered(labels + c + 1)
      /\ SwitchLabel(x, 2) = Numbered(labels + c + 2)
  BY <1>1, <1>2 DEF SwitchLabel
<1>4. Own(x) = {Numbered(labels + c + 1), Numbered(labels + c + 2)}
  <2>1. Own(x) = {SwitchLabel(x, 1), SwitchLabel(x, 2)}
    BY <1>1 DEF Own, InLoop
  <2> QED
    BY <1>3, <2>1
<1>5. Will(x) = Own(x)
  BY <1>1 DEF Will
<1>6. Wants(x) = {Numbered(labels + i - 1) : i \in 1 .. c}
                 \cup IF Here.default THEN {Numbered(labels + c + 0)} ELSE {}
  <2>1. Wants(x) = {Numbered(x.nth + i - 1) : i \in 1 .. CaseCount(x)}
                   \cup IF Node(x.node).default THEN {SwitchLabel(x, 0)} ELSE {}
    BY <1>1 DEF Wants, InLoop
  <2> QED
    BY <1>1, <1>2, <1>3, <2>1 DEF Here
<1>7. Sound(x, D)
  <2>1. labels + c + 1 < LabelsMax /\ labels + c + 2 < LabelsMax /\ labels + c + 1 # labels + c + 2
    BY LabelsMost
  <2>2. SwitchLabel(x, 1) # SwitchLabel(x, 2)
    BY <1>3, <2>1, NumbersDiffer
  <2> QED
    BY <1>1, <2>2 DEF Sound, Here
<1> QED
  BY <1>4, <1>5, <1>6, <1>7

(* What a switch prints before its arms: p is the label of the boolean one.*)
LEMMA SwitchHead ==
  ASSUME labels \in Nat, NEW a, Bland(a), NEW start, NEW skip
  PROVE  /\ Emits(<<a>> \o << >> \o <<Jump("always", start)>>, {}, {start})
         /\ Emits(<<a>> \o <<CompareWith("r8", 0), Jump("z", skip), Set("r8", 1), Label(skip)>>
                  \o <<Jump("always", start)>>, {skip}, {skip, start})
<1> PICK z : z = Jump("always", start)
  OBVIOUS
<1>1. Tidy(z) /\ Places(z) = {} /\ Aims(z) = {start}
  BY LabelFacts
<1>2. Emits(<<z>>, {}, {start})
  BY <1>1, OneEmits
<1>3. Calm(<<a>>) /\ Calm(<< >>)
  BY CalmTuples, CalmPlain
<1>4. Emits(<<a>> \o << >> \o <<z>>, {}, {start})
  <2>1. Calm(<<a>> \o << >>)
    BY <1>3, CalmJoins
  <2> QED
    BY <1>2, <2>1, CalmJoin
<1> PICK b : b = CompareWith("r8", 0)
  OBVIOUS
<1> PICK c : c = Jump("z", skip)
  OBVIOUS
<1> PICK d : d = Set("r8", 1)
  OBVIOUS
<1> PICK e : e = Label(skip)
  OBVIOUS
<1>5. Emits(<<b, c, d, e>>, {skip}, {skip})
  <2>1. Bland(b) /\ Bland(d)
    BY BlandFacts
  <2>2. Tidy(c) /\ Places(c) = {} /\ Aims(c) = {skip}
    BY LabelFacts
  <2>3. Tidy(e) /\ Places(e) = {skip} /\ Aims(e) = {}
    BY LabelFacts
  <2>4. /\ Tidy(b) /\ Places(b) = {} /\ Aims(b) = {} /\ Tidy(d) /\ Places(d) = {} /\ Aims(d) = {}
        /\ Apart(Places(b), Places(c)) /\ Apart(Places(b) \cup Places(c), Places(d))
        /\ Apart(Places(b) \cup Places(c) \cup Places(d), Places(e))
    BY <2>1, <2>2, <2>3 DEF Bland, Apart
  <2>5. Emits(<<b, c, d, e>>, Places(b) \cup Places(c) \cup Places(d) \cup Places(e),
              Aims(b) \cup Aims(c) \cup Aims(d) \cup Aims(e))
    BY <2>2, <2>3, <2>4, FourEmit
  <2>6. /\ Places(b) \cup Places(c) \cup Places(d) \cup Places(e) = {skip}
        /\ Aims(b) \cup Aims(c) \cup Aims(d) \cup Aims(e) = {skip}
    BY <2>2, <2>3, <2>4
  <2> QED
    BY <2>5, <2>6
<1>6. Emits(<<a>> \o <<b, c, d, e>> \o <<z>>, {skip}, {skip, start})
  <2> PICK test : test = <<b, c, d, e>>
    OBVIOUS
  <2>1. Emits(<<a>> \o test, {skip}, {skip})
    BY <1>3, <1>5, CalmJoin
  <2>2. {skip} \cap {} = {} /\ {skip} \cup {} = {skip} /\ {skip} \cup {start} = {skip, start}
    OBVIOUS
  <2>3. Emits((<<a>> \o test) \o <<z>>, {skip} \cup {}, {skip} \cup {start})
    BY <1>2, <2>1, <2>2, CodeConcat
  <2> QED
    BY <2>2, <2>3
<1> QED
  BY <1>4, <1>6

(* The labels a switch gives its arms, in the order of the arms.          *)
Doors(n, m) == [i \in 1 .. m |-> Numbered(n + i - 1)]

(* The arithmetic of the labels of a switch.                               *)
LEMMA SwitchNumbers ==
  ASSUME NEW n \in Nat, NEW c \in Nat, NEW m \in Nat, m <= c + 1, n + c + 3 <= LabelsMax
  PROVE  /\ \A i \in 1 .. m : n + i - 1 \in Nat /\ n + i - 1 >= n /\ n + i - 1 < n + c + 1
         /\ \A i, j \in 1 .. m : Doors(n, m)[i] = Doors(n, m)[j] => i = j
         /\ \A k \in {1, 2, 3} : n + c + k < LabelsMax => Numbered(n + c + k) \notin Targets(Doors(n, m), m)
         /\ n + c + 3 < LabelsMax => /\ Numbered(n + c + 3) # Numbered(n + c + 1)
                                     /\ Numbered(n + c + 3) # Numbered(n + c + 2)
<1>1. \A i \in 1 .. m : n + i - 1 \in Nat /\ n + i - 1 >= n /\ n + i - 1 < n + c + 1
  OBVIOUS
<1>a. \A i \in 1 .. m : n + i - 1 < LabelsMax
  BY <1>1, LabelsMost
<1>2. ASSUME NEW i \in 1 .. m, NEW j \in 1 .. m, Doors(n, m)[i] = Doors(n, m)[j] PROVE i = j
  <2>1. n + i - 1 = n + j - 1
    BY <1>a, <1>2, NumbersDiffer DEF Doors
  <2> QED
    BY <2>1
<1>3. ASSUME NEW k \in {1, 2, 3}, n + c + k < LabelsMax, Numbered(n + c + k) \in Targets(Doors(n, m), m)
      PROVE  FALSE
  <2>1. PICK i \in 1 .. m : Numbered(n + c + k) = Numbered(n + i - 1)
    BY <1>3 DEF Targets, Doors
  <2>2. n + c + k = n + i - 1
    BY <1>a, <1>3, <2>1, NumbersDiffer
  <2> QED
    BY <1>1, <2>2
<1>4. ASSUME n + c + 3 < LabelsMax
      PROVE  Numbered(n + c + 3) # Numbered(n + c + 1) /\ Numbered(n + c + 3) # Numbered(n + c + 2)
  <2>1. /\ n + c + 3 # n + c + 1 /\ n + c + 3 # n + c + 2
        /\ n + c + 1 < LabelsMax /\ n + c + 2 < LabelsMax
    BY <1>4, LabelsMost
  <2> QED
    BY <1>4, <2>1, NumbersDiffer
<1> QED
  BY <1>1, <1>2, <1>3, <1>4

(* The cases of a switch, its arms, how many there are of each, the form of*)
(* its variable.                                                           *)
SwitchParts(cases, arms, c, m, form, D) ==
  /\ form = note[Work.node].type.form /\ cases = CasesOf(Here)
  /\ arms = (IF form = "INTEGER" THEN Here.kids ELSE CasesOf(Here))
  /\ c \in Nat /\ c = Len(cases) /\ m \in Nat /\ DOMAIN arms = 1 .. m
  /\ \A i \in 1 .. m : arms[i] \in AllNodes /\ arms[i] \in D /\ Node(arms[i]).tag # "MODULE"
  /\ \/ form = "INTEGER" /\ Here.default /\ m = c + 1
     \/ form = "BOOLEAN" /\ ~Here.default /\ m = c

LEMMA SwitchArms ==
  ASSUME ThirdInv, NEW D, Settled(D), GenSwitch
  PROVE  /\ todo # << >> /\ Work.do = "gen" /\ Here.tag = "SWITCH"
         /\ \E cases, arms, c, m, form : SwitchParts(cases, arms, c, m, form, D)
<1> DEFINE n == Work.node
<1>1. todo # << >> /\ Work.do = "gen" /\ Here.tag = "SWITCH" /\ Node(n).tag = "SWITCH"
  BY DEF GenSwitch, GenAt, GenStep, Generating, Here
<1>2. n \in D /\ n \in AllNodes /\ ProgramInv /\ Trusted(D)
  BY <1>1, ThirdWork DEF Expressions
<1> PICK form : form = note[n].type.form
  OBVIOUS
<1> PICK kids : kids = Node(n).kids
  OBVIOUS
<1> PICK cases : cases = CasesOf(Node(n))
  OBVIOUS
<1> PICK arms : arms = IF form = "INTEGER" THEN kids ELSE cases
  OBVIOUS
<1> PICK c : c = Len(cases)
  OBVIOUS
<1> PICK m : m = Len(arms)
  OBVIOUS
<1>3. form \in {"INTEGER", "BOOLEAN"} /\ (form = "BOOLEAN") # Node(n).default
  BY <1>1, <1>2 DEF Trusted, Good
<1>4. /\ cases \in Seq(AllNodes) /\ kids \in Seq(AllNodes)
      /\ \A i \in DOMAIN cases : i \in DOMAIN kids /\ cases[i] = kids[i]
      /\ Node(n).default \in BOOLEAN /\ Len(kids) = c + IF Node(n).default THEN 1 ELSE 0
      /\ \A i \in DOMAIN kids : Node(kids[i]).tag # "MODULE"
  BY <1>1, <1>2, CasesFacts
<1>5. ASSUME NEW i \in DOMAIN kids PROVE kids[i] \in D /\ kids[i] \in AllNodes
  <2>1. Parts(n) = {kids[k] : k \in DOMAIN kids}
    BY <1>1 DEF Parts, Sections, Branching, Body
  <2>2. Parts(n) \subseteq D
    BY <1>2 DEF Trusted, Spread
  <2> QED
    BY <1>4, <1>5, <2>1, <2>2
<1>6. c \in Nat /\ DOMAIN cases = 1 .. c
  BY <1>4
<1>7. CASE form = "INTEGER"
  <2>1. Node(n).default /\ arms = kids
    BY <1>3, <1>4, <1>7
  <2>2. m = c + 1
    BY <1>4, <1>6, <2>1
  <2>3. m \in Nat /\ DOMAIN arms = 1 .. m
    BY <1>4, <2>1
  <2>4. \A i \in 1 .. m : arms[i] \in AllNodes /\ arms[i] \in D /\ Node(arms[i]).tag # "MODULE"
    BY <1>4, <1>5, <2>1, <2>3
  <2> QED
    BY <1>1, <1>6, <1>7, <2>1, <2>2, <2>3, <2>4 DEF Here, SwitchParts
<1>8. CASE form = "BOOLEAN"
  <2>1. ~Node(n).default /\ arms = cases
    BY <1>3, <1>4, <1>8
  <2>2. m = c /\ m \in Nat /\ DOMAIN arms = 1 .. m
    BY <1>6, <2>1
  <2>3. \A i \in 1 .. m : arms[i] \in AllNodes /\ arms[i] \in D /\ Node(arms[i]).tag # "MODULE"
    BY <1>4, <1>5, <2>1, <2>2
  <2>4. /\ form = note[Work.node].type.form /\ cases = CasesOf(Here)
        /\ arms = (IF form = "INTEGER" THEN Here.kids ELSE CasesOf(Here))
        /\ c \in Nat /\ c = Len(cases) /\ m \in Nat /\ DOMAIN arms = 1 .. m
        /\ \A i \in 1 .. m : arms[i] \in AllNodes /\ arms[i] \in D /\ Node(arms[i]).tag # "MODULE"
        /\ form = "BOOLEAN" /\ ~Here.default /\ m = c
    BY <1>6, <1>8, <2>1, <2>2, <2>3 DEF Here
  <2> QED
    BY <1>1, <2>4 DEF SwitchParts
<1> QED
  BY <1>3, <1>7, <1>8

(* The items a switch leaves: its arms, then its tests.                   *)
LEMMA SwitchItems ==
  ASSUME ThirdInv, NEW D, Settled(D), GenSwitch,
         NEW cases, NEW arms, NEW c, NEW m, NEW form, SwitchParts(cases, arms, c, m, form, D),
         labels + c + 3 <= LabelsMax
  PROVE  \E items : /\ Call(items) /\ IsSeq(items) /\ \A k \in DOMAIN items : Sound(items[k], D)
                    /\ Separate(items)
                    /\ Owns(items) = Targets(Doors(labels, m), m)
                                     \cup {Numbered(labels + c + 1), Numbered(labels + c + 2)}
                    /\ Owns(items) \subseteq Willed(items)
                    /\ Wanted(items) \subseteq Willed(items)
<1> DEFINE n == Work.node
           seqs  == [i \in DOMAIN arms |-> Arm(arms[i], labels + i - 1)]
           doors == Doors(labels, m)
           flat  == FlattenSeq(seqs)
<1> PICK end : end = Numbered(labels + c + 2)
  OBVIOUS
<1> PICK start : start = Numbered(labels + c + 1)
  OBVIOUS
<1>1. todo # << >> /\ Work.do = "gen" /\ Here.tag = "SWITCH"
  BY SwitchArms
<1>2. n \in AllNodes /\ ProgramInv /\ labels \in Nat
  BY <1>1, ThirdWork
<1>3. /\ form = note[n].type.form
      /\ arms = (IF form = "INTEGER" THEN Here.kids ELSE CasesOf(Here))
      /\ c \in Nat /\ c = Len(CasesOf(Here)) /\ m \in Nat /\ DOMAIN arms = 1 .. m
      /\ \A i \in 1 .. m : arms[i] \in AllNodes /\ arms[i] \in D /\ Node(arms[i]).tag # "MODULE"
      /\ \/ Here.default /\ m = c + 1
         \/ ~Here.default /\ m = c
  BY DEF SwitchParts
<1>4. m <= c + 1 /\ c <= m
  BY <1>3
<1>5. /\ \A i \in 1 .. m : labels + i - 1 \in Nat
      /\ \A i, j \in 1 .. m : doors[i] = doors[j] => i = j
      /\ \A k \in {1, 2} : Numbered(labels + c + k) \notin Targets(doors, m)
  <2>1. \A k \in {1, 2} : labels + c + k < LabelsMax
    BY <1>2, <1>3, LabelsMost
  <2> QED
    BY <1>2, <1>3, <1>4, <2>1, SwitchNumbers
<1>6. AreArms(seqs, doors, end, m, D)
  <2>1. seqs = [i \in 1 .. m |-> seqs[i]]
    BY <1>3
  <2>2. ASSUME NEW i \in 1 .. m PROVE ArmOf(seqs[i], doors[i], end, D)
    <3> PICK a : a = arms[i]
      OBVIOUS
    <3> PICK k : k = labels + i - 1
      OBVIOUS
    <3>1. a \in AllNodes /\ a \in D /\ Node(a).tag # "MODULE" /\ k \in Nat
      BY <1>3, <1>5
    <3>2. ArmOf(Arm(a, k), Numbered(k), Numbered(labels + Len(CasesOf(Here)) + 2), D)
      BY <1>2, <3>1, ArmFacts
    <3>3. seqs[i] = Arm(a, k) /\ doors[i] = Numbered(k)
      BY <1>3 DEF Doors
    <3> QED
      BY <1>3, <3>2, <3>3
  <2> QED
    BY <1>5, <2>1, <2>2 DEF AreArms
<1>7. /\ IsSeq(flat) /\ \A k \in DOMAIN flat : Sound(flat[k], D)
      /\ Owns(flat) = Targets(doors, m) /\ Willed(flat) = Targets(doors, m)
      /\ Wanted(flat) \subseteq {end} /\ Separate(flat)
  <2> HIDE DEF seqs, doors
  <2> QED
    BY <1>3, <1>6, ArmsFlatten
<1> PICK x : x = Item("tests", n, Work.table, labels)
  OBVIOUS
<1>8. /\ Sound(x, D) /\ Own(x) = {start, end} /\ Will(x) = {start, end}
      /\ Wants(x) = {Numbered(labels + i - 1) : i \in 1 .. c}
                    \cup IF Here.default THEN {Numbered(labels + c + 0)} ELSE {}
  BY <1>1, <1>2, <1>3, TestsItem
<1> DEFINE items == flat \o <<x>>
<1>9. Apart(Owns(flat), Own(x))
  <2>1. start \notin Targets(doors, m) /\ end \notin Targets(doors, m)
    BY <1>5
  <2> QED
    BY <1>7, <1>8, <2>1 DEF Apart
<1>10. Call(items)
  <2>1. After("tests", labels) = <<x>>
    BY AfterFacts
  <2> QED
    BY <1>3, <2>1 DEF GenSwitch
<1> HIDE DEF flat
<1>11. /\ IsSeq(items) /\ \A k \in DOMAIN items : Sound(items[k], D)
       /\ Owns(items) = Owns(flat) \cup Own(x) /\ Willed(items) = Willed(flat) \cup Will(x)
       /\ Wanted(items) = Wanted(flat) \cup Wants(x) /\ Separate(items)
  BY <1>7, <1>8, <1>9, BooksJoin
<1> HIDE DEF items, seqs
<1>12. Targets(doors, m) = {Numbered(labels + i - 1) : i \in 1 .. m}
  BY DEF Targets, Doors
<1> HIDE DEF doors
<1>13. Wants(x) \subseteq Targets(doors, m)
  <2>1. \A i \in 1 .. c : i \in 1 .. m
    BY <1>3, <1>4
  <2>2. {Numbered(labels + i - 1) : i \in 1 .. c} \subseteq Targets(doors, m)
    BY <1>12, <2>1
  <2>3. Here.default => Numbered(labels + c + 0) \in Targets(doors, m)
    <3> SUFFICES ASSUME Here.default PROVE Numbered(labels + c + 0) \in Targets(doors, m)
      OBVIOUS
    <3>1. m = c + 1
      BY <1>3
    <3>2. m \in 1 .. m /\ labels + m - 1 = labels + c + 0
      BY <1>2, <1>3, <3>1
    <3> QED
      BY <1>12, <3>2
  <2> QED
    BY <1>8, <2>2, <2>3
<1>14. Wanted(items) \subseteq Willed(items)
  BY <1>7, <1>8, <1>11, <1>13
<1>15. Owns(items) = Targets(Doors(labels, m), m) \cup {start, end}
  BY <1>7, <1>8, <1>11 DEF doors
<1>16. Owns(items) \subseteq Willed(items)
  BY <1>7, <1>8, <1>11
<1> QED
  BY <1>10, <1>11, <1>14, <1>15, <1>16

(* A switch makes the labels of its arms, of its tests and, for a boolean  *)
(* variable, one to normalise it.                                          *)
LEMMA SwitchMints ==
  ASSUME NEW n \in Nat, NEW c \in Nat, NEW m \in Nat, m <= c + 1, NEW after, after \in {n + c + 3, n + c + 4}
  PROVE  /\ after \in Nat /\ n <= after
         /\ Targets(Doors(n, m), m) \cup {Numbered(n + c + 1), Numbered(n + c + 2)}
              \subseteq Minted(n, after)
         /\ after = n + c + 4 => Numbered(n + c + 3) \in Minted(n, after)
<1>1. after \in Nat /\ n <= after /\ n + c + 2 < after /\ (after = n + c + 4 => n + c + 3 < after)
  OBVIOUS
<1>2. \A k \in Nat : n <= k /\ k < after => Numbered(k) \in Minted(n, after)
  BY DEF Minted
<1>3. \A k \in {1, 2, 3} : n + c + k \in Nat /\ n <= n + c + k
  OBVIOUS
<1>4. n + c + 1 < after
  BY <1>1
<1>5. Numbered(n + c + 1) \in Minted(n, after) /\ Numbered(n + c + 2) \in Minted(n, after)
  BY <1>1, <1>2, <1>3, <1>4
<1>6. \A i \in 1 .. m : n + i - 1 \in Nat /\ n <= n + i - 1 /\ n + i - 1 < after
  BY <1>1
<1>7. Targets(Doors(n, m), m) \subseteq Minted(n, after)
  BY <1>2, <1>6 DEF Targets, Doors
<1>8. after = n + c + 4 => Numbered(n + c + 3) \in Minted(n, after)
  BY <1>1, <1>2, <1>3
<1> QED
  BY <1>1, <1>5, <1>7, <1>8

LEMMA SwitchStep ==
  ASSUME ThirdInv, NEW D, Settled(D), GenSwitch, labels' <= LabelsMax
  PROVE  Proceeds(D)
<1>1. todo # << >> /\ Work.do = "gen" /\ Here.tag = "SWITCH"
  BY SwitchArms
<1>2. PICK cases, arms, c, m, form : SwitchParts(cases, arms, c, m, form, D)
  BY SwitchArms
<1>3. labels \in Nat /\ Own(Work) = {} /\ Will(Work) = {}
  BY <1>1, ThirdWork, SilentWork
<1>4. /\ form = note[Work.node].type.form /\ c \in Nat /\ m \in Nat /\ c = Len(CasesOf(Here))
      /\ m <= c + 1 /\ form \in {"INTEGER", "BOOLEAN"}
  BY <1>2 DEF SwitchParts
<1> PICK start : start = Numbered(labels + c + 1)
  OBVIOUS
<1> PICK end : end = Numbered(labels + c + 2)
  OBVIOUS
<1> PICK skip : skip = Numbered(labels + c + 3)
  OBVIOUS
<1> PICK doors : doors = Targets(Doors(labels, m), m)
  OBVIOUS
<1>9. labels' = labels + c + (IF note[Work.node].type = Integer THEN 3 ELSE 4)
  BY <1>4 DEF GenSwitch
<1>10. labels' \in {labels + c + 3, labels + c + 4} /\ (form = "BOOLEAN" => labels' = labels + c + 4)
  <2>1. form = "BOOLEAN" => note[Work.node].type # Integer
    <3>1. Integer.form = "INTEGER"
      BY DEF Integer
    <3> QED
      BY ONLY <1>4, <3>1
  <2> QED
    BY <1>3, <1>4, <1>9, <2>1
<1>a. labels + c + 3 <= LabelsMax /\ (form = "BOOLEAN" => labels + c + 3 < LabelsMax)
  BY SMTT(30), <1>3, <1>4, <1>10, LabelsMost
<1>5. PICK items : /\ Call(items) /\ IsSeq(items) /\ \A k \in DOMAIN items : Sound(items[k], D)
                   /\ Separate(items) /\ Owns(items) = doors \cup {start, end}
                   /\ Owns(items) \subseteq Willed(items) /\ Wanted(items) \subseteq Willed(items)
  BY <1>2, <1>a, SwitchItems
<1>6. ASSUME form = "BOOLEAN" PROVE skip \notin Owns(items)
  <2>1. skip \notin Targets(Doors(labels, m), m) /\ skip # start /\ skip # end
    BY <1>3, <1>4, <1>6, <1>a, SwitchNumbers
  <2> QED
    BY <1>5, <2>1
<1>7. start \in Willed(items)
  BY <1>5
<1>8. LabelAfter(labels, 3) = skip /\ TestLabel(labels) = start
  BY <1>4 DEF LabelAfter, TestLabel
<1>11. /\ labels' \in Nat /\ labels <= labels' /\ Owns(items) \subseteq Minted(labels, labels')
       /\ form = "BOOLEAN" => skip \in Minted(labels, labels')
  BY ZenonT(40), <1>3, <1>4, <1>5, <1>10, SwitchMints
<1> PICK load : load = Load("r8", note[Work.node].offset, SizeOf[form])
  OBVIOUS
<1> DEFINE flip == <<CompareWith("r8", 0), Jump("z", skip), Set("r8", 1), Label(skip)>>
<1>12. code' = code \o (<<load>> \o (IF form = "INTEGER" THEN << >> ELSE flip)
                        \o <<Jump("always", start)>>)
  BY <1>4, <1>8 DEF GenSwitch, Emit
<1>13. /\ Emits(<<load>> \o << >> \o <<Jump("always", start)>>, {}, {start})
       /\ Emits(<<load>> \o flip \o <<Jump("always", start)>>, {skip}, {skip, start})
  <2>1. Bland(load)
    BY BlandFacts
  <2> QED
    BY <1>3, <2>1, SwitchHead
<1> HIDE DEF flip
<1>14. CASE form = "INTEGER"
  <2> PICK s : s = <<load>> \o << >> \o <<Jump("always", start)>>
    OBVIOUS
  <2>1. Emits(s, {}, {start}) /\ code' = code \o s
    BY <1>12, <1>13, <1>14
  <2>2. Fits(Work, items, {}, {start}, labels, labels')
    BY <1>3, <1>5, <1>7, <1>11 DEF Fits, Apart
  <2>3. Moves(items, s, {}, {start}, D)
    BY <1>5, <1>11, <2>1, <2>2 DEF Moves
  <2> QED
    BY <2>3 DEF Proceeds
<1>15. CASE form = "BOOLEAN"
  <2> PICK s : s = <<load>> \o flip \o <<Jump("always", start)>>
    OBVIOUS
  <2>1. Emits(s, {skip}, {skip, start}) /\ code' = code \o s
    BY <1>12, <1>13, <1>15
  <2>2. Fits(Work, items, {skip}, {skip, start}, labels, labels')
    BY <1>3, <1>5, <1>6, <1>7, <1>11, <1>15 DEF Fits, Apart
  <2>3. Moves(items, s, {skip}, {skip, start}, D)
    BY <1>5, <1>11, <2>1, <2>2 DEF Moves
  <2> QED
    BY <2>3 DEF Proceeds
<1> QED
  BY <1>4, <1>14, <1>15

-----------------------------------------------------------------------------
(* The three walks, one after the other.                                   *)
LEMMA GenerateStep ==
  ASSUME CodeGenNext, ~BeginGenerate
  PROVE  /\ phase = "generate" /\ todo # << >> /\ UNCHANGED treeVars
         /\ phase' = phase /\ prog' = prog /\ table' = table /\ note' = note
<1>1. CASE GenLiteral \/ GenNothing \/ GenArray \/ GenElement \/ GenOperands \/ GenOperandsOnly
  BY <1>1 DEF GenLiteral, GenNothing, GenArray, GenElement, GenOperands, GenOperandsOnly,
              GenAt, GenStep, Generating, treeVars
<1>2. CASE GenArithmetic \/ GenRelation \/ GenLogic \/ GenUnary
  BY <1>2 DEF GenArithmetic, GenRelation, GenLogic, GenUnary,
              GenAt, GenStep, Generating, treeVars
<1>3. CASE GenAssign \/ GenStore \/ GenGetValue \/ GenPrint \/ GenCase \/ LeaveCase
  BY <1>3 DEF GenAssign, GenStore, GenGetValue, GenPrint, GenCase, LeaveCase,
              GenAt, GenStep, Generating, treeVars
<1>4. CASE GenSwitch \/ StartArm \/ EndArm \/ GenTests
  BY <1>4 DEF GenSwitch, StartArm, EndArm, GenTests, GenAt, GenStep, Generating, treeVars
<1>5. CASE GenFor \/ LeaveFor \/ GenWhile \/ GenWhileTest \/ LeaveWhile
  BY <1>5 DEF GenFor, LeaveFor, GenWhile, GenWhileTest, LeaveWhile,
              GenAt, GenStep, Generating, treeVars
<1>6. CASE GenUse \/ GenModule \/ LeaveModule
  BY <1>6 DEF GenUse, GenModule, LeaveModule, GenAt, GenStep, Generating, treeVars
<1> QED
  BY <1>1, <1>2, <1>3, <1>4, <1>5, <1>6 DEF CodeGenNext

LEMMA ThirdInductive ==
  ASSUME ThirdInv, CodeGenNext, ~BeginGenerate, labels' <= LabelsMax
  PROVE  ThirdInv'
<1>1. PICK D : Settled(D)
  BY DEF ThirdInv
<1>2. Proceeds(D)
  BY <1>1, UnprintedSteps, LiteralStep, ElementStep, OperandsOnlyStep, ArithmeticStep, UnaryStep, StoreStep,
     ReadStep, PrintStep, CaseSteps, LeaveModuleStep, RelationSteps, ArmSteps, LoopEnds,
     ForStep, WhileStep, WhileTestStep, UseStep, ModuleStep, TestsStep, SwitchStep
  DEF CodeGenNext
<1> QED
  BY <1>1, <1>2, GenerateStep, ThirdStep

(* What the walks know of the program, until the generator begins.         *)
AssemblyInv ==
  /\ CompilerInv
  /\ phase \in {"scopes", "semantics"} => code = << >> /\ labels = 0
  /\ phase = "scopes" => FirstInv
  /\ phase = "semantics" /\ errors = {} => SecondInv

(* And the books of the generator, as long as the numbers of its labels    *)
(* have four digits.                                                       *)
BooksInv  == phase = "generate" /\ NamesFree => ThirdInv
LabelsFit == labels <= LabelsMax

LEMMA NamesFreeKept ==
  ASSUME prog' = prog
  PROVE  NamesFree' = NamesFree
BY DEF NamesFree, Node

LEMMA AssemblyScopes ==
  ASSUME AssemblyInv, CompilerInv', ScopesNext, UNCHANGED codeVars
  PROVE  AssemblyInv'
<1>1. phase = "scopes" /\ phase' = "scopes"
  BY ScopesStep
<1>2. FirstInv'
  BY <1>1, FirstInductive DEF AssemblyInv, CompilerInv
<1>3. code' = code /\ labels' = labels
  BY DEF codeVars
<1> QED
  BY <1>1, <1>2, <1>3 DEF AssemblyInv

LEMMA AssemblySemantics ==
  ASSUME AssemblyInv, CompilerInv', SemanticsNext, UNCHANGED codeVars
  PROVE  AssemblyInv'
<1>1. phase' = "semantics" /\ errors \subseteq errors'
  BY SemanticsStep
<1>2. code' = code /\ labels' = labels
  BY DEF codeVars
<1>3. ASSUME BeginSemantics, errors' = {} PROVE SecondInv' /\ phase = "scopes"
  <2>1. phase = "scopes" /\ errors = {}
    BY <1>1, <1>3 DEF BeginSemantics
  <2> QED
    BY <1>3, <2>1, SecondBegins DEF AssemblyInv, CompilerInv
<1>4. phase \in {"scopes", "semantics"}
  BY DEF SemanticsNext, BeginSemantics, CheckModule, CheckReturned, CheckNothing, CheckLiteral,
         CheckSwitch, CheckBody, CheckFor, CheckCounter, CheckArray, CheckOperands, CheckBinary,
         CheckUnary, CheckSides, CheckAssign, CheckUse, CheckAt, CheckStep, Checking
<1>5. ASSUME ~BeginSemantics PROVE phase = "semantics"
  BY <1>5 DEF SemanticsNext, CheckModule, CheckReturned, CheckNothing, CheckLiteral,
         CheckSwitch, CheckBody, CheckFor, CheckCounter, CheckArray, CheckOperands, CheckBinary,
         CheckUnary, CheckSides, CheckAssign, CheckUse, CheckAt, CheckStep, Checking
<1>6. ASSUME ~BeginSemantics, errors' = {} PROVE SecondInv'
  <2>1. phase = "semantics" /\ errors = {}
    BY <1>1, <1>5, <1>6
  <2> QED
    BY <1>6, <2>1, SecondInductive DEF AssemblyInv
<1> QED
  BY <1>1, <1>2, <1>3, <1>4, <1>6 DEF AssemblyInv

LEMMA AssemblyGenerate ==
  ASSUME CompilerInv', CodeGenNext
  PROVE  AssemblyInv'
<1>1. phase' \in {"generate", "accepted", "rejected"}
  BY GenerateStep DEF BeginGenerate
<1> QED
  BY <1>1 DEF AssemblyInv

LEMMA RunPhases ==
  ASSUME MachineNext
  PROVE  phase' \in {"run", "done", "wild"}
<1>1. CASE BeginRun \/ Stop
  BY <1>1 DEF BeginRun, Stop, Does, Running
<1>2. ASSUME UNCHANGED compilerVars, phase = "run" PROVE phase' \in {"run", "done", "wild"}
  BY <1>2 DEF compilerVars, treeVars
<1>3. CASE Compute \/ CompareValues \/ Access
  BY <1>2, <1>3 DEF Compute, CompareValues, Access, Advance, Running
<1>4. CASE PushRegs \/ PopRegs \/ PrintValue \/ ScanValue
  BY <1>2, <1>4 DEF PushRegs, PopRegs, PrintValue, ScanValue, Advance, Does, Running
<1>5. CASE Branch \/ CallModule
  BY <1>2, <1>5 DEF Branch, CallModule, Does, Running
<1>6. CASE Return
  BY <1>2, <1>6 DEF Return, Does, Running
<1> QED
  BY <1>1, <1>3, <1>4, <1>5, <1>6 DEF MachineNext

(* Steps that change nothing.                                              *)
LEMMA PendingKept ==
  ASSUME NEW CONSTANT tasks, todo' = todo
  PROVE  Pending(tasks)' = Pending(tasks)
BY DEF Pending

LEMMA FirstKept ==
  ASSUME FirstInv, UNCHANGED vars
  PROVE  FirstInv'
<1>1. prog' = prog /\ table' = table /\ note' = note /\ todo' = todo /\ errors' = errors
  BY DEF vars, compilerVars, treeVars
<1>2. AllNodes' = AllNodes /\ Listed' = Listed /\ Tops' = Tops /\ \A n : Node(n)' = Node(n)
  BY <1>1 DEF AllNodes, Listed, Tops, Node
<1>3. TypedTables'
  BY <1>1 DEF FirstInv, TypedTables
<1>4. NotesTyped'
  BY <1>1, <1>2 DEF FirstInv, NotesTyped, NoteTyped, HoldersOf
<1>5. AtStart'
  BY <1>1, <1>2 DEF FirstInv, AtStart
<1>6. Reached'
  <2> PICK P : P = Pending({"walk", "scope"})
    OBVIOUS
  <2>1. PICK V : Spread(V, P) /\ (errors = {} => \A n \in V : Resolved(n))
    BY DEF FirstInv, Reached
  <2>2. Spread(V, P)'
    BY <1>1, <2>1, SpreadKept
  <2>3. Pending({"walk", "scope"})' = P
    BY <1>1, PendingKept
  <2> QED
    BY <1>1, <1>2, <2>1, <2>2, <2>3 DEF Reached, Spread, Resolved
<1>7. NamesEntered'
  <2>1. PICK k, c \in Nat : Entered(k, c)
    BY DEF FirstInv, NamesEntered
  <2>2. \A x : Local(x)' = Local(x) /\ AtTop(x)' = AtTop(x)
    BY <1>2 DEF AtTop, Local, IsModuleWalk
  <2>3. (\A i : NameAt(i)' = NameAt(i)) /\ (Distinct(k)' <=> Distinct(k))
    BY <1>2 DEF NameAt, Distinct
  <2>4. {NameAt(i) : i \in 1 .. k}' = {NameAt(i) : i \in 1 .. k}
    BY <2>3
  <2>5. Entered(k, c)'
    BY <1>1, <1>2, <2>1, <2>2, <2>3, <2>4 DEF Entered
  <2> QED
    BY <2>5 DEF NamesEntered
<1> QED
  BY <1>3, <1>4, <1>5, <1>6, <1>7 DEF FirstInv

LEMMA SecondKept ==
  ASSUME SecondInv, UNCHANGED vars
  PROVE  SecondInv'
<1>1. prog' = prog /\ table' = table /\ note' = note /\ todo' = todo
  BY DEF vars, compilerVars, treeVars
<1>2. Grounds' /\ AllNodes' = AllNodes /\ \A n : Node(n)' = Node(n)
  BY <1>1, GroundsKept DEF SecondInv, AllNodes, Node
<1>3. Checked'
  <2>1. PICK V : Spread(V, Pending({"check"})) /\ Judged(V)
    BY DEF SecondInv, Checked
  <2> PICK P : P = Pending({"check"})
    OBVIOUS
  <2>2. Spread(V, P)'
    BY <1>1, <2>1, SpreadKept
  <2>3. Pending({"check"})' = P
    BY <1>1, PendingKept
  <2>4. Judged(V)'
    BY <1>1, <1>2, <2>1 DEF Judged
  <2> QED
    BY <2>2, <2>3, <2>4 DEF Checked, Spread
<1>4. Inside' = Inside
  BY <1>1, InsideKept
<1> QED
  BY <1>1, <1>2, <1>3, <1>4 DEF SecondInv

LEMMA ThirdKept ==
  ASSUME ThirdInv, UNCHANGED vars
  PROVE  ThirdInv'
<1>1. prog' = prog /\ table' = table /\ note' = note /\ todo' = todo /\ code' = code /\ labels' = labels
  BY DEF vars, compilerVars, treeVars, codeVars
<1>2. /\ Grounds' /\ AllNodes' = AllNodes /\ \A n : Good(n)' = Good(n) /\ Node(n)' = Node(n)
      /\ \A item, k : SwitchLabel(item, k)' = SwitchLabel(item, k)
  BY <1>1, GroundsKept, ItemsKept DEF ThirdInv
<1>3. Accounted(code, todo, labels)'
  BY <1>1, AccountedKept DEF ThirdInv
<1>4. PICK D : Settled(D)
  BY DEF ThirdInv
<1>5. \A i \in DOMAIN todo' : Sound(todo[i], D)'
  BY <1>1, <1>2, <1>4 DEF Settled, Sound
<1>6. Trusted(D)'
  <2>1. Spread(D, {})'
    BY <1>1, <1>4, SpreadKept DEF Settled, Trusted
  <2> QED
    BY <1>2, <1>4, <2>1 DEF Settled, Trusted
<1>7. Settled(D)'
  BY <1>5, <1>6 DEF Settled
<1> QED
  BY <1>1, <1>2, <1>3, <1>7 DEF ThirdInv

LEMMA AssemblyStutters ==
  ASSUME AssemblyInv, CompilerInv', UNCHANGED vars
  PROVE  AssemblyInv'
<1>1. phase' = phase /\ code' = code /\ labels' = labels /\ errors' = errors /\ prog' = prog
  BY DEF vars, compilerVars, treeVars, codeVars
<1> QED
  BY <1>1, FirstKept, SecondKept DEF AssemblyInv

LEMMA AssemblyInductive ==
  ASSUME AssemblyInv, [Next]_vars
  PROVE  AssemblyInv'
<1>1. CompilerInv'
  BY CompilerInductive DEF AssemblyInv
<1>2. MachineNext => AssemblyInv'
  BY <1>1, RunPhases DEF AssemblyInv
<1> QED
  BY <1>1, <1>2, AssemblyScopes, AssemblySemantics, AssemblyGenerate, AssemblyStutters
  DEF Next, Ended

LEMMA AssemblyInitially ==
  ASSUME Init
  PROVE  AssemblyInv
<1>1. phase = "scopes" /\ code = << >> /\ labels = 0 /\ ScopesInit
  BY DEF Init, ScopesInit
<1> QED
  BY <1>1, CompilerInitially, FirstInitially DEF AssemblyInv

(* The books at the end: nothing is to come, so every label gone to stands.*)
LEMMA BooksClosed ==
  ASSUME ThirdInv, todo = << >>
  PROVE  /\ \A i, j \in DOMAIN code : i # j /\ code[i].op = "label" => code[i] # code[j]
         /\ \A i \in DOMAIN code : code[i].op \in {"jump", "call"} =>
              \E j \in DOMAIN code : code[j] = Label(code[i].label)
<1>1. /\ AreLabels(code) /\ PlacedOnce(code)
      /\ GoalsOf(code) \subseteq Sure(code, todo)
  BY DEF ThirdInv, Accounted
<1>2. Willed(todo) = {}
  <2>1. DOMAIN todo = {}
    OBVIOUS
  <2> QED
    BY <2>1 DEF Willed
<1>3. GoalsOf(code) \subseteq LabelsOf(code)
  BY <1>1, <1>2 DEF Sure
<1>4. ASSUME NEW i \in DOMAIN code, NEW j \in DOMAIN code, i # j, code[i].op = "label", code[i] = code[j]
      PROVE  FALSE
  BY <1>1, <1>4 DEF PlacedOnce
<1>5. ASSUME NEW i \in DOMAIN code, code[i].op \in {"jump", "call"}
      PROVE  \E j \in DOMAIN code : code[j] = Label(code[i].label)
  <2>1. code[i].label \in LabelsOf(code)
    BY <1>3, <1>5 DEF GoalsOf
  <2>2. PICK j \in DOMAIN code : code[j].op = "label" /\ code[j].label = code[i].label
    BY <2>1 DEF LabelsOf
  <2> QED
    BY <1>1, <2>2 DEF AreLabels
<1> QED
  BY <1>4, <1>5

THEOREM AssemblyInvariant == Spec => []AssemblyInv
BY AssemblyInitially, AssemblyInductive, PTL DEF Spec

LEMMA BooksInductive ==
  ASSUME AssemblyInv, BooksInv, [Next]_vars, LabelsFit'
  PROVE  BooksInv'
<1>1. labels' <= LabelsMax
  BY LabelsMost DEF LabelsFit, LabelsMax
<1>2. CASE CodeGenNext /\ BeginGenerate
  <2>1. phase = "semantics" /\ prog' = prog /\ (phase' = "generate" => errors = {})
    BY <1>2 DEF BeginGenerate
  <2>2. NamesFree' = NamesFree
    BY <2>1, NamesFreeKept
  <2>3. ASSUME phase' = "generate", NamesFree PROVE ThirdInv'
    BY <1>2, <2>1, <2>3, ThirdBegins DEF AssemblyInv
  <2> QED
    BY <2>2, <2>3 DEF BooksInv
<1>3. CASE CodeGenNext /\ ~BeginGenerate
  <2>1. phase = "generate" /\ prog' = prog
    BY <1>3, GenerateStep
  <2>2. NamesFree' = NamesFree
    BY <2>1, NamesFreeKept
  <2>3. ASSUME NamesFree PROVE ThirdInv'
    BY <1>1, <1>3, <2>1, <2>3, ThirdInductive DEF BooksInv
  <2> QED
    BY <2>2, <2>3 DEF BooksInv
<1>4. CASE ScopesNext \/ SemanticsNext
  BY <1>4, ScopesStep, SemanticsStep DEF BooksInv
<1>5. CASE MachineNext
  BY <1>5, RunPhases DEF BooksInv
<1>6. CASE UNCHANGED vars
  <2>1. phase' = phase /\ prog' = prog
    BY <1>6 DEF vars, compilerVars, treeVars
  <2>2. NamesFree' = NamesFree
    BY <2>1, NamesFreeKept
  <2> QED
    BY <1>6, <2>1, <2>2, ThirdKept DEF BooksInv
<1> QED
  BY <1>2, <1>3, <1>4, <1>5, <1>6 DEF Next, Ended

THEOREM BooksInvariant == Spec /\ []LabelsFit => []BooksInv
<1>1. Init => BooksInv
  BY AssemblyInitially DEF Init, ScopesInit, BooksInv
<1> QED
  BY <1>1, BooksInductive, AssemblyInvariant, PTL DEF Spec

(* Whatever the program, when code_generator() has walked the tree, no     *)
(* label stands twice in the file and no jump or call goes to a label that *)
(* is not there.  Two things can spoil it.  The generator prints the names *)
(* of modules as they are, so none may be that of a label of the library or*)
(* read like a label it makes (NamesFree), and it keeps four digits of the *)
(* numbers of those, so there may be no more of them (LabelsFit).          *)
THEOREM EveryProgramAssembles == Spec /\ []LabelsFit => [](NamesFree => Assembles)
<1>1. BooksInv => (NamesFree => Assembles)
  BY BooksClosed DEF BooksInv, Assembles
<1> QED
  BY <1>1, BooksInvariant, PTL

-----------------------------------------------------------------------------
(* The last line of the file.  The agenda ends in a module to come, or in  *)
(* the end of the one at hand; when it is done, the last line is a return. *)
Final(item) == item.do = "leave module" \/ (item.do = "gen" /\ Node(item.node).tag = "MODULE")
Ending(agenda, c) ==
  /\ agenda # << >> => Final(agenda[Len(agenda)])
  /\ agenda = << >> => Len(c) \in DOMAIN c /\ c[Len(c)].op = "ret"

LEMMA EmptyList ==
  ASSUME TRUE
  PROVE  IsSeq(<< >>) /\ DOMAIN << >> = {}
BY DEF IsSeq

LEMMA MoreThanOne ==
  ASSUME NEW n \in Nat, n > 0, n # 1
  PROVE  n > 1
OBVIOUS

LEMMA LastStays ==
  ASSUME NEW new, NEW old, NEW items, Replaces(new, old, items), Len(old) # 1
  PROVE  new # << >> /\ new[Len(new)] = old[Len(old)]
<1>1. Len(old) \in Nat /\ Len(old) > 1 /\ Len(items) \in Nat /\ Len(new) = Len(items) + Len(old) - 1
  <2>1. Len(old) \in Nat /\ Len(old) > 0 /\ Len(items) \in Nat /\ Len(new) = Len(items) + Len(old) - 1
    BY DEF Replaces
  <2> QED
    BY <2>1, MoreThanOne
<1>2. Len(old) \in DOMAIN old
  <2>1. 1 \in Nat /\ Len(new) \in DOMAIN new
    <3>1. Len(new) \in Nat /\ DOMAIN new = 1 .. Len(new)
      BY SeqFacts DEF Replaces
    <3>2. Len(new) \in 1 .. Len(new)
      BY ONLY <1>1, <3>1
    <3> QED
      BY <3>1, <3>2
  <2>2. ~ (Len(new) <= Len(items)) /\ Len(new) - Len(items) + 1 = Len(old)
    BY ONLY <1>1
  <2> QED
    BY <2>1, <2>2 DEF Replaces
<1>3. Len(items) + Len(old) - 1 \in DOMAIN new /\ new[Len(items) + Len(old) - 1] = old[Len(old)]
  BY <1>1, <1>2 DEF Replaces
<1>4. new # << >>
  BY <1>3
<1> QED
  BY <1>1, <1>3, <1>4

LEMMA LastOfTwo ==
  ASSUME NEW s, NEW r, IsSeq(s), IsSeq(r), r # << >>, NEW c, c = s \o r
  PROVE  c # << >> /\ Len(c) \in DOMAIN c /\ c[Len(c)] = r[Len(r)]
<1>1. Joins(c, s, r)
  BY ConcatSeqs
<1>2. Len(r) \in Nat /\ Len(s) \in Nat /\ Len(c) = Len(s) + Len(r) /\ DOMAIN r = 1 .. Len(r)
  BY <1>1, SeqFacts DEF Joins
<1>3. Len(r) # 0
  BY <1>2, EmptySeq DEF IsSeq
<1>4. Len(r) \in DOMAIN r
  BY <1>2, <1>3
<1>5. Len(s) + Len(r) \in DOMAIN c /\ c[Len(s) + Len(r)] = r[Len(r)]
  BY <1>1, <1>4 DEF Joins
<1> QED
  BY <1>2, <1>5

LEMMA EndingKept ==
  ASSUME ThirdInv, NEW D, Proceeds(D), Ending(todo, code), todo # << >>,
         UNCHANGED treeVars, Len(todo) # 1
  PROVE  Ending(todo, code)'
<1>1. PICK items, s, p, w : Moves(items, s, p, w, D)
  BY DEF Proceeds
<1>2. Replaces(todo', todo, items)
  BY <1>1, AgendaReplaced DEF Moves, ThirdInv
<1>3. todo' # << >> /\ todo'[Len(todo')] = todo[Len(todo)]
  BY <1>2, LastStays
<1>4. \A n : Node(n)' = Node(n)
  BY DEF treeVars, Node
<1> QED
  BY <1>3, <1>4 DEF Ending, Final

(* One item left: only a module and its end have a say.                    *)
LEMMA OneLeft ==
  ASSUME IsSeq(todo), todo # << >>, Len(todo) = 1, Ending(todo, code), CodeGenNext, ~BeginGenerate
  PROVE  GenModule \/ LeaveModule
<1>1. Work.do = "leave module" \/ (Work.do = "gen" /\ Here.tag = "MODULE")
  <2>1. Work = todo[1]
    BY DEF Work
  <2>2. Final(todo[1])
    BY DEF Ending
  <2> QED
    BY <2>1, <2>2 DEF Final, Here
<1>2. ~ (GenLiteral \/ GenNothing \/ GenArray \/ GenElement \/ GenOperands \/ GenOperandsOnly)
  BY <1>1 DEF GenLiteral, GenNothing, GenArray, GenElement, GenOperands, GenOperandsOnly,
              GenAt, GenStep, Generating
<1>3. ~ (GenArithmetic \/ GenRelation \/ GenLogic \/ GenUnary)
  BY <1>1 DEF GenArithmetic, GenRelation, GenLogic, GenUnary,
              GenAt, GenStep, Generating
<1>4. ~ (GenAssign \/ GenStore \/ GenGetValue \/ GenPrint \/ GenCase \/ LeaveCase)
  BY <1>1 DEF GenAssign, GenStore, GenGetValue, GenPrint, GenCase, LeaveCase,
              GenAt, GenStep, Generating
<1>5. ~ (GenSwitch \/ StartArm \/ EndArm \/ GenTests)
  BY <1>1 DEF GenSwitch, StartArm, EndArm, GenTests, GenAt, GenStep, Generating
<1>6. ~ (GenFor \/ LeaveFor \/ GenWhile \/ GenWhileTest \/ LeaveWhile \/ GenUse)
  BY <1>1 DEF GenFor, LeaveFor, GenWhile, GenWhileTest, LeaveWhile, GenUse, GenAt, GenStep, Generating
<1> QED
  BY <1>2, <1>3, <1>4, <1>5, <1>6 DEF CodeGenNext

LEMMA ModuleEnding ==
  ASSUME ThirdInv, NEW D, Settled(D), GenModule, Len(todo) = 1
  PROVE  Ending(todo, code)'
<1> PICK gens : gens = Gens(Body(Here), ScopeOf(Work.node))
  OBVIOUS
<1> PICK last : last = After("leave module", 0)
  OBVIOUS
<1> PICK items : items = gens \o last
  OBVIOUS
<1>1. todo # << >> /\ Work.do = "gen" /\ Here.tag = "MODULE" /\ Call(items)
  BY DEF GenModule, GenAt, GenStep, Generating
<1>2. Quiet(gens, D)
  <2>1. Work.node \in D /\ ProgramInv /\ Trusted(D) /\ Node(Work.node).tag = "MODULE"
    BY <1>1, ThirdWork DEF Expressions, Here
  <2> QED
    BY <2>1, SectionBody DEF Sections, Branching, Here
<1>3. last = <<Item("leave module", Work.node, Work.table, 0)>>
  BY DEF After
<1>4. IsSeq(last) /\ last # << >> /\ Len(last) = 1 /\ last[1].do = "leave module"
  <2> PICK x : x = Item("leave module", Work.node, Work.table, 0)
    OBVIOUS
  <2>1. last = <<x>> /\ x.do = "leave module"
    BY <1>3 DEF Item
  <2>2. Len(<<x>>) = 1 /\ <<x>>[1] = x /\ <<x>> # << >>
    BY ONLY TRUE
  <2>3. IsSeq(<<x>>)
    <3>1. <<x>> \in Seq({x})
      BY ONLY TRUE
    <3> QED
      BY <3>1, RangeSeq
  <2> QED
    BY <2>1, <2>2, <2>3
<1>5. items # << >> /\ Len(items) \in DOMAIN items /\ items[Len(items)].do = "leave module"
  <2>1. items # << >> /\ Len(items) \in DOMAIN items /\ items[Len(items)] = last[Len(last)]
    <3>1. IsSeq(gens)
      BY <1>2 DEF Quiet
    <3>2. IsSeq(last) /\ last # << >>
      BY <1>4
    <3>3. items = gens \o last
      OBVIOUS
    <3> QED
      BY ONLY <3>1, <3>2, <3>3, LastOfTwo
  <2> QED
    BY <1>4, <2>1
<1>6. IsSeq(items)
  <2>1. IsSeq(gens)
    BY <1>2 DEF Quiet
  <2>2. Joins(items, gens, last)
    BY <1>4, <2>1, ConcatSeqs
  <2> QED
    BY <2>2 DEF Joins
<1>7. Replaces(todo', todo, items)
  BY <1>1, <1>6, AgendaReplaced DEF ThirdInv
<1>8. Len(todo') = Len(items)
  <2>1. Len(todo') = Len(items) + Len(todo) - 1 /\ Len(items) \in Nat
    BY <1>7 DEF Replaces
  <2> QED
    BY ONLY <2>1, Len(todo) = 1
<1>9. Len(items) \in DOMAIN todo' /\ todo'[Len(items)] = items[Len(items)]
  BY <1>5, <1>7 DEF Replaces
<1>10. todo' # << >>
  <2>1. DOMAIN << >> = {}
    BY EmptyList
  <2> QED
    BY <1>9, <2>1
<1> QED
  BY <1>5, <1>8, <1>9, <1>10 DEF Ending, Final

LEMMA ReturnEnding ==
  ASSUME ThirdInv, NEW D, Settled(D), LeaveModule, Len(todo) = 1
  PROVE  Ending(todo, code)'
<1>1. todo # << >> /\ Work.do = "leave module" /\ Call(<< >>)
  BY DEF LeaveModule, GenStep, Generating
<1>2. Work.node \in AllNodes /\ ProgramInv /\ Here.tag = "MODULE" /\ IsSeq(code)
  <2>1. Work.node \in AllNodes /\ ProgramInv /\ Sound(Work, D) /\ IsSeq(code)
    BY <1>1, ThirdWork
  <2> QED
    BY <1>1, <2>1 DEF Sound, Here
<1> PICK a : a = Move(FrameSize(Work.node))
  OBVIOUS
<1> PICK b : b = Pop(<<"rbp">>)
  OBVIOUS
<1> PICK results : results = Results
  OBVIOUS
<1> PICK tail : tail = <<a, b, Ret>>
  OBVIOUS
<1> PICK all : all = results \o tail
  OBVIOUS
<1>3. code' = code \o all
  BY DEF LeaveModule, Emit
<1>4. IsSeq(results)
  BY <1>2, ResultsCalm DEF Calm, Emits
<1>5. IsSeq(tail) /\ tail # << >> /\ Len(tail) = 3 /\ tail[3].op = "ret"
  <2> PICK c : c = Ret
    OBVIOUS
  <2>1. tail = <<a, b, c>> /\ c.op = "ret"
    BY DEF Ret
  <2>2. <<a, b, c>> \in Seq({a, b, c}) /\ Len(<<a, b, c>>) = 3 /\ <<a, b, c>>[3] = c /\ <<a, b, c>> # << >>
    OBVIOUS
  <2>3. IsSeq(<<a, b, c>>)
    BY <2>2, RangeSeq
  <2> QED
    BY <2>1, <2>2, <2>3
<1>6. all # << >> /\ all[Len(all)].op = "ret"
  BY <1>4, <1>5, LastOfTwo
<1>7. IsSeq(all)
  BY <1>4, <1>5, ConcatSeqs DEF Joins
<1>8. Len(code') \in DOMAIN code' /\ code'[Len(code')].op = "ret"
  BY <1>2, <1>3, <1>6, <1>7, LastOfTwo
<1>9. todo' = << >>
  <2>1. IsSeq(<< >>) /\ Len(<< >>) = 0
    BY EmptySeq, NoInstruction DEF Plain
  <2>2. Replaces(todo', todo, << >>)
    BY <1>1, <2>1, AgendaReplaced DEF ThirdInv
  <2>3. Len(todo') = 0 /\ IsSeq(todo')
    <3>1. Len(todo') = Len(<< >>) + Len(todo) - 1 /\ IsSeq(todo')
      BY <2>2 DEF Replaces
    <3>2. 0 + 1 - 1 = 0
      OBVIOUS
    <3> QED
      BY <2>1, <3>1, <3>2
  <2> QED
    BY <2>3, EmptySeq DEF IsSeq
<1> QED
  BY <1>8, <1>9 DEF Ending

LEMMA EndingInductive ==
  ASSUME ThirdInv, Ending(todo, code), CodeGenNext, ~BeginGenerate, labels' <= LabelsMax
  PROVE  Ending(todo, code)'
<1>1. PICK D : Settled(D)
  BY DEF ThirdInv
<1>2. todo # << >> /\ UNCHANGED treeVars
  BY GenerateStep
<1>3. CASE Len(todo) = 1
  <2>1. GenModule \/ LeaveModule
    BY <1>2, <1>3, OneLeft DEF ThirdInv
  <2> QED
    BY <1>1, <1>3, <2>1, ModuleEnding, ReturnEnding
<1>4. CASE Len(todo) # 1
  <2>1. Proceeds(D)
    BY <1>1, UnprintedSteps, LiteralStep, ElementStep, OperandsOnlyStep, ArithmeticStep, UnaryStep, StoreStep,
       ReadStep, PrintStep, CaseSteps, LeaveModuleStep, RelationSteps, ArmSteps, LoopEnds,
       ForStep, WhileStep, WhileTestStep, UseStep, ModuleStep, TestsStep, SwitchStep
    DEF CodeGenNext
  <2> QED
    BY <1>2, <1>4, <2>1, EndingKept
<1> QED
  BY <1>3, <1>4

LEMMA EndingBegins ==
  ASSUME ThirdInv', ProgramInv, BeginGenerate, phase' = "generate"
  PROVE  Ending(todo, code)'
<1> PICK nodes : nodes = <<prog.driver>> \o prog.modules
  OBVIOUS
<1>1. nodes \in Seq(AllNodes) /\ Tops = {nodes[k] : k \in DOMAIN nodes}
  BY DriverFirst
<1>2. todo' = Gens(nodes, GlobalTable) /\ prog' = prog
  BY DEF BeginGenerate
<1>3. DOMAIN todo' = DOMAIN nodes /\ \A k \in DOMAIN nodes : todo'[k].do = "gen" /\ todo'[k].node = nodes[k]
  BY <1>2 DEF Gens, Item
<1>4. Len(todo') \in Nat /\ DOMAIN todo' = 1 .. Len(todo')
  BY SeqFacts DEF ThirdInv
<1>5. todo' # << >>
  <2>e. DOMAIN << >> = {}
    BY EmptyList
  <2>1. PICK i \in 1 .. Len(Listed) : Listed[i] = prog.driver
    BY ListedFacts
  <2>2. DOMAIN nodes # {}
    BY <1>1, <2>1, ListedFacts
  <2> QED
    BY <1>3, <2>2, <2>e
<1>6. Len(todo') \in DOMAIN todo'
  <2>1. Len(todo') # 0
    BY <1>3, <1>4, <1>5, EmptySeq DEF ThirdInv, IsSeq
  <2> QED
    BY <1>4, <2>1
<1>7. \A k \in DOMAIN nodes : Node(nodes[k]).tag = "MODULE"
  <2> SUFFICES ASSUME NEW k \in DOMAIN nodes PROVE Node(nodes[k]).tag = "MODULE"
    OBVIOUS
  <2>1. nodes[k] \in Tops
    BY <1>1
  <2>2. PICK i \in 1 .. Len(Listed) : nodes[k] = Listed[i]
    BY <2>1, ListedFacts
  <2> QED
    BY <2>2, ListedFacts
<1>8. \A n : Node(n)' = Node(n)
  BY <1>2 DEF Node
<1> QED
  BY ZenonT(40), <1>3, <1>5, <1>6, <1>7, <1>8 DEF Ending, Final
-----------------------------------------------------------------------------
(* The run.  Every instruction but a return is followed by one, and what   *)
(* lies on the stack as a return address is never made by anything but a   *)
(* call.                                                                   *)
Closed(c) ==
  /\ Len(c) \in Nat /\ DOMAIN c = 1 .. Len(c) /\ Len(c) \in DOMAIN c /\ c[Len(c)].op = "ret"
  /\ \A i \in DOMAIN c : c[i].op \in {"jump", "call"} => \E j \in DOMAIN c : c[j] = Label(c[i].label)
FollowsCall(v, c) == v \in DOMAIN c /\ c[v - 1].op = "call"
ReturnsFollow(cells, c) == \A a \in DOMAIN cells : cells[a].isReturn => FollowsCall(cells[a].value, c)

LEMMA NextLine ==
  ASSUME NEW c, Closed(c), NEW i \in DOMAIN c, c[i].op # "ret"
  PROVE  i + 1 \in DOMAIN c /\ (i + 1) - 1 = i
<1>1. Len(c) \in Nat /\ DOMAIN c = 1 .. Len(c) /\ i \in 1 .. Len(c) /\ i # Len(c)
  BY DEF Closed
<1>2. i + 1 \in 1 .. Len(c) /\ (i + 1) - 1 = i
  BY ONLY <1>1
<1> QED
  BY <1>1, <1>2

LEMMA PlacesFound ==
  ASSUME Closed(code), NEW i \in DOMAIN code, code[i].op \in {"jump", "call"}
  PROVE  PlaceOf(code[i].label) \in DOMAIN code
BY DEF Closed, PlaceOf

LEMMA WrittenFollows ==
  ASSUME NEW c, NEW cells, ReturnsFollow(cells, c), NEW a, NEW size, NEW v, NEW mark,
         mark => (size = 8 /\ FollowsCall(v, c))
  PROVE  ReturnsFollow(Written(cells, a, size, v, mark), c)
<1> DEFINE new == Written(cells, a, size, v, mark)
           kept == {b \in DOMAIN cells : ~Overlaps(b, cells[b].size, a, size)}
<1>1. new = [b \in kept \cup {a} |->
               IF b = a THEN [size |-> size, value |-> Signed(v, size), isReturn |-> mark] ELSE cells[b]]
  BY DEF Written
<1>2. kept \subseteq DOMAIN cells
  OBVIOUS
<1> HIDE DEF kept
<1>3. /\ DOMAIN new = kept \cup {a}
      /\ new[a].isReturn = mark /\ new[a].value = Signed(v, size)
      /\ \A b \in kept : b # a => new[b] = cells[b]
  BY <1>1
<1> HIDE DEF new
<1>4. size = 8 => Signed(v, size) = v
  BY DEF Signed
<1>5. ASSUME NEW b \in DOMAIN new, new[b].isReturn PROVE FollowsCall(new[b].value, c)
  <2>1. CASE b = a
    BY <1>3, <1>4, <1>5, <2>1
  <2>2. CASE b # a
    BY <1>2, <1>3, <1>5, <2>2 DEF ReturnsFollow
  <2> QED
    BY <2>1, <2>2
<1>6. ReturnsFollow(new, c)
  BY <1>5 DEF ReturnsFollow
<1> QED
  BY <1>6 DEF new

LEMMA AboveFollows ==
  ASSUME NEW c, NEW cells, ReturnsFollow(cells, c), NEW a
  PROVE  ReturnsFollow(Above(cells, a), c)
BY DEF ReturnsFollow, Above

LEMMA PushedFollows ==
  ASSUME NEW c, NEW cells, ReturnsFollow(cells, c), NEW sp, NEW rs
  PROVE  ReturnsFollow(Pushed(cells, sp, rs), c)
<1> DEFINE new == Pushed(cells, sp, rs)
           slots == {sp - 8 * i : i \in DOMAIN rs}
           kept == {b \in DOMAIN cells : ~Overlaps(b, cells[b].size, sp - 8 * Len(rs), 8 * Len(rs))}
<1>1. new = [b \in kept \cup slots |->
               IF b \in slots THEN [size |-> 8, value |-> regs[rs[(sp - b) \div 8]], isReturn |-> FALSE]
               ELSE cells[b]]
  BY DEF Pushed
<1>2. kept \subseteq DOMAIN cells
  OBVIOUS
<1> HIDE DEF kept, slots
<1>3. /\ DOMAIN new = kept \cup slots
      /\ \A b \in slots : ~new[b].isReturn
      /\ \A b \in kept : b \notin slots => new[b] = cells[b]
  BY <1>1
<1> HIDE DEF new
<1>4. ReturnsFollow(new, c)
  BY <1>2, <1>3 DEF ReturnsFollow
<1> QED
  BY <1>4 DEF new

(* The invariant of the run, and of the file before it.                    *)
InCode == pc \in DOMAIN code /\ ReturnsFollow(mem, code)
RunInv ==
  /\ phase \in {"scopes", "semantics", "generate"} => pc = 1 /\ mem = << >>
  /\ phase = "generate" /\ NamesFree => Ending(todo, code)
  /\ phase = "run" /\ NamesFree => Closed(code) /\ InCode
StaysInv == AssemblyInv /\ BooksInv /\ RunInv

LEMMA RunKeeps ==
  ASSUME MachineNext, ~BeginRun
  PROVE  UNCHANGED <<prog, code>> /\ phase' \in {"run", "done", "wild"}
<1>1. CASE Stop
  BY <1>1 DEF Stop, codeVars
<1>2. ASSUME UNCHANGED compilerVars, phase = "run" PROVE UNCHANGED <<prog, code>> /\ phase' = "run"
  BY <1>2 DEF compilerVars, treeVars, codeVars
<1>3. CASE Compute \/ CompareValues \/ Access
  BY <1>2, <1>3 DEF Compute, CompareValues, Access, Advance, Running
<1>4. CASE PushRegs \/ PopRegs \/ PrintValue \/ ScanValue
  BY <1>2, <1>4 DEF PushRegs, PopRegs, PrintValue, ScanValue, Advance, Does, Running
<1>5. CASE Branch \/ CallModule
  BY <1>2, <1>5 DEF Branch, CallModule, Does, Running
<1>6. CASE Return
  BY <1>2, <1>6 DEF Return, Does, Running, codeVars
<1> QED
  BY <1>1, <1>3, <1>4, <1>5, <1>6 DEF MachineNext

LEMMA RunStep ==
  ASSUME phase = "run", Closed(code), InCode, MachineNext
  PROVE  /\ UNCHANGED <<prog, code>> /\ phase' \in {"run", "done", "wild"}
         /\ phase' = "run" => InCode'
<1>1. CASE BeginRun
  BY <1>1 DEF BeginRun
<1>2. ASSUME Advance, Instr.op # "ret", ReturnsFollow(mem', code)
      PROVE  UNCHANGED <<prog, code>> /\ phase' = "run" /\ InCode'
  <2>1. code' = code /\ prog' = prog /\ phase' = phase /\ pc' = pc + 1
    BY <1>2 DEF Advance, compilerVars, treeVars, codeVars
  <2>2. pc + 1 \in DOMAIN code
    BY <1>2, NextLine DEF InCode, Instr
  <2> QED
    BY <1>2, <2>1, <2>2 DEF InCode
<1>3. CASE Compute \/ CompareValues \/ PopRegs
  <2>1. Advance /\ mem' = mem /\ Instr.op # "ret"
    BY <1>3 DEF Compute, CompareValues, PopRegs, Does
  <2>2. ReturnsFollow(mem', code)
    BY <2>1 DEF InCode
  <2> QED
    BY <1>2, <2>1, <2>2
<1>4. CASE Access
  <2>1. Advance /\ Instr.op # "ret"
    BY <1>4 DEF Access
  <2>2. mem' = mem \/ \E a, size, v : Write(a, size, v)
    BY <1>4 DEF Access
  <2>3. ReturnsFollow(mem', code)
    <3>1. CASE mem' = mem
      BY <3>1 DEF InCode
    <3>2. ASSUME NEW a, NEW size, NEW v, Write(a, size, v) PROVE ReturnsFollow(mem', code)
      BY <3>2, WrittenFollows DEF Write, InCode
    <3> QED
      BY <2>2, <3>1, <3>2
  <2> QED
    BY <1>2, <2>1, <2>3
<1>5. CASE PushRegs
  <2>1. Advance /\ Instr.op # "ret" /\ mem' = Pushed(mem, regs["rsp"], Instr.regs)
    BY <1>5 DEF PushRegs, Does
  <2>2. ReturnsFollow(mem', code)
    BY <2>1, PushedFollows DEF InCode
  <2> QED
    BY <1>2, <2>1, <2>2
<1>6. CASE PrintValue
  <2>1. Advance /\ Instr.op # "ret" /\ mem' = Above(mem, regs["rsp"])
    BY <1>6 DEF PrintValue, Does
  <2>2. ReturnsFollow(mem', code)
    BY <2>1, AboveFollows DEF InCode
  <2> QED
    BY <1>2, <2>1, <2>2
<1>7. CASE ScanValue
  <2>1. PICK v : mem' = Written(Above(mem, regs["rsp"]), Frame(Instr.off), Instr.size, v, FALSE)
    BY <1>7 DEF ScanValue
  <2>2. Advance /\ Instr.op # "ret"
    BY <1>7 DEF ScanValue, Does
  <2>3. ReturnsFollow(Above(mem, regs["rsp"]), code)
    BY AboveFollows DEF InCode
  <2>4. ReturnsFollow(mem', code)
    BY <2>1, <2>3, WrittenFollows
  <2> QED
    BY <1>2, <2>2, <2>4
<1>8. CASE Branch
  <2>1. /\ code' = code /\ prog' = prog /\ phase' = phase /\ mem' = mem /\ Instr.op = "jump"
        /\ pc' = PlaceOf(Instr.label) \/ pc' = pc + 1
    BY <1>8 DEF Branch, Does, compilerVars, treeVars, codeVars
  <2>2. PlaceOf(Instr.label) \in DOMAIN code
    BY <2>1, PlacesFound DEF InCode, Instr
  <2>3. pc + 1 \in DOMAIN code
    BY <2>1, NextLine DEF InCode, Instr
  <2> QED
    BY <2>1, <2>2, <2>3 DEF InCode
<1>9. CASE CallModule
  <2>1. /\ code' = code /\ prog' = prog /\ phase' = phase /\ Instr.op = "call"
        /\ pc' = PlaceOf(Instr.label) /\ mem' = Written(mem, regs["rsp"] - 8, 8, pc + 1, TRUE)
    BY <1>9 DEF CallModule, Does, compilerVars, treeVars, codeVars
  <2>2. PlaceOf(Instr.label) \in DOMAIN code
    BY <2>1, PlacesFound DEF InCode, Instr
  <2>3. FollowsCall(pc + 1, code)
    <3>1. pc + 1 \in DOMAIN code /\ (pc + 1) - 1 = pc
      BY <2>1, NextLine DEF InCode, Instr
    <3> QED
      BY <2>1, <3>1 DEF FollowsCall, Instr
  <2>4. ReturnsFollow(mem', code)
    BY <2>1, <2>3, WrittenFollows DEF InCode
  <2> QED
    BY <2>1, <2>2, <2>4 DEF InCode
<1>10. CASE Return
  <2>1. CASE AtReturnAddress
    <3>1. /\ code' = code /\ prog' = prog /\ phase' = phase /\ mem' = mem
          /\ pc' = mem[regs["rsp"]].value
      BY <1>10, <2>1 DEF Return, compilerVars, treeVars, codeVars
    <3>2. FollowsCall(pc', code)
      BY <2>1, <3>1 DEF AtReturnAddress, InCode, ReturnsFollow
    <3> QED
      BY <3>1, <3>2 DEF InCode, FollowsCall
  <2>2. CASE ~AtReturnAddress
    BY <1>10, <2>2 DEF Return, codeVars
  <2> QED
    BY <2>1, <2>2
<1>11. CASE Stop
  BY <1>11 DEF Stop, codeVars
<1> QED
  BY <1>1, <1>3, <1>4, <1>5, <1>6, <1>7, <1>8, <1>9, <1>10, <1>11 DEF MachineNext

LEMMA RunBegins ==
  ASSUME StaysInv, BeginRun
  PROVE  RunInv'
<1>1. /\ phase = "generate" /\ todo = << >> /\ phase' = "run"
      /\ prog' = prog /\ code' = code /\ pc' = pc /\ mem' = mem
  BY DEF BeginRun, codeVars, machineVars
<1>2. NamesFree' = NamesFree
  BY <1>1, NamesFreeKept
<1>3. ASSUME NamesFree PROVE Closed(code) /\ InCode
  <2>1. ThirdInv /\ Ending(todo, code) /\ pc = 1 /\ mem = << >>
    BY <1>1, <1>3 DEF StaysInv, BooksInv, RunInv
  <2>2. Len(code) \in Nat /\ DOMAIN code = 1 .. Len(code)
    BY <2>1, SeqFacts DEF ThirdInv, Accounted
  <2>3. Len(code) \in DOMAIN code /\ code[Len(code)].op = "ret"
    BY <1>1, <2>1 DEF Ending
  <2>4. Closed(code)
    BY <1>1, <2>1, <2>2, <2>3, BooksClosed DEF Closed
  <2>5. 1 \in DOMAIN code
    BY <2>2, <2>3
  <2>6. ReturnsFollow(mem, code)
    BY <2>1, EmptyList DEF ReturnsFollow
  <2> QED
    BY <2>1, <2>4, <2>5, <2>6 DEF InCode
<1> QED
  BY <1>1, <1>2, <1>3 DEF RunInv, InCode

LEMMA StaysInductive ==
  ASSUME StaysInv, [Next]_vars, LabelsFit'
  PROVE  StaysInv'
<1>1. AssemblyInv' /\ BooksInv'
  BY AssemblyInductive, BooksInductive DEF StaysInv
<1>a. labels' <= LabelsMax
  BY DEF LabelsFit, LabelsMax
<1>2. CASE ScopesNext /\ UNCHANGED <<result, codeVars, machineVars>>
  <2>1. phase = "scopes" /\ phase' = "scopes" /\ pc' = pc /\ mem' = mem
    BY <1>2, ScopesStep DEF machineVars
  <2> QED
    BY <1>1, <2>1 DEF StaysInv, RunInv
<1>3. CASE SemanticsNext /\ UNCHANGED <<codeVars, machineVars>>
  <2>1. phase' = "semantics" /\ pc' = pc /\ mem' = mem
    BY <1>3, SemanticsStep DEF machineVars
  <2>2. phase \in {"scopes", "semantics"}
    BY <1>3 DEF SemanticsNext, BeginSemantics, CheckModule, CheckReturned, CheckNothing, CheckLiteral,
         CheckSwitch, CheckBody, CheckFor, CheckCounter, CheckArray, CheckOperands, CheckBinary,
         CheckUnary, CheckSides, CheckAssign, CheckUse, CheckAt, CheckStep, Checking
  <2> QED
    BY <1>1, <2>1, <2>2 DEF StaysInv, RunInv
<1>4. CASE CodeGenNext /\ UNCHANGED machineVars
  <2>1. pc' = pc /\ mem' = mem
    BY <1>4 DEF machineVars
  <2>2. CASE BeginGenerate
    <3>1. phase = "semantics" /\ phase' \in {"generate", "accepted", "rejected"}
      BY <2>2 DEF BeginGenerate
    <3>2. ASSUME phase' = "generate", NamesFree' PROVE Ending(todo, code)'
      <4>1. ThirdInv'
        BY <1>1, <3>2 DEF BooksInv
      <4>2. ProgramInv
        BY <2>2, <3>1, <3>2 DEF BeginGenerate, StaysInv, AssemblyInv, SecondInv, Grounds
      <4> QED
        BY <2>2, <3>2, <4>1, <4>2, EndingBegins
    <3> QED
      BY <1>1, <2>1, <3>1, <3>2 DEF StaysInv, RunInv
  <2>3. CASE ~BeginGenerate
    <3>1. phase = "generate" /\ phase' = "generate" /\ prog' = prog
      BY <1>4, <2>3, GenerateStep
    <3>2. NamesFree' = NamesFree
      BY <3>1, NamesFreeKept
    <3>3. ASSUME NamesFree PROVE Ending(todo, code)'
      BY <1>4, <1>a, <2>3, <3>1, <3>3, EndingInductive DEF StaysInv, BooksInv, RunInv
    <3> QED
      BY <1>1, <2>1, <3>1, <3>2, <3>3 DEF StaysInv, RunInv
  <2> QED
    BY <2>2, <2>3
<1>5. CASE MachineNext
  <2>1. CASE BeginRun
    BY <1>1, <2>1, RunBegins DEF StaysInv
  <2>2. CASE ~BeginRun
    <3>1. phase = "run"
      BY <1>5, <2>2 DEF MachineNext, Compute, CompareValues, Access, PushRegs, PopRegs, Branch,
           CallModule, Return, PrintValue, ScanValue, Stop, Does, Running
    <3>2. prog' = prog /\ phase' \in {"run", "done", "wild"}
      BY <1>5, <2>2, <3>1, RunKeeps
    <3>3. NamesFree' = NamesFree
      BY <3>2, NamesFreeKept
    <3>4. ASSUME NamesFree, phase' = "run" PROVE Closed(code') /\ InCode'
      BY <1>5, <3>1, <3>4, RunStep DEF StaysInv, RunInv
    <3> QED
      BY <1>1, <3>2, <3>3, <3>4 DEF StaysInv, RunInv
  <2> QED
    BY <2>1, <2>2
<1>6. CASE UNCHANGED vars
  <2>1. /\ phase' = phase /\ prog' = prog /\ todo' = todo /\ code' = code /\ pc' = pc /\ mem' = mem
        /\ \A n : Node(n)' = Node(n)
    BY <1>6 DEF vars, compilerVars, treeVars, codeVars, machineVars, Node
  <2>2. NamesFree' = NamesFree
    BY <2>1, NamesFreeKept
  <2> QED
    BY <1>1, <2>1, <2>2 DEF StaysInv, RunInv, InCode, Ending, Final
<1> QED
  BY <1>2, <1>3, <1>4, <1>5, <1>6 DEF Next, Ended

THEOREM StaysInvariant == Spec /\ []LabelsFit => []StaysInv
<1>1. Init => StaysInv
  BY AssemblyInitially DEF Init, MachineInit, ScopesInit, StaysInv, BooksInv, RunInv
<1> QED
  BY <1>1, StaysInductive, PTL DEF Spec

(* Whatever the program and the input, the processor stays in the code that*)
(* was printed for it, and every return address on the stack is that of the*)
(* instruction after a call, if the names of modules are free and the      *)
(* numbers of labels fit.                                                  *)
THEOREM EveryRunStaysInCode == Spec /\ []LabelsFit => [](NamesFree => StaysInCode)
<1>1. StaysInv => (NamesFree => StaysInCode)
  BY DEF StaysInv, RunInv, StaysInCode, InCode, ReturnsFollow, FollowsCall, Running
<1> QED
  BY <1>1, StaysInvariant, PTL

-----------------------------------------------------------------------------
(* What has been accepted has been checked.  Of a name that is no array    *)
(* the code takes the element type from a field that means something else, *)
(* so nothing can be said of a program that puts an index on one.          *)
IndexedAreArrays ==
  \A n \in AllNodes : Node(n).tag = "ARRAY" => note[n].type.form \in {"ARRAY", "UNDEFINED"}

(* The type an expression has been given, if it has one.                   *)
ResultFits(n) ==
  /\ Node(n).tag = "INT"  => result[n] = Integer
  /\ Node(n).tag = "BOOL" => result[n] = Boolean
  /\ result[n] # Undefined =>
       /\ Node(n).tag = "REAL"   => result[n] = Real
       /\ Node(n).tag = "ARRAY"  => Known(result[n]) /\ result[n] = Scalar(note[n].type.elem)
       /\ Node(n).tag = "UNARY"  => Known(LeftType(n)) /\ result[n] = LeftType(n)
       /\ Node(n).tag = "BINARY" => OperationFits(n)

(* The tasks of the second walk and the nodes they are for.                *)
Postponed == {"assign", "counter", "returned"}
Proper(item) ==
  /\ item.do \in {"check", "operator"} \cup Postponed /\ item.node \in AllNodes
  /\ item.do = "operator" => Node(item.node).tag \in {"BINARY", "UNARY"}
  /\ item.do = "assign"   => Node(item.node).tag = "ASSIGN"
  /\ item.do = "counter"  => Node(item.node).tag = "FOR"
  /\ item.do = "returned" => Node(item.node).tag = "MODULE"

(* A task that needs the types of operands stands behind those that give   *)
(* them.                                                                   *)
NeedsTypes(item) == item.do \in {"operator", "assign"}
GivesType(item, n) == item.node = n /\ item.do \in {"check", "operator"}
Comes(n, i, agenda) == \E j \in DOMAIN agenda : j < i /\ GivesType(agenda[j], n)
InOrder(i) ==
  NeedsTypes(todo[i]) =>
    \A n \in KidsOf(Node(todo[i].node)) : Known(TypeOf(n)) \/ Comes(n, i, todo)

(* The statements behind the walk keep the rules, or wait for a last look. *)
Statements == {"ASSIGN", "SWITCH", "FOR", "MODULE", "USE"}
Obeys(n) == Node(n).tag \in Statements => NodeFits(n)
Past(V) == \A n \in V : n \in Pending(Postponed) \/ Obeys(n)
Fitting == \E V : Spread(V, Pending({"check"})) /\ Past(V)

Tasked == \A i \in DOMAIN todo : Proper(todo[i]) /\ InOrder(i)
Typed  == DOMAIN result = AllNodes /\ \A n \in AllNodes : ResultFits(n)
Typing == Typed /\ Tasked /\ Fitting

(* The tasks of one step, as far as their order goes.                      *)
Answers(do) ==
  CASE Node(Work.node).tag \in {"BINARY", "UNARY"} -> do = "operator"
    [] Node(Work.node).tag = "ASSIGN" -> do = "assign"
    [] Node(Work.node).tag = "FOR"    -> do = "counter"
    [] Node(Work.node).tag = "MODULE" -> do = "returned"
    [] OTHER -> TRUE
Orders(items) ==
  /\ IsSeq(items) /\ Call(items)
  /\ \A k \in DOMAIN items :
       /\ Proper(items[k])
       /\ NeedsTypes(items[k]) => \A n \in KidsOf(Node(items[k].node)) : Comes(n, k, items)
  /\ Work.do = "check" /\ Node(Work.node).tag \in {"BINARY", "UNARY", "ASSIGN", "FOR", "MODULE"} =>
       \E k \in DOMAIN items : items[k].node = Work.node /\ Answers(items[k].do)

LEMMA OrdersNone ==
  ASSUME Call(<< >>),
         Work.do = "check" => Node(Work.node).tag \notin {"BINARY", "UNARY", "ASSIGN", "FOR", "MODULE"}
  PROVE  Orders(<< >>)
BY EmptyList DEF Orders

LEMMA OrdersChecks ==
  ASSUME NEW nodes \in Seq(AllNodes), Call(Checks(nodes)),
         Node(Work.node).tag \notin {"BINARY", "UNARY", "ASSIGN", "FOR", "MODULE"}
  PROVE  Orders(Checks(nodes))
<1> DEFINE items == Checks(nodes)
<1>1. /\ IsSeq(items) /\ DOMAIN items = DOMAIN nodes
      /\ \A k \in DOMAIN nodes : items[k].do = "check" /\ items[k].node = nodes[k]
  <2>1. items = Checks(nodes)
    OBVIOUS
  <2> HIDE DEF items
  <2> QED
    BY <2>1, TasksAsk
<1>2. Call(items)
  OBVIOUS
<1> HIDE DEF items
<1>3. \A k \in DOMAIN items : items[k].node \in AllNodes
  BY <1>1
<1>4. Orders(items)
  BY <1>1, <1>2, <1>3 DEF Orders, Proper, NeedsTypes
<1> QED
  BY <1>4 DEF items

LEMMA OrdersLater ==
  ASSUME NEW nodes \in Seq(AllNodes), NEW do, Call(Checks(nodes) \o Later(do, Work.node)),
         Proper([do |-> do, node |-> Work.node, table |-> GlobalTable, nth |-> 0]),
         do # "check", Answers(do),
         do \in {"operator", "assign"} => KidsOf(Node(Work.node)) = {nodes[k] : k \in DOMAIN nodes}
  PROVE  Orders(Checks(nodes) \o Later(do, Work.node))
<1> DEFINE checks == Checks(nodes)
           later == Later(do, Work.node)
           items == checks \o later
<1> PICK last : last = [do |-> do, node |-> Work.node, table |-> GlobalTable, nth |-> 0]
  OBVIOUS
<1>1. /\ IsSeq(checks) /\ DOMAIN checks = DOMAIN nodes
      /\ \A k \in DOMAIN nodes : checks[k].do = "check" /\ checks[k].node = nodes[k]
  <2>1. checks = Checks(nodes)
    OBVIOUS
  <2> HIDE DEF checks
  <2> QED
    BY <2>1, TasksAsk
<1>2. Call(items)
  OBVIOUS
<1>3. IsSeq(later) /\ DOMAIN later = {1} /\ later[1] = last /\ Len(later) = 1
  BY DEF Later, Item, IsSeq
<1>4. last.do = do /\ last.node = Work.node /\ Proper(last)
  OBVIOUS
<1> HIDE DEF checks, later
<1>5. Joins(items, checks, later)
  BY <1>1, <1>3, ConcatSeqs
<1> HIDE DEF items
<1>6. IsSeq(items) /\ Len(checks) \in Nat /\ DOMAIN checks = 1 .. Len(checks)
      /\ Len(checks) + 1 \in DOMAIN items /\ items[Len(checks) + 1] = last
  BY <1>1, <1>3, <1>5, SeqFacts DEF Joins
<1>7. ASSUME NEW k \in DOMAIN items
      PROVE  \/ k \in DOMAIN checks /\ items[k] = checks[k]
             \/ k = Len(checks) + 1 /\ items[k] = last
  <2>1. CASE k > Len(checks) /\ k - Len(checks) \in DOMAIN later /\ items[k] = later[k - Len(checks)]
    <3>1. k - Len(checks) = 1 /\ k \in Nat
      BY <1>3, <1>6, <2>1, SeqFacts
    <3> QED
      BY <1>6, <3>1
  <2> QED
    BY <1>5, <2>1 DEF Joins
<1>8. ASSUME NEW k \in DOMAIN items PROVE Proper(items[k])
  <2>1. CASE k \in DOMAIN checks /\ items[k] = checks[k]
    <3>1. items[k].do = "check" /\ items[k].node \in AllNodes
      BY <1>1, <2>1
    <3> QED
      BY <3>1 DEF Proper
  <2> QED
    BY <1>4, <1>7, <2>1
<1>9. ASSUME NEW k \in DOMAIN items, NeedsTypes(items[k]), NEW n \in KidsOf(Node(items[k].node))
      PROVE  Comes(n, k, items)
  <2>1. k = Len(checks) + 1 /\ items[k] = last
    BY <1>1, <1>7, <1>9 DEF NeedsTypes
  <2>2. n \in {nodes[j] : j \in DOMAIN nodes}
    BY <1>4, <1>9, <2>1 DEF NeedsTypes
  <2>3. PICK j \in DOMAIN nodes : n = nodes[j]
    BY <2>2
  <2>4. j \in DOMAIN items /\ items[j] = checks[j]
    BY <1>1, <1>5, <2>3 DEF Joins
  <2>5. j < k
    BY <1>1, <1>6, <2>1, <2>3
  <2> QED
    BY <1>1, <2>3, <2>4, <2>5 DEF Comes, GivesType
<1>10. Orders(items)
  BY <1>2, <1>4, <1>6, <1>8, <1>9 DEF Orders
<1> QED
  BY <1>10 DEF checks, later, items

LEMMA SecondWork ==
  ASSUME SecondInv, Tasked, SemanticsNext, ~BeginSemantics
  PROVE  /\ 1 \in DOMAIN todo /\ Work = todo[1] /\ Proper(Work) /\ InOrder(1) /\ Work.node \in AllNodes
         /\ Work.do = "check" => Work.node \in Inside /\ Resolved(Work.node)
<1>1. todo # << >> /\ IsSeq(todo)
  BY SecondAssigns DEF SecondInv
<1>2. 1 \in DOMAIN todo /\ Work = todo[1]
  BY <1>1, EmptySeq, LenProperties DEF Work, IsSeq
<1>3. Work.do = "check" => Work.node \in Inside /\ Resolved(Work.node)
  BY <1>2, InsideFacts DEF SecondInv, Grounds
<1> QED
  BY <1>2, <1>3 DEF Tasked, Proper

LEMMA SecondOrders ==
  ASSUME SecondInv, Tasked, SemanticsNext, ~BeginSemantics
  PROVE  \E items : Orders(items)
<1>1. Work.node \in AllNodes /\ Proper(Work) /\ ProgramInv
  BY SecondWork DEF SecondInv, Grounds
<1>2. Here.kids \in Seq(AllNodes) /\ Body(Here) \in Seq(AllNodes)
  BY <1>1, KidsFacts, BodyFacts DEF Here
<1>3. CASE CheckModule \/ CheckFor
  <2>1. PICK do \in {"returned", "counter"} :
          /\ Call(Checks(Body(Here)) \o Later(do, Work.node))
          /\ do = "returned" => Here.tag = "MODULE"
          /\ do = "counter" => Here.tag = "FOR"
    BY <1>3 DEF CheckModule, CheckFor, CheckAt, Here
  <2>2. Proper([do |-> do, node |-> Work.node, table |-> GlobalTable, nth |-> 0]) /\ Answers(do)
    BY <1>1, <2>1 DEF Proper, Postponed, Answers, Here
  <2> QED
    BY <1>2, <2>1, <2>2, OrdersLater
<1>4. CASE CheckOperands \/ CheckSides
  <2>1. PICK do \in {"operator", "assign"} :
          /\ Call(Checks(Here.kids) \o Later(do, Work.node))
          /\ do = "operator" => Here.tag \in {"BINARY", "UNARY"}
          /\ do = "assign" => Here.tag = "ASSIGN"
    BY <1>4 DEF CheckOperands, CheckSides, CheckAt, Here
  <2>2. Proper([do |-> do, node |-> Work.node, table |-> GlobalTable, nth |-> 0]) /\ Answers(do)
    BY <1>1, <2>1 DEF Proper, Postponed, Answers, Here
  <2>3. KidsOf(Node(Work.node)) = {Here.kids[k] : k \in DOMAIN Here.kids}
    BY DEF KidsOf, Here
  <2> QED
    BY <1>2, <2>1, <2>2, <2>3, OrdersLater
<1>5. CASE CheckBody \/ CheckSwitch \/ CheckArray
  <2>1. /\ Node(Work.node).tag \in {"CASE", "WHILE", "SWITCH", "ARRAY"}
        /\ Call(<< >>) \/ Call(Checks(Body(Here))) \/ Call(Checks(Here.kids))
    BY <1>5 DEF CheckBody, CheckSwitch, CheckArray, CheckAt, Here
  <2>2. Node(Work.node).tag \notin {"BINARY", "UNARY", "ASSIGN", "FOR", "MODULE"}
    BY <2>1
  <2> QED
    BY <1>2, <2>1, <2>2, OrdersNone, OrdersChecks
<1>6. CASE CheckNothing \/ CheckLiteral \/ CheckUse
  <2>1. Node(Work.node).tag \notin {"BINARY", "UNARY", "ASSIGN", "FOR", "MODULE"} /\ Call(<< >>)
    BY <1>6 DEF CheckNothing, CheckLiteral, CheckUse, CheckAt, Here
  <2> QED
    BY <2>1, OrdersNone
<1>7. CASE CheckReturned \/ CheckCounter \/ CheckBinary \/ CheckUnary \/ CheckAssign
  <2>1. Work.do # "check" /\ Call(<< >>)
    BY <1>7 DEF CheckReturned, CheckCounter, CheckBinary, CheckUnary, CheckAssign, CheckStep
  <2> QED
    BY <2>1, OrdersNone
<1> QED
  BY <1>3, <1>4, <1>5, <1>6, <1>7 DEF SemanticsNext

(* The types that a step gives, and those that it leaves.                  *)
KeepsTypes == \A n \in AllNodes : Known(result[n]) => result'[n] = result[n]
Giving(type) ==
  LET tag == Node(Work.node).tag IN
    /\ Known(type) /\ tag \in Expressions \ {"ID"}
    /\ tag = "INT"    => type = Integer
    /\ tag = "BOOL"   => type = Boolean
    /\ tag = "REAL"   => type = Real
    /\ tag = "ARRAY"  => type = Scalar(note[Work.node].type.elem)
    /\ tag = "UNARY"  => Known(LeftType(Work.node)) /\ type = LeftType(Work.node)
    /\ tag = "BINARY" => /\ Known(LeftType(Work.node)) /\ Known(RightType(Work.node))
                         /\ type = BinaryType(Node(Work.node).op, LeftType(Work.node).form, RightType(Work.node).form)

LEMMA SidesFacts ==
  ASSUME ProgramInv, NEW n \in AllNodes
  PROVE  /\ Node(n).tag \in {"ASSIGN", "BINARY", "UNARY", "ARRAY"} =>
              /\ Node(n).kids[1] \in AllNodes /\ Node(n).kids[1] \in KidsOf(Node(n))
              /\ Node(Node(n).kids[1]).tag \in Expressions
         /\ Node(n).tag \in {"ASSIGN", "BINARY"} =>
              /\ Node(n).kids[2] \in AllNodes /\ Node(n).kids[2] \in KidsOf(Node(n))
              /\ Node(Node(n).kids[2]).tag \in Expressions
         /\ Node(n).tag \notin Branching =>
              \A m \in KidsOf(Node(n)) : m \in AllNodes /\ Node(m).tag \in Expressions
<1> PICK kids : kids = Node(n).kids
  OBVIOUS
<1>1. kids \in Seq(AllNodes) /\ DOMAIN kids = 1 .. Len(kids)
  BY KidsFacts
<1>2. Node(n).tag \notin Branching => \A i \in DOMAIN kids : Node(kids[i]).tag \in Expressions
  BY ArityFacts
<1>3. KidsOf(Node(n)) = {kids[i] : i \in DOMAIN kids}
  BY DEF KidsOf
<1>4. Node(n).tag \in {"ASSIGN", "BINARY"} => 1 \in DOMAIN kids /\ 2 \in DOMAIN kids
  BY <1>1, ArityFacts
<1>5. Node(n).tag \in {"ASSIGN", "BINARY", "UNARY", "ARRAY"} => 1 \in DOMAIN kids
  <2>1. Node(n).tag \in {"UNARY", "ARRAY"} => Len(kids) = 1
    BY ArityFacts
  <2>2. Len(kids) = 1 => 1 \in DOMAIN kids
    BY <1>1
  <2> QED
    BY <1>4, <2>1, <2>2
<1>6. \A i \in DOMAIN kids : kids[i] \in AllNodes /\ kids[i] \in KidsOf(Node(n))
  BY <1>1, <1>3
<1>7. Node(n).tag \in {"ASSIGN", "BINARY", "UNARY", "ARRAY"} => Node(n).tag \notin Branching
  BY DEF Branching
<1>8. ASSUME NEW i \in DOMAIN kids, Node(n).tag \notin Branching
      PROVE  kids[i] \in AllNodes /\ kids[i] \in KidsOf(Node(n)) /\ Node(kids[i]).tag \in Expressions
  BY <1>2, <1>6, <1>8
<1>9. ASSUME Node(n).tag \notin Branching, NEW m \in KidsOf(Node(n))
      PROVE  m \in AllNodes /\ Node(m).tag \in Expressions
  BY <1>3, <1>8, <1>9
<1>10. ASSUME Node(n).tag \in {"ASSIGN", "BINARY", "UNARY", "ARRAY"}
       PROVE  kids[1] \in AllNodes /\ kids[1] \in KidsOf(Node(n)) /\ Node(kids[1]).tag \in Expressions
  BY <1>5, <1>7, <1>8, <1>10
<1>11. ASSUME Node(n).tag \in {"ASSIGN", "BINARY"}
       PROVE  kids[2] \in AllNodes /\ kids[2] \in KidsOf(Node(n)) /\ Node(kids[2]).tag \in Expressions
  BY <1>4, <1>7, <1>8, <1>11
<1> QED
  BY <1>9, <1>10, <1>11

(* Operands are typed when it is their operator's turn.                    *)
LEMMA OperandsKnown ==
  ASSUME SecondInv, Tasked, SemanticsNext, ~BeginSemantics, NeedsTypes(Work)
  PROVE  \A n \in KidsOf(Node(Work.node)) : Known(TypeOf(n))
<1>1. InOrder(1) /\ Work = todo[1] /\ IsSeq(todo)
  BY SecondWork DEF SecondInv
<1>2. ASSUME NEW n PROVE ~Comes(n, 1, todo)
  <2>1. \A j \in DOMAIN todo : ~(j < 1)
    BY <1>1, SeqFacts
  <2> QED
    BY <2>1 DEF Comes
<1> QED
  BY <1>1, <1>2 DEF InOrder

LEMMA TypeGiven ==
  ASSUME SecondInv, IndexedAreArrays, Tasked, SemanticsNext, ~BeginSemantics, errors' = {},
         CheckLiteral \/ CheckArray \/ CheckBinary \/ CheckUnary
  PROVE  \E type : Yields(type) /\ Giving(type)
<1>1. Work.node \in AllNodes /\ ProgramInv /\ NotesTyped
      /\ (Work.do = "check" => Resolved(Work.node))
  BY SecondWork DEF SecondInv, Grounds
<1>2. CASE CheckLiteral
  <2>1. Node(Work.node).tag \in {"INT", "BOOL", "REAL"}
    BY <1>2 DEF CheckLiteral, Here
  <2>2. PICK type : /\ Yields(type)
                    /\ type = CASE Here.tag = "INT" -> Integer [] Here.tag = "BOOL" -> Boolean [] OTHER -> Real
    BY <1>2 DEF CheckLiteral
  <2>3. Giving(type)
    BY <2>1, <2>2 DEF Giving, Expressions, Known, Integer, Boolean, Real, Here
  <2> QED
    BY <2>2, <2>3
<1>3. CASE CheckArray
  <2>1. Node(Work.node).tag = "ARRAY" /\ Work.do = "check"
    BY <1>3 DEF CheckArray, CheckAt, CheckStep
  <2>2. Known(note[Work.node].type)
    BY <1>1, <2>1 DEF Resolved, Naming
  <2>3. note[Work.node].type.form = "ARRAY" /\ note[Work.node].type # Undefined
    BY <1>1, <2>1, <2>2 DEF IndexedAreArrays, Known, Undefined
  <2>4. note[Work.node].type.elem \in DOMAIN SizeOf
    BY <1>1, <2>3 DEF NotesTyped, NoteTyped
  <2>5. Yields(Scalar(note[Work.node].type.elem))
    BY <1>3, <2>3 DEF CheckArray, ElementForms
  <2>6. Giving(Scalar(note[Work.node].type.elem))
    BY <2>1, <2>4 DEF Giving, Expressions, Known, Scalar, SizeOf
  <2> QED
    BY <2>5, <2>6
<1>4. CASE CheckUnary
  <2>1. Node(Work.node).tag = "UNARY" /\ NeedsTypes(Work) /\ Yields(LeftType(Work.node))
    BY <1>4 DEF CheckUnary, CheckStep, Here, NeedsTypes, LeftType
  <2>2. Known(LeftType(Work.node))
    BY <1>1, <2>1, OperandsKnown, SidesFacts DEF LeftType
  <2>3. Giving(LeftType(Work.node))
    BY <2>1, <2>2 DEF Giving, Expressions
  <2> QED
    BY <2>1, <2>3
<1>5. CASE CheckBinary
  <2>1. Node(Work.node).tag = "BINARY" /\ NeedsTypes(Work)
    BY <1>5 DEF CheckBinary, CheckStep, Here, NeedsTypes
  <2>2. Known(LeftType(Work.node)) /\ Known(RightType(Work.node))
    BY <1>1, <2>1, OperandsKnown, SidesFacts DEF LeftType, RightType
  <2> PICK l : l = LeftType(Work.node).form
    OBVIOUS
  <2> PICK r : r = RightType(Work.node).form
    OBVIOUS
  <2> PICK type : type = BinaryType(Node(Work.node).op, l, r)
    OBVIOUS
  <2>3. {l, r} \cap {"ERROR", "UNDEFINED"} = {}
    BY <2>2 DEF Known
  <2>4. Yields(type) /\ ReportIf(type = Error, "operands")
    BY <1>5, <2>3 DEF CheckBinary, LeftType, RightType, Here
  <2>5. type # Error
    BY <2>4 DEF ReportIf, Report
  <2>6. Known(type)
    BY <2>5 DEF BinaryType, Numbers, Known, Scalar, Real, Boolean
  <2>7. Giving(type)
    BY <2>1, <2>2, <2>6 DEF Giving, Expressions
  <2> QED
    BY <2>4, <2>7
<1> QED
  BY <1>2, <1>3, <1>4, <1>5

LEMMA GivenKeeps ==
  ASSUME Typed, NEW type, Giving(type), Yields(type), Work.node \in AllNodes
  PROVE  /\ DOMAIN result' = AllNodes /\ KeepsTypes /\ result'[Work.node] = type
         /\ \A n \in AllNodes : n # Work.node => result'[n] = result[n]
<1> PICK h : h = Work.node
  OBVIOUS
<1>1. result' = [result EXCEPT ![h] = type] /\ DOMAIN result = AllNodes /\ h \in AllNodes
  BY DEF Yields, Typed
<1>2. DOMAIN result' = AllNodes /\ result'[h] = type /\ \A n \in AllNodes : n # h => result'[n] = result[n]
  BY <1>1
<1>3. ASSUME Known(result[h]) PROVE result[h] = type
  <2>1. ResultFits(h) /\ result[h] # Undefined
    BY <1>1, <1>3 DEF Typed, Known, Undefined
  <2>2. Node(h).tag \in {"INT", "BOOL", "REAL", "ARRAY", "UNARY", "BINARY"}
    BY DEF Giving, Expressions
  <2> QED
    BY <2>1, <2>2 DEF ResultFits, Giving, OperationFits
<1> QED
  BY <1>1, <1>2, <1>3 DEF KeepsTypes

LEMMA KnownStays ==
  ASSUME prog' = prog, note' = note, KeepsTypes, NEW CONSTANT n \in AllNodes, Known(TypeOf(n))
  PROVE  TypeOf(n)' = TypeOf(n)
BY DEF TypeOf, KeepsTypes, Node

LEMMA SidesStay ==
  ASSUME ProgramInv, prog' = prog, note' = note, KeepsTypes, NEW CONSTANT n \in AllNodes
  PROVE  /\ Node(n).tag \in {"ASSIGN", "BINARY", "UNARY"} /\ Known(LeftType(n)) => LeftType(n)' = LeftType(n)
         /\ Node(n).tag \in {"ASSIGN", "BINARY"} /\ Known(RightType(n)) => RightType(n)' = RightType(n)
<1> PICK l : l = Node(n).kids[1]
  OBVIOUS
<1> PICK r : r = Node(n).kids[2]
  OBVIOUS
<1>1. LeftType(n) = TypeOf(l) /\ RightType(n) = TypeOf(r)
      /\ LeftType(n)' = TypeOf(l)' /\ RightType(n)' = TypeOf(r)'
  BY DEF LeftType, RightType, Node
<1>2. /\ Node(n).tag \in {"ASSIGN", "BINARY", "UNARY"} => l \in AllNodes
      /\ Node(n).tag \in {"ASSIGN", "BINARY"} => r \in AllNodes
  BY SidesFacts
<1>3. l \in AllNodes /\ Known(TypeOf(l)) => TypeOf(l)' = TypeOf(l)
  BY KnownStays
<1>4. r \in AllNodes /\ Known(TypeOf(r)) => TypeOf(r)' = TypeOf(r)
  BY KnownStays
<1> QED
  BY <1>1, <1>2, <1>3, <1>4

LEMMA ResultStays ==
  ASSUME ProgramInv, prog' = prog, note' = note, KeepsTypes, NEW CONSTANT n \in AllNodes,
         ResultFits(n), result'[n] = result[n]
  PROVE  ResultFits(n)'
<1>1. Node(n)' = Node(n)
  BY DEF Node
<1>2. ASSUME result[n] # Undefined, Node(n).tag = "UNARY"
      PROVE  Known(LeftType(n))' /\ result'[n] = LeftType(n)'
  <2>1. Known(LeftType(n)) /\ result[n] = LeftType(n)
    BY <1>2 DEF ResultFits
  <2>2. LeftType(n)' = LeftType(n)
    BY <1>2, <2>1, SidesStay
  <2> QED
    BY <2>1, <2>2 DEF Known
<1>3. ASSUME result[n] # Undefined, Node(n).tag = "BINARY" PROVE OperationFits(n)'
  <2>1. OperationFits(n)
    BY <1>3 DEF ResultFits
  <2>2. LeftType(n)' = LeftType(n) /\ RightType(n)' = RightType(n)
    BY <1>3, <2>1, SidesStay DEF OperationFits
  <2> QED
    BY <1>1, <2>1, <2>2 DEF OperationFits, Known
<1> QED
  BY <1>1, <1>2, <1>3 DEF ResultFits, Known

LEMMA ResultGiven ==
  ASSUME ProgramInv, prog' = prog, note' = note, KeepsTypes, NEW CONSTANT n \in AllNodes, n = Work.node,
         NEW CONSTANT type, Giving(type), result'[n] = type
  PROVE  ResultFits(n)' /\ Known(TypeOf(n))'
<1>1. Node(n)' = Node(n) /\ Node(n).tag \in Expressions \ {"ID"} /\ Known(type)
  BY DEF Node, Giving
<1>2. ASSUME Node(n).tag = "UNARY"
      PROVE  Known(LeftType(n))' /\ result'[n] = LeftType(n)'
  <2>1. Known(LeftType(n)) /\ type = LeftType(n)
    BY <1>2 DEF Giving
  <2>2. LeftType(n)' = LeftType(n)
    BY <1>2, <2>1, SidesStay
  <2> QED
    BY <2>1, <2>2 DEF Known
<1>3. ASSUME Node(n).tag = "BINARY" PROVE OperationFits(n)'
  <2>1. /\ Known(LeftType(n)) /\ Known(RightType(n)) /\ Known(type)
        /\ type = BinaryType(Node(n).op, LeftType(n).form, RightType(n).form)
    BY <1>3 DEF Giving
  <2>2. LeftType(n)' = LeftType(n) /\ RightType(n)' = RightType(n)
    BY <1>3, <2>1, SidesStay
  <2> QED
    BY <1>1, <2>1, <2>2 DEF OperationFits, Known
<1>4. ResultFits(n)'
  BY <1>1, <1>2, <1>3 DEF ResultFits, Known, Giving
<1>5. TypeOf(n)' = type
  BY <1>1 DEF TypeOf
<1>6. Known(TypeOf(n))'
  BY <1>1, <1>5 DEF Known
<1> QED
  BY <1>4, <1>6

LEMMA OtherSteps ==
  ASSUME SemanticsNext, ~(CheckLiteral \/ CheckArray \/ CheckBinary \/ CheckUnary)
  PROVE  result' = result
BY DEF SemanticsNext, BeginSemantics, CheckModule, CheckReturned, CheckNothing, CheckSwitch, CheckBody,
       CheckFor, CheckCounter, CheckOperands, CheckSides, CheckAssign, CheckUse

LEMMA TypesInductive ==
  ASSUME SecondInv, IndexedAreArrays, Typed, Tasked, SemanticsNext, ~BeginSemantics, errors' = {}
  PROVE  Typed' /\ KeepsTypes
<1>1. ProgramInv /\ prog' = prog /\ note' = note /\ Work.node \in AllNodes /\ AllNodes' = AllNodes
  BY SecondAssigns, SecondWork DEF SecondInv, Grounds, AllNodes
<1>2. CASE CheckLiteral \/ CheckArray \/ CheckBinary \/ CheckUnary
  <2>1. PICK type : Yields(type) /\ Giving(type)
    BY <1>2, TypeGiven
  <2>2. /\ DOMAIN result' = AllNodes /\ KeepsTypes /\ result'[Work.node] = type
        /\ \A n \in AllNodes : n # Work.node => result'[n] = result[n]
    BY <1>1, <2>1, GivenKeeps
  <2>3. ASSUME NEW n \in AllNodes PROVE ResultFits(n)'
    <3>1. CASE n = Work.node
      BY <1>1, <2>1, <2>2, <3>1, ResultGiven
    <3>2. CASE n # Work.node
      <4>1. ResultFits(n)
        BY DEF Typed
      <4> QED
        BY <1>1, <2>2, <3>2, <4>1, ResultStays
    <3> QED
      BY <3>1, <3>2
  <2> QED
    BY <1>1, <2>2, <2>3 DEF Typed
<1>3. CASE ~(CheckLiteral \/ CheckArray \/ CheckBinary \/ CheckUnary)
  <2>1. result' = result
    BY <1>3, OtherSteps
  <2>2. KeepsTypes
    BY <2>1 DEF KeepsTypes
  <2>3. ASSUME NEW n \in AllNodes PROVE ResultFits(n)'
    <3>1. ResultFits(n)
      BY DEF Typed
    <3> QED
      BY <1>1, <2>1, <2>2, <3>1, ResultStays
  <2> QED
    BY <1>1, <2>1, <2>2, <2>3 DEF Typed
<1> QED
  BY <1>2, <1>3

(* After its turn an expression has its type, unless it has asked for more.*)
LEMMA TypeIsThere ==
  ASSUME SecondInv, IndexedAreArrays, Typed, Tasked, SemanticsNext, ~BeginSemantics, errors' = {},
         NEW CONSTANT h, h = Work.node, Work.do \in {"check", "operator"}, Node(h).tag \in Expressions,
         ~(Work.do = "check" /\ Node(h).tag \in {"BINARY", "UNARY"})
  PROVE  Known(TypeOf(h))'
<1>1. ProgramInv /\ prog' = prog /\ note' = note /\ h \in AllNodes /\ Proper(Work)
      /\ (Work.do = "check" => Resolved(h))
  BY SecondAssigns, SecondWork DEF SecondInv, Grounds
<1>2. CASE CheckLiteral \/ CheckArray \/ CheckBinary \/ CheckUnary
  <2>1. PICK type : Yields(type) /\ Giving(type)
    BY <1>2, TypeGiven
  <2>2. KeepsTypes /\ result'[h] = type
    BY <1>1, <2>1, GivenKeeps
  <2> QED
    BY <1>1, <2>1, <2>2, ResultGiven
<1>3. CASE ~(CheckLiteral \/ CheckArray \/ CheckBinary \/ CheckUnary)
  <2>1. Node(h).tag = "ID" /\ Work.do = "check"
    <3>1. CASE Work.do = "operator"
      <4>1. Node(h).tag \in {"BINARY", "UNARY"}
        BY <1>1, <3>1 DEF Proper
      <4>2. CheckBinary \/ CheckUnary
        BY <3>1, <4>1 DEF SemanticsNext, CheckModule, CheckReturned, CheckNothing, CheckLiteral, CheckSwitch,
           CheckBody, CheckFor, CheckCounter, CheckArray, CheckOperands,
           CheckSides, CheckAssign, CheckUse, CheckAt, CheckStep, Here
      <4> QED
        BY <1>3, <4>2
    <3>2. CASE Work.do = "check"
      <4>1. Node(h).tag \notin {"BINARY", "UNARY"}
        BY <3>2
      <4>2. CheckNothing
        BY <1>3, <3>2, <4>1 DEF SemanticsNext, CheckModule, CheckReturned, CheckSwitch,
           CheckBody, CheckFor, CheckCounter, CheckOperands, CheckBinary, CheckUnary,
           CheckSides, CheckAssign, CheckUse, CheckAt, CheckStep, Here, Expressions
      <4> QED
        BY <3>2, <4>2 DEF CheckNothing, Here, Expressions
    <3> QED
      BY <3>1, <3>2
  <2>2. Known(note[h].type)
    BY <1>1, <2>1 DEF Resolved, Naming
  <2>3. TypeOf(h)' = note[h].type
    BY <1>1, <2>1 DEF TypeOf, Node
  <2> QED
    BY <2>2, <2>3 DEF Known
<1> QED
  BY <1>2, <1>3

(* The tasks stay in order.                                                *)
LEMMA InOrderStays ==
  ASSUME SecondInv, IndexedAreArrays, Typed, Tasked, SemanticsNext, ~BeginSemantics, errors' = {},
         NEW items, Orders(items), Replaces(todo', todo, items), Work = todo[1],
         NEW CONSTANT i, i \in DOMAIN todo', NEW CONSTANT x, x = todo'[i], NeedsTypes(x),
         NEW CONSTANT n, n \in KidsOf(Node(x.node))
  PROVE  Known(TypeOf(n))' \/ Comes(n, i, todo)'
<1>1. ProgramInv /\ prog' = prog /\ note' = note
  BY SecondAssigns DEF SecondInv, Grounds
<1>2. KeepsTypes
  BY TypesInductive
<1> PICK m : m = i - Len(items) + 1
  OBVIOUS
<1>3. CASE i \in DOMAIN items /\ todo'[i] = items[i]
  <2>1. Comes(n, i, items)
    BY <1>3 DEF Orders
  <2>2. PICK j \in DOMAIN items : j < i /\ GivesType(items[j], n)
    BY <2>1 DEF Comes
  <2>3. j \in DOMAIN todo' /\ todo'[j] = items[j]
    BY <2>2 DEF Replaces
  <2> QED
    BY <2>2, <2>3 DEF Comes, GivesType
<1>4. CASE i > Len(items) /\ m \in DOMAIN todo /\ m > 1 /\ todo'[i] = todo[m]
  <2>1. InOrder(m) /\ NeedsTypes(todo[m]) /\ Proper(x) /\ x = todo[m]
    BY <1>4 DEF Tasked
  <2>2. x.node \in AllNodes /\ Node(x.node).tag \in {"BINARY", "UNARY", "ASSIGN"}
    BY <2>1 DEF Proper, NeedsTypes
  <2>3. n \in AllNodes /\ Node(n).tag \in Expressions
    <3>1. Node(x.node).tag \notin Branching
      BY <2>2 DEF Branching
    <3> QED
      BY <1>1, <2>2, <3>1, SidesFacts
  <2>4. CASE Known(TypeOf(n))
    <3>1. TypeOf(n)' = TypeOf(n)
      BY <1>1, <1>2, <2>3, <2>4, KnownStays
    <3> QED
      BY <2>4, <3>1 DEF Known
  <2>5. ASSUME NEW j \in DOMAIN todo, j < m, GivesType(todo[j], n)
        PROVE  Known(TypeOf(n))' \/ Comes(n, i, todo)'
    <3>1. /\ Len(todo) \in Nat /\ DOMAIN todo = 1 .. Len(todo) /\ Len(items) \in Nat
          /\ DOMAIN items = 1 .. Len(items) /\ DOMAIN todo' = 1 .. Len(todo') /\ Len(todo') \in Nat
      BY SeqFacts DEF SecondInv, Orders, Replaces
    <3>2. CASE j > 1
      <4> PICK k : k = Len(items) + j - 1
        OBVIOUS
      <4>1. k \in DOMAIN todo' /\ todo'[k] = todo[j]
        BY <3>2 DEF Replaces
      <4>2. k < i
        BY <2>5, <3>1
      <4>3. todo'[k].node = n /\ todo'[k].do \in {"check", "operator"}
        BY <2>5, <4>1 DEF GivesType
      <4> QED
        BY <4>1, <4>2, <4>3 DEF Comes, GivesType
    <3>3. CASE j = 1
      <4>1. Work.node = n /\ Work.do \in {"check", "operator"}
        BY <2>5, <3>3 DEF GivesType
      <4>2. CASE Work.do = "check" /\ Node(n).tag \in {"BINARY", "UNARY"}
        <5>1. PICK k \in DOMAIN items : items[k].node = n /\ items[k].do = "operator"
          BY <4>1, <4>2 DEF Orders, Answers
        <5>2. k \in DOMAIN todo' /\ todo'[k] = items[k] /\ k < i
          BY <1>4, <3>1 DEF Replaces
        <5>3. todo'[k].node = n /\ todo'[k].do \in {"check", "operator"}
          BY <5>1, <5>2
        <5> QED
          BY <5>2, <5>3 DEF Comes, GivesType
      <4>3. CASE ~(Work.do = "check" /\ Node(n).tag \in {"BINARY", "UNARY"})
        BY <2>3, <4>1, <4>3, TypeIsThere
      <4> QED
        BY <4>2, <4>3
    <3> QED
      BY <3>1, <3>2, <3>3
  <2> QED
    BY <1>4, <2>1, <2>4, <2>5 DEF InOrder, Comes
<1> QED
  BY <1>3, <1>4 DEF Replaces

LEMMA TaskedInductive ==
  ASSUME SecondInv, IndexedAreArrays, Typed, Tasked, SemanticsNext, ~BeginSemantics, errors' = {}
  PROVE  Tasked'
<1>1. PICK items : Orders(items)
  BY SecondOrders
<1>2. todo # << >> /\ prog' = prog
  BY SecondAssigns
<1>3. Replaces(todo', todo, items) /\ Work = todo[1]
  BY <1>1, <1>2, AgendaReplaced DEF SecondInv, Orders
<1>4. AllNodes' = AllNodes /\ \A n : Node(n)' = Node(n)
  BY <1>2 DEF AllNodes, Node
<1>5. ASSUME NEW CONSTANT i, i \in DOMAIN todo'
      PROVE  Proper(todo[i])' /\ InOrder(i)'
  <2> PICK x : x = todo'[i]
    OBVIOUS
  <2>1. Proper(x)
    <3>1. CASE i \in DOMAIN items /\ todo'[i] = items[i]
      BY <1>1, <3>1 DEF Orders
    <3>2. CASE i - Len(items) + 1 \in DOMAIN todo /\ todo'[i] = todo[i - Len(items) + 1]
      BY <3>2 DEF Tasked
    <3> QED
      BY <1>3, <1>5, <3>1, <3>2 DEF Replaces
  <2>2. Proper(todo[i])'
    BY <1>4, <2>1 DEF Proper
  <2>3. ASSUME NeedsTypes(x), NEW CONSTANT n, n \in KidsOf(Node(x.node))
        PROVE  Known(TypeOf(n))' \/ Comes(n, i, todo)'
    BY <1>1, <1>3, <1>5, <2>3, InOrderStays
  <2>4. KidsOf(Node(todo[i].node))' = KidsOf(Node(x.node))
    BY <1>4
  <2>5. InOrder(i)'
    BY <2>3, <2>4 DEF InOrder, NeedsTypes
  <2> QED
    BY <2>2, <2>5
<1> QED
  BY <1>5 DEF Tasked

(* What has kept the rules goes on keeping them.                           *)
LEMMA ObeysStays ==
  ASSUME SecondInv, IndexedAreArrays, Typed, Tasked, SemanticsNext, ~BeginSemantics, errors' = {},
         NEW CONSTANT n, n \in AllNodes, Obeys(n)
  PROVE  Obeys(n)'
<1>1. ProgramInv /\ prog' = prog /\ note' = note /\ table' = table /\ Node(n)' = Node(n)
  BY SecondAssigns DEF SecondInv, Grounds, Node
<1>2. owned' = owned
  BY DEF SemanticsNext, CheckModule, CheckReturned, CheckNothing, CheckLiteral, CheckSwitch, CheckBody,
         CheckFor, CheckCounter, CheckArray, CheckOperands, CheckBinary, CheckUnary, CheckSides,
         CheckAssign, CheckUse
<1>3. CASE Node(n).tag = "ASSIGN"
  <2>1. Known(LeftType(n)) /\ Known(RightType(n)) /\ Equivalent(LeftType(n), RightType(n))
    BY <1>3 DEF Obeys, Statements, NodeFits, AssignmentFits
  <2>2. LeftType(n)' = LeftType(n) /\ RightType(n)' = RightType(n)
    BY <1>1, <1>3, <2>1, TypesInductive, SidesStay
  <2>3. AssignmentFits(n)'
    BY <2>1, <2>2 DEF AssignmentFits, Known
  <2> QED
    BY <1>1, <1>3, <2>3 DEF Obeys, Statements, NodeFits
<1>4. CASE Node(n).tag = "SWITCH"
  <2>1. SwitchFits(n)
    BY <1>4 DEF Obeys, Statements, NodeFits
  <2>2. CasesOf(Node(n))' = CasesOf(Node(n)) /\ \A m : Node(m)' = Node(m)
    BY <1>1 DEF Node
  <2>3. SwitchFits(n)'
    BY <1>1, <2>1, <2>2 DEF SwitchFits
  <2> QED
    BY <1>1, <1>4, <2>3 DEF Obeys, Statements, NodeFits
<1>5. CASE Node(n).tag = "FOR"
  BY <1>1, <1>2, <1>5 DEF Obeys, Statements, NodeFits, CounterStays
<1>6. CASE Node(n).tag = "MODULE"
  <2>1. ScopeOf(n)' = ScopeOf(n)
    BY <1>2 DEF ScopeOf
  <2>2. \A t, name : Lookup(t, name)' = Lookup(t, name)
    BY <1>1 DEF Lookup, Holder, HoldersOf
  <2> QED
    BY <1>1, <1>6, <2>1, <2>2 DEF Obeys, Statements, NodeFits, ResultsSet
<1>7. CASE Node(n).tag = "USE"
  BY <1>1, <1>7 DEF Obeys, Statements, NodeFits, CallFits, GlobalTable
<1>8. CASE Node(n).tag \notin Statements
  BY <1>1, <1>8 DEF Obeys
<1> QED
  BY <1>3, <1>4, <1>5, <1>6, <1>7, <1>8 DEF Statements

(* What a task that reports nothing has made sure of.                      *)
LEMMA SwitchObeys ==
  ASSUME SecondInv, Tasked, SemanticsNext, ~BeginSemantics, errors' = {}, CheckSwitch
  PROVE  SwitchFits(Work.node)
<1>1. Node(Work.node).tag = "SWITCH" /\ Work.do = "check"
  BY DEF CheckSwitch, CheckAt, CheckStep
<1>2. Known(note[Work.node].type) /\ Work.node \in AllNodes /\ ProgramInv
  BY <1>1, SecondWork DEF Resolved, Naming, SecondInv, Grounds
<1>3. Here.default \in BOOLEAN
  BY <1>1, <1>2 DEF ProgramInv, WellFormed, NodeWellFormed, Node, AllNodes, Here
<1>4. SwitchForm \in {"INTEGER", "BOOLEAN", "UNDEFINED"}
  BY DEF CheckSwitch, Report
<1>5. SwitchForm \in {"INTEGER", "BOOLEAN"}
  BY <1>2, <1>4 DEF Known, SwitchForm
<1> PICK f : f = SwitchForm
  OBVIOUS
<1> DEFINE mismatched == f # "UNDEFINED" /\
             \E i \in DOMAIN CasesOf(Here) :
               ~Equivalent(Node(CasesOf(Here)[i]).type, note[Work.node].type)
<1>6. errors' = errors
                 \cup (IF mismatched THEN {[what |-> "case type", node |-> Work.node]} ELSE {})
                 \cup (IF (f = "BOOLEAN") = Here.default
                       THEN {[what |-> "default", node |-> Work.node]} ELSE {})
  BY <1>4 DEF CheckSwitch
<1>7. ~mismatched
  <2> HIDE DEF mismatched
  <2>1. mismatched => [what |-> "case type", node |-> Work.node] \in errors'
    BY <1>6
  <2> QED
    BY <2>1
<1>8. (f = "BOOLEAN") # Here.default
  <2> HIDE DEF mismatched
  <2>1. (f = "BOOLEAN") = Here.default => [what |-> "default", node |-> Work.node] \in errors'
    BY <1>6
  <2> QED
    BY <2>1
<1>9. Here.default <=> f = "INTEGER"
  BY <1>3, <1>5, <1>8
<1>10. \A i \in DOMAIN CasesOf(Here) : Equivalent(Node(CasesOf(Here)[i]).type, note[Work.node].type)
  BY <1>5, <1>7
<1> HIDE DEF mismatched
<1> QED
  BY <1>5, <1>9, <1>10 DEF SwitchFits, SwitchForm, Here

LEMMA ListObeys ==
  ASSUME NEW actual, NEW expected, NEW list, ListFaults(actual, expected, list) = {}
  PROVE  ListFits(actual, expected)
<1>1. Len(actual) = Len(expected)
  BY DEF ListFaults
<1>2. ASSUME NEW i \in DOMAIN actual PROVE actual[i] # Undefined
  <2>1. actual[i] = Undefined => "undeclared in call" \in ListFaults(actual, expected, list)
    BY <1>1 DEF ListFaults
  <2> QED
    BY <2>1
<1>3. ASSUME NEW i \in DOMAIN actual PROVE Equivalent(actual[i], expected[i])
  <2>1. ~Equivalent(actual[i], expected[i]) => list \in ListFaults(actual, expected, list)
    BY <1>1, <1>2 DEF ListFaults
  <2> QED
    BY <2>1
<1> QED
  BY <1>1, <1>2, <1>3 DEF ListFits

LEMMA UseObeys ==
  ASSUME errors' = {}, CheckUse
  PROVE  CallFits(Work.node)
<1> DEFINE actual == note[Work.node].type
           faults == IF CallFaults # {} THEN CallFaults
                     ELSE ListFaults(actual.inputs, Callee.type.inputs, "parameters")
                          \cup ListFaults(actual.returns, Callee.type.returns, "returns")
<1>1. faults = {}
  <2>1. errors' = errors \cup {[what |-> f, node |-> Work.node] : f \in faults}
    BY DEF CheckUse
  <2> HIDE DEF faults
  <2> SUFFICES ASSUME NEW f \in faults PROVE FALSE
    OBVIOUS
  <2>2. [what |-> f, node |-> Work.node] \in errors'
    BY <2>1
  <2> QED
    BY <2>2
<1>2. CallFaults = {}
  BY <1>1
<1>3. CallIs = "normal"
  BY <1>2 DEF CallFaults
<1>4. IsDefined(Here.name)
  BY <1>3 DEF CallIs
<1>5. /\ ListFaults(actual.inputs, Callee.type.inputs, "parameters") = {}
      /\ ListFaults(actual.returns, Callee.type.returns, "returns") = {}
  BY <1>1, <1>2
<1>6. ListFits(actual.inputs, Callee.type.inputs) /\ ListFits(actual.returns, Callee.type.returns)
  BY <1>5, ListObeys
<1> QED
  BY <1>4, <1>6 DEF CallFits, IsDefined, Callee, Here

LEMMA AssignObeys ==
  ASSUME SecondInv, Tasked, SemanticsNext, ~BeginSemantics, errors' = {}, CheckAssign
  PROVE  Obeys(Work.node)
<1>1. ProgramInv /\ Work.node \in AllNodes /\ Proper(Work) /\ Work.do = "assign"
  BY SecondWork DEF SecondInv, Grounds, CheckAssign, CheckStep
<1>2. Node(Work.node).tag = "ASSIGN" /\ NeedsTypes(Work)
  BY <1>1 DEF Proper, NeedsTypes
<1> PICK l : l = LeftType(Work.node)
  OBVIOUS
<1> PICK r : r = RightType(Work.node)
  OBVIOUS
<1>3. Known(l) /\ Known(r)
  BY <1>1, <1>2, OperandsKnown, SidesFacts DEF LeftType, RightType
<1>4. l # Undefined /\ r \notin {Undefined, Error}
  BY <1>3 DEF Known, Undefined, Error
<1>5. ReportIf(/\ l # Undefined /\ r \notin {Undefined, Error}
               /\ ~Equivalent(l, r), "assignment")
  BY DEF CheckAssign, LeftType, RightType, Here
<1>6. Equivalent(l, r)
  BY <1>4, <1>5 DEF ReportIf, Report
<1>7. AssignmentFits(Work.node)
  BY <1>3, <1>6 DEF AssignmentFits
<1> QED
  BY <1>2, <1>7 DEF Obeys, Statements, NodeFits

LEMMA LastLooks ==
  ASSUME SecondInv, Tasked, SemanticsNext, ~BeginSemantics, errors' = {}, Work.do \in Postponed
  PROVE  Obeys(Work.node)
<1>1. Proper(Work)
  BY SecondWork
<1>2. CASE Work.do = "assign"
  <2>1. CheckAssign
    BY <1>2 DEF SemanticsNext, CheckModule, CheckReturned, CheckNothing, CheckLiteral, CheckSwitch,
         CheckBody, CheckFor, CheckCounter, CheckArray, CheckOperands, CheckBinary, CheckUnary,
         CheckSides, CheckUse, CheckAt, CheckStep
  <2> QED
    BY <2>1, AssignObeys
<1>3. CASE Work.do = "counter"
  <2>1. CheckCounter
    BY <1>3 DEF SemanticsNext, CheckModule, CheckReturned, CheckNothing, CheckLiteral, CheckSwitch,
         CheckBody, CheckFor, CheckArray, CheckOperands, CheckBinary, CheckUnary, CheckAssign,
         CheckSides, CheckUse, CheckAt, CheckStep
  <2>2. ~CounterAssigned
    BY <2>1 DEF CheckCounter, ReportIf, Report
  <2>3. Node(Work.node).tag = "FOR" /\ CounterStays(Work.node)
    BY <1>1, <1>3, <2>2 DEF Proper, CounterAssigned, CounterStays, Here
  <2> QED
    BY <2>3 DEF Obeys, Statements, NodeFits
<1>4. CASE Work.do = "returned"
  <2>1. CheckReturned
    BY <1>4 DEF SemanticsNext, CheckModule, CheckCounter, CheckNothing, CheckLiteral, CheckSwitch,
         CheckBody, CheckFor, CheckArray, CheckOperands, CheckBinary, CheckUnary, CheckAssign,
         CheckSides, CheckUse, CheckAt, CheckStep
  <2>2. ResultsSet(Work.node)
    BY <2>1 DEF CheckReturned, ReportIf, Report, ResultsSet, Here
  <2>3. Node(Work.node).tag = "MODULE"
    BY <1>1, <1>4 DEF Proper
  <2> QED
    BY <2>2, <2>3 DEF Obeys, Statements, NodeFits
<1> QED
  BY <1>2, <1>3, <1>4 DEF Postponed

LEMMA FirstLooks ==
  ASSUME SecondInv, Tasked, SemanticsNext, ~BeginSemantics, errors' = {}, Work.do = "check",
         NEW items, Orders(items)
  PROVE  Obeys(Work.node) \/ Work.node \in Asked(items, Postponed)
<1>1. CASE Node(Work.node).tag = "SWITCH"
  <2>1. CheckSwitch
    BY <1>1 DEF SemanticsNext, CheckModule, CheckReturned, CheckNothing, CheckLiteral,
         CheckBody, CheckFor, CheckCounter, CheckArray, CheckOperands, CheckBinary, CheckUnary,
         CheckSides, CheckAssign, CheckUse, CheckAt, CheckStep, Here
  <2> QED
    BY <1>1, <2>1, SwitchObeys DEF Obeys, Statements, NodeFits
<1>2. CASE Node(Work.node).tag = "USE"
  <2>1. CheckUse
    BY <1>2 DEF SemanticsNext, CheckModule, CheckReturned, CheckNothing, CheckLiteral, CheckSwitch,
         CheckBody, CheckFor, CheckCounter, CheckArray, CheckOperands, CheckBinary, CheckUnary,
         CheckSides, CheckAssign, CheckAt, CheckStep, Here
  <2> QED
    BY <1>2, <2>1, UseObeys DEF Obeys, Statements, NodeFits
<1>3. CASE Node(Work.node).tag \in {"ASSIGN", "FOR", "MODULE"}
  <2>1. PICK k \in DOMAIN items : items[k].node = Work.node /\ Answers(items[k].do)
    BY <1>3 DEF Orders
  <2>2. Node(Work.node).tag \notin {"BINARY", "UNARY"}
    BY <1>3
  <2> PICK do : do = items[k].do
    OBVIOUS
  <2>3. Answers(do)
    BY <2>1
  <2>4. do \in Postponed
    BY <1>3, <2>2, <2>3 DEF Answers, Postponed
  <2> QED
    BY <2>1, <2>4 DEF Asked
<1>4. CASE Node(Work.node).tag \notin Statements
  BY <1>4 DEF Obeys
<1> QED
  BY <1>1, <1>2, <1>3, <1>4 DEF Statements

(* The second walk spreads over the nodes it is asked to check.            *)
LEMMA SecondSpreads ==
  ASSUME SecondInv, SemanticsNext, ~BeginSemantics, errors' = {},
         NEW CONSTANT V, Spread(V, Pending({"check"})), NEW CONSTANT h, h = Work.node
  PROVE  /\ Work.do = "check" => Spread(V \cup {h}, Pending({"check"}))'
         /\ Work.do # "check" => Spread(V, Pending({"check"}))'
<1>1. todo # << >> /\ prog' = prog
  BY SecondAssigns
<1>2. PICK items : Assigns(items)
  BY SecondAssigns
<1>3. Replaces(todo', todo, items) /\ Work = todo[1] /\ 1 \in DOMAIN todo
  BY <1>1, <1>2, AgendaReplaced DEF SecondInv, Assigns
<1>4. PICK P : P = Pending({"check"})
  OBVIOUS
<1>5. PICK Q : Q = Pending({"check"})'
  OBVIOUS
<1>6. /\ P \subseteq Q \cup {h} /\ (Work.do \notin {"check"} => P \subseteq Q)
      /\ Asked(items, {"check"}) \subseteq Q
  BY <1>3, <1>4, <1>5, PendingStep
<1>7. CASE Work.do = "check"
  <2>1. h \in AllNodes /\ Parts(h) \subseteq Q
    BY <1>2, <1>3, <1>6, <1>7, InsideFacts DEF SecondInv, Assigns
  <2>2. Spread(V \cup {h}, Q)
    BY <1>4, <1>6, <2>1, SpreadStep
  <2>3. Spread(V \cup {h}, Q)'
    BY <1>1, <2>2, SpreadKept
  <2> QED
    BY <1>5, <1>7, <2>3
<1>8. CASE Work.do # "check"
  <2>1. Spread(V, Q)
    BY <1>4, <1>6, <1>8, SpreadMore
  <2>2. Spread(V, Q)'
    BY <1>1, <2>1, SpreadKept
  <2> QED
    BY <1>5, <1>8, <2>2
<1> QED
  BY <1>7, <1>8

LEMMA FittingInductive ==
  ASSUME SecondInv, IndexedAreArrays, Typing, SemanticsNext, ~BeginSemantics, errors' = {}
  PROVE  Fitting'
<1>1. PICK V : Spread(V, Pending({"check"})) /\ Past(V)
  BY DEF Typing, Fitting
<1>2. PICK h : h = Work.node
  OBVIOUS
<1>3. /\ Work.do = "check" => Spread(V \cup {h}, Pending({"check"}))'
      /\ Work.do # "check" => Spread(V, Pending({"check"}))'
  BY <1>1, <1>2, SecondSpreads
<1>4. Typed /\ Tasked /\ h \in AllNodes /\ todo # << >> /\ V \subseteq AllNodes
  BY <1>1, <1>2, SecondWork, SecondAssigns DEF Typing, Spread
<1>5. PICK items : Orders(items)
  BY <1>4, SecondOrders
<1>6. Replaces(todo', todo, items) /\ Work = todo[1]
  BY <1>4, <1>5, AgendaReplaced DEF SecondInv, Orders
<1>7. PICK P : P = Pending(Postponed)
  OBVIOUS
<1>8. PICK Q : Q = Pending(Postponed)'
  OBVIOUS
<1>9. /\ P \subseteq Q \cup {h} /\ (Work.do \notin Postponed => P \subseteq Q)
      /\ Asked(items, Postponed) \subseteq Q
  BY <1>2, <1>6, <1>7, <1>8, PendingStep
<1>10. ASSUME Work.do = "check" PROVE h \in Q \/ Obeys(h)'
  <2>1. Obeys(h) \/ h \in Asked(items, Postponed)
    BY <1>2, <1>4, <1>5, <1>10, FirstLooks
  <2> QED
    BY <1>4, <1>9, <2>1, ObeysStays
<1>11. ASSUME NEW CONSTANT n, n \in V PROVE n \in Q \/ Obeys(n)'
  <2>1. n \in P \/ Obeys(n)
    BY <1>1, <1>7, <1>11 DEF Past
  <2>2. CASE Obeys(n)
    BY <1>4, <1>11, <2>2, ObeysStays
  <2>3. CASE n \in P /\ (n # h \/ Work.do \notin Postponed)
    BY <1>9, <2>3
  <2>4. CASE n = h /\ Work.do \in Postponed
    <3>1. Obeys(n)
      BY <1>2, <1>4, <2>4, LastLooks
    <3> QED
      BY <1>4, <2>4, <3>1, ObeysStays
  <2> QED
    BY <2>1, <2>2, <2>3, <2>4
<1>12. Past(V)' /\ (Work.do = "check" => Past(V \cup {h})')
  <2>1. ASSUME NEW CONSTANT W, \A n \in W : n \in Q \/ Obeys(n)' PROVE Past(W)'
    BY <1>8, <2>1 DEF Past
  <2>2. Past(V)'
    BY <1>11, <2>1
  <2>3. ASSUME Work.do = "check" PROVE Past(V \cup {h})'
    <3>1. \A n \in V \cup {h} : n \in Q \/ Obeys(n)'
      BY <1>10, <1>11, <2>3
    <3> QED
      BY <2>1, <3>1
  <2> QED
    BY <2>2, <2>3
<1> QED
  BY <1>3, <1>12 DEF Fitting

LEMMA TypingInductive ==
  ASSUME SecondInv, IndexedAreArrays, Typing, SemanticsNext, ~BeginSemantics, errors' = {}
  PROVE  Typing'
<1>1. Typed /\ Tasked
  BY DEF Typing
<1>2. Typed' /\ Tasked'
  BY <1>1, TypesInductive, TaskedInductive
<1> QED
  BY <1>2, FittingInductive DEF Typing

(* The nodes as they come from the parser.                                 *)
Born == DOMAIN result = AllNodes /\ \A n \in AllNodes : result[n] = BornWith(Node(n).tag)

LEMMA TypingBegins ==
  ASSUME ProgramInv, Born, BeginSemantics
  PROVE  Typing'
<1>1. prog' = prog /\ result' = result
  BY DEF BeginSemantics
<1> DEFINE nodes == <<prog.driver>> \o prog.modules
<1>2. nodes \in Seq(AllNodes) /\ Tops = {nodes[k] : k \in DOMAIN nodes} /\ todo' = Checks(nodes)
  BY DriverFirst DEF BeginSemantics
<1> HIDE DEF nodes
<1>3. /\ DOMAIN todo' = DOMAIN nodes
      /\ \A k \in DOMAIN nodes : todo'[k].do = "check" /\ todo'[k].node = nodes[k]
      /\ Asked(todo', {"check"}) = {nodes[k] : k \in DOMAIN nodes}
  BY <1>2, TasksAsk
<1>4. AllNodes' = AllNodes /\ Tops' = Tops /\ \A n : Node(n)' = Node(n)
  BY <1>1 DEF AllNodes, Tops, Node
<1>5. Typed'
  <2>1. ASSUME NEW n \in AllNodes PROVE ResultFits(n)'
    <3>1. result'[n] = BornWith(Node(n).tag)
      BY <1>1 DEF Born
    <3>2. /\ Node(n).tag = "INT"  => result'[n] = Integer
          /\ Node(n).tag = "BOOL" => result'[n] = Boolean
          /\ Node(n).tag \notin {"INT", "BOOL"} => result'[n] = Undefined
      BY <3>1 DEF BornWith
    <3> QED
      BY <1>4, <3>2 DEF ResultFits
  <2> QED
    BY <1>1, <1>4, <2>1 DEF Typed, Born
<1>6. Tasked'
  <2>1. ASSUME NEW i \in DOMAIN todo' PROVE Proper(todo[i])' /\ InOrder(i)'
    <3>1. todo'[i].do = "check" /\ todo'[i].node \in AllNodes
      BY <1>2, <1>3
    <3> QED
      BY <1>4, <3>1 DEF Proper, InOrder, NeedsTypes
  <2> QED
    BY <2>1 DEF Tasked
<1>7. Fitting'
  <2>1. Pending({"check"})' = Tops
    BY <1>2, <1>3 DEF Pending, Asked
  <2>2. Spread({}, Pending({"check"}))' /\ Past({})'
    BY <1>4, <2>1 DEF Spread, Past
  <2> QED
    BY <2>2 DEF Fitting
<1> QED
  BY <1>5, <1>6, <1>7 DEF Typing

(* Every statement is reached through the bodies around it.                *)
LEMMA UnderBranches ==
  ASSUME ProgramInv, NEW m \in AllNodes, NEW n \in KidsOf(Node(m)), Node(n).tag \notin Expressions
  PROVE  Node(m).tag \in Branching /\ n \in Parts(m)
<1>1. Node(m).tag \in Branching
  BY SidesFacts
<1> PICK kids : kids = Node(m).kids
  OBVIOUS
<1>2. kids \in Seq(AllNodes)
  BY KidsFacts
<1>3. PICK i \in DOMAIN kids : n = kids[i]
  BY DEF KidsOf
<1>4. \E j \in DOMAIN Body(Node(m)) : Body(Node(m))[j] = n
  <2>1. CASE Node(m).tag = "WHILE"
    <3>1. kids # << >> /\ Node(kids[1]).tag \in Expressions
      BY <2>1 DEF ProgramInv, WellFormed, NodeWellFormed, Node, AllNodes, Predicate
    <3> PICK rest : rest = Tail(kids)
      OBVIOUS
    <3>2. /\ rest \in Seq(AllNodes) /\ Len(rest) = Len(kids) - 1
          /\ \A j \in 1 .. Len(rest) : rest[j] = kids[j + 1]
      BY <1>2, <3>1, HeadTailProperties
    <3>3. i # 1 /\ i \in 1 .. Len(kids) /\ Len(kids) \in Nat
      BY <1>2, <1>3, <3>1
    <3>4. i - 1 \in 1 .. Len(rest) /\ DOMAIN rest = 1 .. Len(rest)
      BY <3>2, <3>3
    <3>5. rest[i - 1] = kids[(i - 1) + 1] /\ (i - 1) + 1 = i
      BY <3>2, <3>3, <3>4
    <3> QED
      BY <1>3, <2>1, <3>4, <3>5 DEF Body
  <2>2. CASE Node(m).tag # "WHILE"
    BY <1>3, <2>2 DEF Body
  <2> QED
    BY <2>1, <2>2
<1> QED
  BY <1>1, <1>4 DEF Parts, Sections

LEMMA AllReached ==
  ASSUME ProgramInv, NEW V, Spread(V, {}), NEW n \in AllNodes, Node(n).tag \notin Expressions
  PROVE  n \in V
<1> DEFINE Missed == {m \in AllNodes : Node(m).tag \notin Expressions /\ m \notin V}
<1> SUFFICES ASSUME Missed # {} PROVE FALSE
  OBVIOUS
<1>1. AllNodes \subseteq Nat
  BY DEF ProgramInv, WellFormed, IsList, AllNodes
<1>2. Missed \in SUBSET Nat
  BY <1>1
<1>3. \A m \in Missed : m \in AllNodes /\ Node(m).tag \notin Expressions /\ m \notin V
  OBVIOUS
<1>4. \A m \in AllNodes : Node(m).tag \notin Expressions /\ m \notin V => m \in Missed
  OBVIOUS
<1> HIDE DEF Missed
<1>5. PICK b \in Missed : \A m \in Missed : b <= m
  BY <1>2, LeastNumber
<1>6. b \notin Heads(prog)
  <2>1. Tops \subseteq V
    BY DEF Spread
  <2> QED
    BY <1>3, <1>5, <2>1 DEF Heads, Tops
<1>7. PICK a \in AllNodes : a < b /\ b \in KidsOf(Node(a))
  BY <1>3, <1>5, <1>6 DEF ProgramInv, WellFormed, AllNodes, Node, Hangs
<1>8. Node(a).tag \in Branching /\ b \in Parts(a)
  BY <1>3, <1>5, <1>7, UnderBranches
<1>9. a \in V
  <2>1. Node(a).tag \notin Expressions
    BY <1>8 DEF Branching, Expressions
  <2>2. a \notin Missed
    BY <1>1, <1>2, <1>5, <1>7
  <2> QED
    BY <1>4, <1>7, <2>1, <2>2
<1>10. b \in V
  BY <1>8, <1>9 DEF Spread
<1> QED
  BY <1>3, <1>5, <1>10

(* When nothing is left to check, all the rules are kept.                  *)
LEMMA AllFit ==
  ASSUME SecondInv, Typing, todo = << >>, NEW n \in AllNodes
  PROVE  NodeFits(n)
<1>1. DOMAIN todo = {} /\ ProgramInv
  BY EmptyList DEF SecondInv, Grounds
<1>2. Pending({"check"}) = {} /\ Pending(Postponed) = {}
  BY <1>1 DEF Pending
<1>3. PICK V : Spread(V, {}) /\ Past(V)
  BY <1>2 DEF Typing, Fitting
<1>4. CASE Node(n).tag \in Statements
  <2>1. n \in V
    <3>1. Node(n).tag \notin Expressions
      BY <1>4 DEF Statements, Expressions
    <3> QED
      BY <1>1, <1>3, <3>1, AllReached
  <2>2. Obeys(n)
    BY <1>2, <1>3, <2>1 DEF Past
  <2> QED
    BY <1>4, <2>2 DEF Obeys
<1>5. CASE Node(n).tag = "BINARY"
  <2>1. ResultFits(n)
    BY DEF Typing, Typed
  <2> QED
    BY <1>5, <2>1 DEF ResultFits, NodeFits
<1>6. CASE Node(n).tag \notin Statements \cup {"BINARY"}
  BY <1>6 DEF NodeFits, Statements
<1> QED
  BY <1>4, <1>5, <1>6

(* What is known of types from the tree to the acceptance of the program.  *)
AllJudged == \A n \in AllNodes : NodeFits(n)
CheckedInv ==
  /\ AssemblyInv
  /\ phase = "scopes" => Born
  /\ phase = "semantics" /\ errors = {} /\ IndexedAreArrays => Typing
  /\ phase \in {"accepted", "generate"} /\ IndexedAreArrays => AllJudged

LEMMA IndexedKept ==
  ASSUME prog' = prog, note' = note
  PROVE  IndexedAreArrays' = IndexedAreArrays
<1>1. AllNodes' = AllNodes /\ \A n : Node(n)' = Node(n)
  BY DEF AllNodes, Node
<1> QED
  BY <1>1 DEF IndexedAreArrays

LEMMA FitsKept ==
  ASSUME prog' = prog, note' = note, table' = table, owned' = owned, result' = result, NEW CONSTANT n
  PROVE  NodeFits(n)' = NodeFits(n)
<1>1. Node(n)' = Node(n) /\ \A m : Node(m)' = Node(m)
  BY DEF Node
<1>2. LeftType(n)' = LeftType(n) /\ RightType(n)' = RightType(n)
  BY <1>1 DEF LeftType, RightType, TypeOf
<1>3. AssignmentFits(n)' = AssignmentFits(n) /\ OperationFits(n)' = OperationFits(n)
  BY <1>1, <1>2 DEF AssignmentFits, OperationFits
<1>4. SwitchFits(n)' = SwitchFits(n) /\ CallFits(n)' = CallFits(n)
  BY <1>1 DEF SwitchFits, CallFits, GlobalTable
<1>5. CounterStays(n)' = CounterStays(n)
  BY <1>1 DEF CounterStays
<1>6. ScopeOf(n)' = ScopeOf(n) /\ \A t, name : Lookup(t, name)' = Lookup(t, name)
  BY DEF ScopeOf, Lookup, Holder, HoldersOf
<1>7. ResultsSet(n)' = ResultsSet(n)
  BY <1>1, <1>6 DEF ResultsSet
<1> QED
  BY <1>1, <1>3, <1>4, <1>5, <1>7 DEF NodeFits

LEMMA JudgedKept ==
  ASSUME prog' = prog, note' = note, table' = table, owned' = owned, result' = result
  PROVE  AllJudged' = AllJudged
<1>1. AllNodes' = AllNodes
  BY DEF AllNodes
<1>2. \A n : NodeFits(n)' = NodeFits(n)
  BY FitsKept
<1> QED
  BY <1>1, <1>2 DEF AllJudged

LEMMA BornKept ==
  ASSUME prog' = prog, result' = result
  PROVE  Born' = Born
BY DEF Born, AllNodes, Node

LEMMA TypingKept ==
  ASSUME UNCHANGED vars, Typing
  PROVE  Typing'
<1>1. prog' = prog /\ table' = table /\ note' = note /\ owned' = owned /\ todo' = todo /\ result' = result
  BY DEF vars, compilerVars, treeVars
<1>2. AllNodes' = AllNodes /\ \A n : Node(n)' = Node(n)
  BY <1>1 DEF AllNodes, Node
<1>3. \A n : TypeOf(n)' = TypeOf(n)
  BY <1>1, <1>2 DEF TypeOf
<1>4. \A n : LeftType(n)' = LeftType(n) /\ RightType(n)' = RightType(n)
  BY <1>2, <1>3 DEF LeftType, RightType
<1>5. Typed'
  <2>1. ASSUME NEW n PROVE ResultFits(n)' = ResultFits(n)
    BY <1>1, <1>2, <1>4 DEF ResultFits, OperationFits
  <2> QED
    BY <1>1, <1>2, <2>1 DEF Typing, Typed
<1>6. Tasked'
  <2>1. ASSUME NEW i \in DOMAIN todo PROVE Proper(todo[i])' /\ InOrder(i)'
    <3>1. Proper(todo[i]) /\ InOrder(i)
      BY DEF Typing, Tasked
    <3>2. Proper(todo[i])'
      BY <1>1, <1>2, <3>1 DEF Proper
    <3>3. InOrder(i)'
      BY <1>1, <1>2, <1>3, <3>1 DEF InOrder, Comes
    <3> QED
      BY <3>2, <3>3
  <2> QED
    BY <1>1, <2>1 DEF Tasked
<1>7. Fitting'
  <2>1. PICK V : Spread(V, Pending({"check"})) /\ Past(V)
    BY DEF Typing, Fitting
  <2> PICK P : P = Pending({"check"})
    OBVIOUS
  <2>2. Spread(V, P)' /\ Pending({"check"})' = P /\ Pending(Postponed)' = Pending(Postponed)
    BY <1>1, <2>1, SpreadKept, PendingKept
  <2>3. Spread(V, Pending({"check"}))'
    BY <2>2 DEF Spread
  <2>4. \A n : NodeFits(n)' = NodeFits(n)
    BY <1>1, FitsKept
  <2>5. Past(V)'
    BY <1>2, <2>1, <2>2, <2>4 DEF Past, Obeys
  <2> QED
    BY <2>3, <2>5 DEF Fitting
<1> QED
  BY <1>5, <1>6, <1>7 DEF Typing

LEMMA CheckedInductive ==
  ASSUME CheckedInv, [Next]_vars
  PROVE  CheckedInv'
<1>1. AssemblyInv'
  BY AssemblyInductive DEF CheckedInv
<1>2. CASE ScopesNext /\ UNCHANGED <<result, codeVars, machineVars>>
  <2>1. phase = "scopes" /\ phase' = "scopes" /\ result' = result
    BY <1>2, ScopesStep
  <2>2. prog' = prog
    BY <1>2, ScopesBusy
  <2> QED
    BY <1>1, <2>1, <2>2, BornKept DEF CheckedInv
<1>3. CASE SemanticsNext
  <2>1. phase' = "semantics" /\ errors \subseteq errors' /\ prog' = prog
    BY <1>3, SemanticsStep DEF Storage
  <2>2. ASSUME BeginSemantics PROVE Typing'
    <3>1. phase = "scopes"
      BY <2>2 DEF BeginSemantics
    <3>2. Born /\ ProgramInv
      BY <3>1 DEF CheckedInv, AssemblyInv, CompilerInv, IInv
    <3> QED
      BY <2>2, <3>2, TypingBegins
  <2>3. ASSUME ~BeginSemantics, errors' = {}, IndexedAreArrays' PROVE Typing'
    <3>1. phase = "semantics"
      BY <1>3, <2>3 DEF SemanticsNext, CheckModule, CheckReturned, CheckNothing, CheckLiteral,
         CheckSwitch, CheckBody, CheckFor, CheckCounter, CheckArray, CheckOperands, CheckBinary,
         CheckUnary, CheckSides, CheckAssign, CheckUse, CheckAt, CheckStep, Checking
    <3>2. errors = {}
      BY <2>1, <2>3
    <3>3. SecondInv
      BY <3>1, <3>2 DEF CheckedInv, AssemblyInv
    <3>4. note' = note
      BY <1>3, <2>3, <3>3, SecondAssigns
    <3>5. IndexedAreArrays
      BY <2>1, <2>3, <3>4, IndexedKept
    <3>6. Typing
      BY <3>1, <3>2, <3>5 DEF CheckedInv
    <3> QED
      BY <1>3, <2>3, <3>3, <3>5, <3>6, TypingInductive
  <2> QED
    BY <1>1, <2>1, <2>2, <2>3 DEF CheckedInv
<1>4. CASE CodeGenNext
  <2>1. CASE BeginGenerate
    <3>1. /\ phase = "semantics" /\ todo = << >> /\ phase' \in {"generate", "accepted", "rejected"}
          /\ (phase' \in {"accepted", "generate"} => errors = {})
          /\ prog' = prog /\ note' = note /\ table' = table /\ owned' = owned /\ result' = result
      BY <2>1 DEF BeginGenerate
    <3>2. ASSUME phase' \in {"accepted", "generate"}, IndexedAreArrays' PROVE AllJudged'
      <4>1. IndexedAreArrays
        BY <3>1, <3>2, IndexedKept
      <4>2. SecondInv /\ Typing
        BY <3>1, <3>2, <4>1 DEF CheckedInv, AssemblyInv
      <4>3. AllJudged
        BY <3>1, <4>2, AllFit DEF AllJudged
      <4> QED
        BY <3>1, <4>3, JudgedKept
    <3> QED
      BY <1>1, <3>1, <3>2 DEF CheckedInv
  <2>2. CASE ~BeginGenerate
    <3>1. phase = "generate" /\ phase' = "generate" /\ UNCHANGED treeVars
      BY <1>4, <2>2, GenerateStep
    <3>2. prog' = prog /\ note' = note /\ table' = table /\ owned' = owned /\ result' = result
      BY <3>1 DEF treeVars
    <3>3. AllJudged' = AllJudged /\ IndexedAreArrays' = IndexedAreArrays
      BY <3>2, JudgedKept, IndexedKept
    <3> QED
      BY <1>1, <3>1, <3>3 DEF CheckedInv
  <2> QED
    BY <2>1, <2>2
<1>5. CASE MachineNext
  <2>1. phase' \in {"run", "done", "wild"}
    <3>1. CASE BeginRun
      BY <3>1 DEF BeginRun
    <3>2. CASE ~BeginRun
      BY <1>5, <3>2, RunKeeps
    <3> QED
      BY <3>1, <3>2
  <2> QED
    BY <1>1, <2>1 DEF CheckedInv
<1>6. CASE UNCHANGED vars
  <2>1. /\ phase' = phase /\ errors' = errors /\ prog' = prog /\ note' = note /\ table' = table
        /\ owned' = owned /\ result' = result
    BY <1>6 DEF vars, compilerVars, treeVars
  <2>2. Born' = Born /\ AllJudged' = AllJudged /\ IndexedAreArrays' = IndexedAreArrays
    BY <2>1, BornKept, JudgedKept, IndexedKept
  <2>3. Typing => Typing'
    BY <1>6, TypingKept
  <2> QED
    BY <1>1, <2>1, <2>2, <2>3 DEF CheckedInv
<1> QED
  BY <1>2, <1>3, <1>4, <1>5, <1>6 DEF Next, Ended

THEOREM CheckedInvariant == Spec => []CheckedInv
<1>1. Init => CheckedInv
  BY AssemblyInitially DEF Init, ScopesInit, CheckedInv, Born, AllNodes, Node
<1> QED
  BY <1>1, CheckedInductive, PTL DEF Spec

(* Whatever the program, when perform_semantic_analysis() has let it pass, *)
(* every assignment, operation, switch, loop, module and call of it keeps  *)
(* the rules of the language, judged by types that were there: nothing has *)
(* been passed over or put off for good, and no operation went wrong       *)
(* without a report.  This is for programs that index arrays only: of any  *)
(* other name that has an index the code takes for the element type        *)
(* whatever is in its place, and an Error that comes of that is no report. *)
THEOREM AcceptedWasChecked == Spec => [](IndexedAreArrays => AcceptedIsChecked)
<1>1. CheckedInv => (IndexedAreArrays => AcceptedIsChecked)
  BY DEF CheckedInv, AllJudged, AcceptedIsChecked
<1> QED
  BY <1>1, CheckedInvariant, PTL
=============================================================================
