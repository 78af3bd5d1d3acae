----------------------------- MODULE LL1Proofs -----------------------------
(***************************************************************************)
(* What the recursive definitions of LL1 compute, for every grammar: the   *)
(* least sets closed under a rule.  They take a number of steps equal to   *)
(* the number of nonterminals, and that is enough.                         *)
(***************************************************************************)
EXTENDS LL1, FiniteSetTheorems, FunctionTheorems, WellFoundedInduction, TLAPS

(* A nonempty set of naturals has a least element.                         *)
LEMMA LeastNatural ==
  ASSUME NEW S \in SUBSET Nat, S # {}
  PROVE  \E x \in S : \A y \in S : x <= y
<1> DEFINE less == { ss \in Nat \X Nat : ss[1] < ss[2] }
<1>1. IsWellFoundedOn(less, Nat)
  BY NatLessThanWellFounded DEF OpToRel
<1> HIDE DEF less
<1>2. PICK x \in S : \A y \in S : <<y, x>> \notin less
  BY <1>1, WFMin
<1>3. ASSUME NEW y \in S PROVE x <= y
  <2>1. x \in Nat /\ y \in Nat /\ <<y, x>> \in Nat \X Nat /\ <<y, x>> \notin less
    BY <1>2
  <2>2. ~(<<y, x>>[1] < <<y, x>>[2])
    BY <2>1 DEF less
  <2> QED BY <2>1, <2>2
<1> QED BY <1>3

-----------------------------------------------------------------------------
(* Chains: f[0] is S, and each f[k] the step of the one before.            *)
Chain(f, step, S, n) == f = [k \in 0 .. n |-> IF k = 0 THEN S ELSE step[f[k - 1]]]

LEMMA ChainExists ==
  ASSUME NEW U, NEW step \in [SUBSET U -> SUBSET U], NEW S \in SUBSET U, NEW n \in Nat
  PROVE  \E f : Chain(f, step, S, n)
<1> DEFINE Without == { m \in Nat : \A f : ~Chain(f, step, S, m) }
<1> SUFFICES ASSUME Without # {} PROVE FALSE
  OBVIOUS
<1>1. PICK m \in Without : \A y \in Without : m <= y
  BY LeastNatural
<1>2. CASE m = 0
  <2>1. Chain([k \in 0 .. m |-> S], step, S, m)
    BY <1>2 DEF Chain
  <2> QED BY <2>1
<1>3. CASE m # 0
  <2>1. m \in Nat /\ m - 1 \in Nat /\ ~(m <= m - 1)
    BY <1>3
  <2>2. PICK f : Chain(f, step, S, m - 1)
    BY <1>1, <2>1
  <2> DEFINE h == [k \in 0 .. m |-> IF k = m THEN step[f[m - 1]] ELSE f[k]]
  <2>3. ASSUME NEW k \in 0 .. m PROVE h[k] = IF k = 0 THEN S ELSE step[h[k - 1]]
    <3>1. CASE k = m
      <4>1. k # 0 /\ m - 1 \in 0 .. m /\ m - 1 # m
        BY <2>1, <3>1
      <4>2. h[m - 1] = f[m - 1]
        BY <4>1
      <4> QED BY <3>1, <4>1, <4>2
    <3>2. CASE k \in 0 .. m - 1 /\ k # 0
      <4>1. k # m /\ k - 1 \in 0 .. m /\ k - 1 # m
        BY <2>1, <3>2
      <4>2. f[k] = step[f[k - 1]]
        BY <2>2, <3>2 DEF Chain
      <4> QED BY <3>2, <4>1, <4>2
    <3>3. CASE k = 0
      <4>1. k # m /\ f[0] = S
        BY <2>1, <2>2, <3>3 DEF Chain
      <4> QED BY <3>3, <4>1
    <3> QED BY <2>1, <3>1, <3>2, <3>3
  <2>4. h = [k \in 0 .. m |-> IF k = 0 THEN S ELSE step[h[k - 1]]]
    <3>1. h = [k \in 0 .. m |-> h[k]]
      OBVIOUS
    <3> HIDE DEF h
    <3> QED BY <2>3, <3>1
  <2> HIDE DEF h
  <2>5. Chain(h, step, S, m)
    BY <2>4 DEF Chain
  <2> QED BY <2>5
<1> QED BY <1>2, <1>3

LEMMA ChainType ==
  ASSUME NEW U, NEW step \in [SUBSET U -> SUBSET U], NEW S \in SUBSET U, NEW n \in Nat,
         NEW f, Chain(f, step, S, n)
  PROVE  /\ f[0] = S
         /\ \A k \in 1 .. n : f[k] = step[f[k - 1]]
         /\ \A k \in 0 .. n : f[k] \in SUBSET U
<1>1. f[0] = S /\ \A k \in 0 .. n : k # 0 => f[k] = step[f[k - 1]]
  BY DEF Chain
<1> DEFINE Out == { k \in 0 .. n : f[k] \notin SUBSET U }
<1>0. Out \in SUBSET Nat /\ \A k : k \in Out <=> k \in 0 .. n /\ f[k] \notin SUBSET U
  OBVIOUS
<1> HIDE DEF Out
<1>2. ASSUME Out # {} PROVE FALSE
  <2>1. PICK k \in Out : \A y \in Out : k <= y
    BY <1>0, <1>2, LeastNatural
  <2>2. k # 0 /\ k \in 1 .. n
    BY <1>0, <1>1
  <2>3. k - 1 \in 0 .. n /\ k - 1 \notin Out
    BY <2>1, <2>2
  <2>4. f[k - 1] \in SUBSET U
    BY <1>0, <2>3
  <2> QED BY <1>0, <1>1, <2>2, <2>4
<1> QED BY <1>0, <1>1, <1>2

Keeps(step, U, T)    == \A Y \in SUBSET U : Y \subseteq T => step[Y] \subseteq T
Grows(step, U)       == \A Y \in SUBSET U : Y \subseteq step[Y]
Settles(step, U, H)  == \A Y \in SUBSET U : Y \cap H = step[Y] \cap H => step[step[Y]] = step[Y]
Fills(step, U, H)    == \A Y \in SUBSET U : H \subseteq Y => step[Y] = Y
Lasts(step, U, S, H, n) ==
  \/ Cardinality(S \cap H) + n > Cardinality(H)
  \/ Cardinality(S \cap H) + n >= Cardinality(H) /\ Fills(step, U, H)

(* What holds the start of a chain and is closed under its step holds all. *)
LEMMA ChainLeast ==
  ASSUME NEW U, NEW step \in [SUBSET U -> SUBSET U], NEW S \in SUBSET U, NEW n \in Nat,
         NEW f, Chain(f, step, S, n), NEW T, S \subseteq T, Keeps(step, U, T)
  PROVE  f[n] \subseteq T
<1> DEFINE Out == { k \in 0 .. n : ~(f[k] \subseteq T) }
<1>0. Out \in SUBSET Nat /\ \A k : k \in Out <=> k \in 0 .. n /\ ~(f[k] \subseteq T)
  OBVIOUS
<1> HIDE DEF Out
<1>1. /\ f[0] = S
      /\ \A k \in 1 .. n : f[k] = step[f[k - 1]]
      /\ \A k \in 0 .. n : f[k] \in SUBSET U
  BY ChainType
<1>2. ASSUME Out # {} PROVE FALSE
  <2>1. PICK k \in Out : \A y \in Out : k <= y
    BY <1>0, <1>2, LeastNatural
  <2>2. k \in 1 .. n
    BY <1>0, <1>1
  <2>3. k - 1 \in 0 .. n /\ k - 1 \notin Out
    BY <2>1, <2>2
  <2>4. f[k - 1] \subseteq T /\ f[k - 1] \in SUBSET U
    BY <1>0, <1>1, <2>3
  <2>5. f[k] \subseteq T
    BY <1>1, <2>2, <2>4 DEF Keeps
  <2> QED BY <1>0, <2>5
<1>3. n \in 0 .. n
  OBVIOUS
<1> QED BY <1>0, <1>2, <1>3

(* Sets that grow at every step grow by as many elements as there are      *)
(* steps.                                                                  *)
LEMMA Counting ==
  ASSUME NEW H, IsFiniteSet(H), NEW n \in Nat, NEW g, \A k \in 0 .. n : g[k] \in SUBSET H,
         \A k \in 1 .. n : g[k - 1] \subseteq g[k] /\ g[k - 1] # g[k]
  PROVE  Cardinality(g[n]) >= Cardinality(g[0]) + n
<1>1. \A k \in 0 .. n : IsFiniteSet(g[k]) /\ Cardinality(g[k]) \in Nat
  BY FS_Subset, FS_CardinalityType
<1> DEFINE Small == { k \in 0 .. n : ~(Cardinality(g[k]) >= Cardinality(g[0]) + k) }
<1>0. Small \in SUBSET Nat /\ \A k : k \in Small <=>
        k \in 0 .. n /\ ~(Cardinality(g[k]) >= Cardinality(g[0]) + k)
  OBVIOUS
<1> HIDE DEF Small
<1>2. ASSUME Small # {} PROVE FALSE
  <2>1. PICK k \in Small : \A y \in Small : k <= y
    BY <1>0, <1>2, LeastNatural
  <2>2. 0 \in 0 .. n /\ Cardinality(g[0]) \in Nat
    BY <1>1
  <2>3. k \in 1 .. n
    BY <1>0, <2>2
  <2>4. k - 1 \in 0 .. n /\ k - 1 \notin Small
    BY <2>1, <2>3
  <2>5. Cardinality(g[k - 1]) >= Cardinality(g[0]) + (k - 1)
    BY <1>0, <2>4
  <2>6. Cardinality(g[k - 1]) <= Cardinality(g[k]) /\ Cardinality(g[k]) # Cardinality(g[k - 1])
    BY <1>1, <2>3, FS_Subset
  <2>7. Cardinality(g[k]) \in Nat /\ Cardinality(g[k - 1]) \in Nat /\ k \in Nat
    BY <1>1, <2>3, <2>4
  <2>8. Cardinality(g[k]) >= Cardinality(g[0]) + k
    BY <2>2, <2>5, <2>6, <2>7
  <2> QED BY <1>0, <2>8
<1>3. n \in 0 .. n
  OBVIOUS
<1> QED BY <1>0, <1>2, <1>3

(* A chain whose step depends only on the elements of H stops growing in   *)
(* as many steps as there are elements of H that it does not start with.   *)
LEMMA ChainCloses ==
  ASSUME NEW U, NEW step \in [SUBSET U -> SUBSET U], NEW S \in SUBSET U, NEW n \in Nat,
         NEW f, Chain(f, step, S, n), NEW H, IsFiniteSet(H),
         Grows(step, U), Settles(step, U, H), Lasts(step, U, S, H, n)
  PROVE  step[f[n]] = f[n]
<1> DEFINE g == [k \in 0 .. n |-> f[k] \cap H]
<1>1. /\ f[0] = S
      /\ \A k \in 1 .. n : f[k] = step[f[k - 1]]
      /\ \A k \in 0 .. n : f[k] \in SUBSET U
  BY ChainType
<1>2. \A k \in 0 .. n : g[k] \in SUBSET H /\ g[k] = f[k] \cap H
  OBVIOUS
<1>3. \A k \in 1 .. n : k - 1 \in 0 .. n
  OBVIOUS
<1>4. \A k \in 1 .. n : f[k - 1] \subseteq f[k] /\ g[k - 1] \subseteq g[k]
  BY <1>1, <1>3 DEF Grows
<1>5. 0 \in 0 .. n /\ n \in 0 .. n
  OBVIOUS
<1> HIDE DEF g
<1>6. CASE \E k \in 1 .. n : g[k - 1] = g[k]
  <2>1. PICK k \in 1 .. n : g[k - 1] = g[k]
    BY <1>6
  <2>2. step[f[k]] = f[k]
    BY <1>1, <1>2, <1>3, <2>1 DEF Settles
  <2> DEFINE Off == { j \in k .. n : step[f[j]] # f[j] }
  <2>0. Off \in SUBSET Nat /\ \A j : j \in Off <=> j \in k .. n /\ step[f[j]] # f[j]
    OBVIOUS
  <2> HIDE DEF Off
  <2>3. ASSUME Off # {} PROVE FALSE
    <3>1. PICK j \in Off : \A y \in Off : j <= y
      BY <2>0, <2>3, LeastNatural
    <3>2. j # k /\ j \in k .. n
      BY <2>0, <2>2
    <3>3. j - 1 \in k .. n /\ j - 1 \notin Off /\ j \in 1 .. n
      BY <3>1, <3>2
    <3>4. step[f[j - 1]] = f[j - 1]
      BY <2>0, <3>3
    <3>5. f[j] = f[j - 1]
      BY <1>1, <3>3, <3>4
    <3> QED BY <2>0, <3>4, <3>5
  <2>4. n \in k .. n
    OBVIOUS
  <2> QED BY <2>0, <2>3, <2>4
<1>7. CASE \A k \in 1 .. n : g[k - 1] # g[k]
  <2>1. Cardinality(g[n]) >= Cardinality(g[0]) + n
    BY <1>2, <1>4, <1>7, Counting
  <2>2. g[0] = S \cap H /\ g[n] = f[n] \cap H
    BY <1>1, <1>2, <1>5
  <2>3. /\ IsFiniteSet(g[n]) /\ IsFiniteSet(S \cap H)
        /\ Cardinality(g[n]) \in Nat /\ Cardinality(S \cap H) \in Nat /\ Cardinality(H) \in Nat
        /\ Cardinality(g[n]) <= Cardinality(H)
        /\ Cardinality(H) = Cardinality(g[n]) => H = g[n]
    BY <1>2, <1>5, <2>2, FS_Subset, FS_CardinalityType
  <2>4. \A Y \in SUBSET U : H \subseteq Y => step[Y] = Y
    BY <2>1, <2>2, <2>3 DEF Fills, Lasts
  <2>5. H = g[n]
    BY <2>1, <2>2, <2>3 DEF Lasts
  <2> QED BY <1>1, <1>5, <2>2, <2>4, <2>5
<1> QED BY <1>6, <1>7

(* A function that follows the step as long as it stays below U is a chain.*)
LEMMA ChainFrom ==
  ASSUME NEW U, NEW step \in [SUBSET U -> SUBSET U], NEW S \in SUBSET U, NEW n \in Nat,
         NEW f, f = [k \in 0 .. n |-> f[k]], f[0] = S,
         \A k \in 1 .. n : f[k - 1] \in SUBSET U => f[k] = step[f[k - 1]]
  PROVE  Chain(f, step, S, n)
<1> DEFINE Out == { k \in 0 .. n : f[k] \notin SUBSET U }
<1>1. Out \in SUBSET Nat /\ \A k : k \in Out <=> k \in 0 .. n /\ f[k] \notin SUBSET U
  OBVIOUS
<1> HIDE DEF Out
<1>2. ASSUME Out # {} PROVE FALSE
  <2>1. PICK k \in Out : \A y \in Out : k <= y
    BY <1>1, <1>2, LeastNatural
  <2>2. k \in 0 .. n /\ k # 0
    BY <1>1
  <2>3. k - 1 \in 0 .. n /\ k - 1 \notin Out /\ k \in 1 .. n
    BY <2>1, <2>2
  <2>4. f[k - 1] \in SUBSET U
    BY <1>1, <2>3
  <2>5. f[k] = step[f[k - 1]]
    BY <2>3, <2>4
  <2> QED BY <1>1, <2>2, <2>4, <2>5
<1>3. ASSUME NEW k \in 0 .. n PROVE f[k] = IF k = 0 THEN S ELSE step[f[k - 1]]
  <2>1. CASE k = 0
    BY <2>1
  <2>2. CASE k # 0
    <3>1. k \in 1 .. n /\ k - 1 \in 0 .. n
      BY <2>2
    <3>2. f[k - 1] \in SUBSET U
      BY <1>1, <1>2, <3>1
    <3> QED BY <2>2, <3>1, <3>2
  <2> QED BY <2>1, <2>2
<1> QED BY <1>3 DEF Chain

LEMMA ChainGrows ==
  ASSUME NEW U, NEW step \in [SUBSET U -> SUBSET U], NEW S \in SUBSET U, NEW n \in Nat,
         NEW f, Chain(f, step, S, n), Grows(step, U)
  PROVE  S \subseteq f[n]
<1> DEFINE Out == { k \in 0 .. n : ~(S \subseteq f[k]) }
<1>1. Out \in SUBSET Nat /\ \A k : k \in Out <=> k \in 0 .. n /\ ~(S \subseteq f[k])
  OBVIOUS
<1> HIDE DEF Out
<1>2. /\ f[0] = S
      /\ \A k \in 1 .. n : f[k] = step[f[k - 1]]
      /\ \A k \in 0 .. n : f[k] \in SUBSET U
  BY ChainType
<1>3. ASSUME Out # {} PROVE FALSE
  <2>1. PICK k \in Out : \A y \in Out : k <= y
    BY <1>1, <1>3, LeastNatural
  <2>2. k \in 1 .. n
    BY <1>1, <1>2
  <2>3. k - 1 \in 0 .. n /\ k - 1 \notin Out
    BY <2>1, <2>2
  <2>4. S \subseteq f[k - 1] /\ f[k - 1] \subseteq f[k]
    BY <1>1, <1>2, <2>2, <2>3 DEF Grows
  <2> QED BY <1>1, <2>4
<1>4. n \in 0 .. n
  OBVIOUS
<1> QED BY <1>1, <1>3, <1>4

-----------------------------------------------------------------------------
(* Reach: the least set that has X and is closed under the relation.       *)
LEMMA InImage == \A rel, Y, t : t \in Image(rel, Y) <=> \E q \in rel : q[1] \in Y /\ t = q[2]
BY DEF Image

Relates(rel, H, V) == rel \subseteq H \X V

LEMMA ReachLeast ==
  ASSUME NEW H, IsFiniteSet(H), NEW V, NEW rel, Relates(rel, H, V), NEW X \in H
  PROVE  LET R == Reach(rel, {X}, Cardinality(H))
         IN  /\ X \in R /\ R \subseteq H \cup V
             /\ \A q \in rel : q[1] \in R => q[2] \in R
             /\ \A T : X \in T /\ (\A q \in rel : q[1] \in T => q[2] \in T) => R \subseteq T
<1> DEFINE n == Cardinality(H)
           S == {X}
           U == H \cup V
           step == [Y \in SUBSET U |-> Y \cup Image(rel, Y)]
<1>1. n \in Nat
  BY FS_CardinalityType
<1>2. \A q \in rel : q[1] \in H /\ q[2] \in U
  BY DEF Relates
<1> HIDE DEF U
<1>3. \A Y \in SUBSET U : step[Y] = Y \cup Image(rel, Y)
  OBVIOUS
<1>0. step \in [SUBSET U -> SUBSET U]
  BY <1>2, InImage
<1>4. S \in SUBSET U /\ Cardinality(S \cap H) = 1
  <2>1. S \cap H = S
    OBVIOUS
  <2>2. X \in U
    BY DEF U
  <2> QED BY <2>1, <2>2, FS_Singleton
<1> HIDE DEF n, step
<1> HIDE DEF S
<1> DEFINE f == CHOOSE f : f = [k \in 0 .. n |-> IF k = 0 THEN S ELSE f[k - 1] \cup Image(rel, f[k - 1])]
<1>5. f = [k \in 0 .. n |-> IF k = 0 THEN S ELSE f[k - 1] \cup Image(rel, f[k - 1])]
  <2>1. PICK h : Chain(h, step, S, n)
    BY <1>0, <1>1, <1>4, ChainExists
  <2>2. \A k \in 0 .. n : h[k] \in SUBSET U
    BY <1>0, <1>1, <1>4, <2>1, ChainType
  <2>3. ASSUME NEW k \in 0 .. n, k # 0 PROVE step[h[k - 1]] = h[k - 1] \cup Image(rel, h[k - 1])
    <3>1. k - 1 \in 0 .. n
      BY <1>1, <2>3
    <3> QED BY <1>3, <2>2, <3>1
  <2>4. h = [k \in 0 .. n |-> IF k = 0 THEN S ELSE h[k - 1] \cup Image(rel, h[k - 1])]
    BY <2>1, <2>3 DEF Chain
  <2> QED BY <2>4
<1>6. Reach(rel, S, n) = f[n]
  BY DEF Reach, S
<1> HIDE DEF f
<1>7. f = [k \in 0 .. n |-> f[k]] /\ f[0] = S
  <2>1. 0 \in 0 .. n
    BY <1>1
  <2> QED BY <1>5, <2>1
<1>8. ASSUME NEW k \in 1 .. n, f[k - 1] \in SUBSET U PROVE f[k] = step[f[k - 1]]
  <2>1. k \in 0 .. n /\ k # 0
    BY <1>1
  <2>2. f[k] = f[k - 1] \cup Image(rel, f[k - 1])
    BY <1>5, <2>1
  <2> QED BY <1>3, <1>8, <2>2
<1>9. Chain(f, step, S, n)
  BY <1>0, <1>1, <1>4, <1>7, <1>8, ChainFrom
<1>10. Grows(step, U)
  BY <1>3 DEF Grows
<1>11. ASSUME NEW Y \in SUBSET U, Y \cap H = step[Y] \cap H PROVE step[step[Y]] = step[Y]
  <2>1. step[Y] \in SUBSET U
    BY <1>0
  <2>2. Image(rel, step[Y]) \subseteq Image(rel, Y)
    BY <1>2, <1>11, InImage
  <2>3. step[step[Y]] = step[Y] \cup Image(rel, step[Y]) /\ step[Y] = Y \cup Image(rel, Y)
    BY <1>3, <2>1
  <2> QED BY <2>2, <2>3
<1>12. Settles(step, U, H)
  BY <1>11 DEF Settles
<1>13. Lasts(step, U, S, H, n)
  BY <1>1, <1>4 DEF Lasts, n
<1>14. step[f[n]] = f[n]
  BY <1>0, <1>1, <1>4, <1>9, <1>10, <1>12, <1>13, ChainCloses
<1>15. f[n] \in SUBSET U
  <2>1. n \in 0 .. n
    BY <1>1
  <2> QED BY <1>0, <1>1, <1>4, <1>9, <2>1, ChainType
<1>16. S \subseteq f[n]
  BY <1>0, <1>1, <1>4, <1>9, <1>10, ChainGrows
<1>17. \A q \in rel : q[1] \in f[n] => q[2] \in f[n]
  BY <1>3, <1>14, <1>15, InImage
<1>18. ASSUME NEW T, X \in T, \A q \in rel : q[1] \in T => q[2] \in T PROVE f[n] \subseteq T
  <2>1. ASSUME NEW Y \in SUBSET U, Y \subseteq T PROVE step[Y] \subseteq T
    BY <1>3, <1>18, <2>1, InImage
  <2>2. S \subseteq T /\ Keeps(step, U, T)
    BY <1>18, <2>1 DEF Keeps, S
  <2> QED BY <1>0, <1>1, <1>4, <1>9, <2>2, ChainLeast
<1> QED BY <1>6, <1>15, <1>16, <1>17, <1>18 DEF n, S, U

-----------------------------------------------------------------------------
(* Nullable: the least set that has EPSILON and the left-hand side of each *)
(* production whose right-hand side lies within it.                        *)
EmptyIn(g, k, N) == \A j \in DOMAIN Body(g[k]) : Body(g[k])[j] \in N
Vanishing(g, Y) ==
  { p.lhs : p \in { q \in Bodies(g) : \A i \in DOMAIN q.body : q.body[i] \in Y } }

LEMMA InVanishing ==
  \A g, Y, t : t \in Vanishing(g, Y) <=> \E k \in DOMAIN g : t = g[k].lhs /\ EmptyIn(g, k, Y)
<1> TAKE g, Y, t
<1>1. \A k \in DOMAIN g : [lhs |-> g[k].lhs, body |-> Body(g[k])] \in Bodies(g)
  BY DEF Bodies
<1>2. \A q \in Bodies(g) : \E k \in DOMAIN g : q = [lhs |-> g[k].lhs, body |-> Body(g[k])]
  BY DEF Bodies
<1>3. ASSUME NEW k \in DOMAIN g, t = g[k].lhs, EmptyIn(g, k, Y) PROVE t \in Vanishing(g, Y)
  <2> DEFINE q == [lhs |-> g[k].lhs, body |-> Body(g[k])]
  <2>1. q \in Bodies(g) /\ q.lhs = t /\ q.body = Body(g[k])
    BY <1>1, <1>3
  <2> HIDE DEF q
  <2>2. \A j \in DOMAIN q.body : q.body[j] \in Y
    BY <1>3, <2>1 DEF EmptyIn
  <2> QED BY <2>1, <2>2 DEF Vanishing
<1>4. ASSUME t \in Vanishing(g, Y) PROVE \E k \in DOMAIN g : t = g[k].lhs /\ EmptyIn(g, k, Y)
  <2>1. PICK q \in Bodies(g) : t = q.lhs /\ \A j \in DOMAIN q.body : q.body[j] \in Y
    BY <1>4 DEF Vanishing
  <2>2. PICK k \in DOMAIN g : q = [lhs |-> g[k].lhs, body |-> Body(g[k])]
    BY <1>2
  <2>3. q.lhs = g[k].lhs /\ q.body = Body(g[k])
    BY <2>2
  <2> QED BY <2>1, <2>3 DEF EmptyIn
<1> QED BY <1>3, <1>4

LEMMA NullableLeast ==
  ASSUME NEW g, IsFiniteSet(Heads(g)), "EPSILON" \notin Heads(g)
  PROVE  /\ "EPSILON" \in Nullable(g)
         /\ Nullable(g) \subseteq {"EPSILON"} \cup Heads(g)
         /\ \A k \in DOMAIN g : EmptyIn(g, k, Nullable(g)) => g[k].lhs \in Nullable(g)
         /\ \A T : "EPSILON" \in T /\ (\A k \in DOMAIN g : EmptyIn(g, k, T) => g[k].lhs \in T)
                     => Nullable(g) \subseteq T
<1> DEFINE n == Cardinality(Heads(g))
           S == {"EPSILON"}
           U == {"EPSILON"} \cup Heads(g)
           step == [Y \in SUBSET U |-> Y \cup Vanishing(g, Y)]
<1>1. n \in Nat /\ IsFiniteSet(U) /\ Cardinality(U) = n + 1
  BY FS_CardinalityType, FS_AddElement
<1>2. \A k \in DOMAIN g : g[k].lhs \in U
  BY DEF Heads
<1>3. \A Y \in SUBSET U : step[Y] = Y \cup Vanishing(g, Y)
  OBVIOUS
<1>0. step \in [SUBSET U -> SUBSET U]
  BY <1>2, InVanishing
<1>4. S \in SUBSET U /\ Cardinality(S \cap U) = 1
  <2>1. S \cap U = S
    OBVIOUS
  <2> QED BY <2>1, FS_Singleton
<1> HIDE DEF n, step, U, S
<1> DEFINE f == CHOOSE f : f = [k \in 0 .. n |-> IF k = 0 THEN S ELSE f[k - 1] \cup Vanishing(g, f[k - 1])]
<1>5. f = [k \in 0 .. n |-> IF k = 0 THEN S ELSE f[k - 1] \cup Vanishing(g, f[k - 1])]
  <2>1. PICK h : Chain(h, step, S, n)
    BY <1>0, <1>1, <1>4, ChainExists
  <2>2. \A k \in 0 .. n : h[k] \in SUBSET U
    BY <1>0, <1>1, <1>4, <2>1, ChainType
  <2>3. ASSUME NEW k \in 0 .. n, k # 0 PROVE step[h[k - 1]] = h[k - 1] \cup Vanishing(g, h[k - 1])
    <3>1. k - 1 \in 0 .. n
      BY <1>1, <2>3
    <3> QED BY <1>3, <2>2, <3>1
  <2>4. h = [k \in 0 .. n |-> IF k = 0 THEN S ELSE h[k - 1] \cup Vanishing(g, h[k - 1])]
    BY <2>1, <2>3 DEF Chain
  <2> QED BY <2>4
<1>6. Nullable(g) = f[n]
  BY DEF Nullable, Vanishing, n, S
<1> HIDE DEF f
<1>7. f = [k \in 0 .. n |-> f[k]] /\ f[0] = S
  <2>1. 0 \in 0 .. n
    BY <1>1
  <2> QED BY <1>5, <2>1
<1>8. ASSUME NEW k \in 1 .. n, f[k - 1] \in SUBSET U PROVE f[k] = step[f[k - 1]]
  <2>1. k \in 0 .. n /\ k # 0
    BY <1>1
  <2>2. f[k] = f[k - 1] \cup Vanishing(g, f[k - 1])
    BY <1>5, <2>1
  <2> QED BY <1>3, <1>8, <2>2
<1>9. Chain(f, step, S, n)
  BY <1>0, <1>1, <1>4, <1>7, <1>8, ChainFrom
<1>10. Grows(step, U)
  BY <1>3 DEF Grows
<1>11. Settles(step, U, U)
  <2>1. ASSUME NEW Y \in SUBSET U, Y \cap U = step[Y] \cap U PROVE step[step[Y]] = step[Y]
    <3>1. step[Y] \in SUBSET U /\ Y \subseteq step[Y]
      BY <1>0, <1>3
    <3>2. step[Y] \cap U = step[Y] /\ Y \cap U = Y
      BY <3>1
    <3> QED BY <2>1, <3>2
  <2> QED BY <2>1 DEF Settles
<1>12. Lasts(step, U, S, U, n)
  <2>1. Fills(step, U, U)
    <3>1. ASSUME NEW Y \in SUBSET U, U \subseteq Y PROVE step[Y] = Y
      <4>1. step[Y] \in SUBSET U /\ Y \subseteq step[Y]
        BY <1>0, <1>3, <3>1
      <4>2. Y = U /\ step[Y] = U
        BY <3>1, <4>1
      <4> QED BY <4>2
    <3> QED BY <3>1 DEF Fills
  <2> QED BY <1>1, <1>4, <2>1 DEF Lasts
<1>13. step[f[n]] = f[n]
  BY <1>0, <1>1, <1>4, <1>9, <1>10, <1>11, <1>12, ChainCloses
<1>14. f[n] \in SUBSET U
  <2>1. n \in 0 .. n
    BY <1>1
  <2> QED BY <1>0, <1>1, <1>4, <1>9, <2>1, ChainType
<1>15. S \subseteq f[n]
  BY <1>0, <1>1, <1>4, <1>9, <1>10, ChainGrows
<1>16. \A k \in DOMAIN g : EmptyIn(g, k, f[n]) => g[k].lhs \in f[n]
  BY <1>3, <1>13, <1>14, InVanishing
<1>17. ASSUME NEW T, "EPSILON" \in T, \A k \in DOMAIN g : EmptyIn(g, k, T) => g[k].lhs \in T
       PROVE  f[n] \subseteq T
  <2>1. ASSUME NEW Y \in SUBSET U, Y \subseteq T PROVE step[Y] \subseteq T
    <3>1. \A k \in DOMAIN g : EmptyIn(g, k, Y) => EmptyIn(g, k, T)
      BY <2>1 DEF EmptyIn
    <3> QED BY <1>3, <1>17, <2>1, <3>1, InVanishing
  <2>2. S \subseteq T /\ Keeps(step, U, T)
    BY <1>17, <2>1 DEF Keeps, S
  <2> QED BY <1>0, <1>1, <1>4, <1>9, <2>2, ChainLeast
<1> QED BY <1>6, <1>14, <1>15, <1>16, <1>17 DEF S, U

-----------------------------------------------------------------------------
(* The three relations of a grammar, one production at a time.             *)
WellFormed(g) ==
  /\ IsFiniteSet(Heads(g)) /\ Heads(g) \cap Terminals = {}
  /\ \A k \in DOMAIN g : Body(g[k]) \in Seq(Terminals \cup Heads(g)) /\ Body(g[k]) # << >>

LEMMA WellFormedBody ==
  ASSUME NEW g, WellFormed(g), NEW k \in DOMAIN g
  PROVE  /\ g[k].lhs \in Heads(g)
         /\ Body(g[k]) # << >> /\ Len(Body(g[k])) \in Nat
         /\ DOMAIN Body(g[k]) = 1 .. Len(Body(g[k]))
         /\ \A j \in 1 .. Len(Body(g[k])) : Body(g[k])[j] \in Terminals \cup Heads(g)
         /\ Len(Body(g[k])) \in 1 .. Len(Body(g[k]))
<1>1. Body(g[k]) \in Seq(Terminals \cup Heads(g)) /\ Body(g[k]) # << >>
  BY DEF WellFormed
<1> QED BY <1>1 DEF Heads

LEMMA BodyRecords ==
  ASSUME NEW g
  PROVE  /\ \A k \in DOMAIN g : \E q \in Bodies(g) : q.lhs = g[k].lhs /\ q.body = Body(g[k])
         /\ \A q \in Bodies(g) : \E k \in DOMAIN g : q.lhs = g[k].lhs /\ q.body = Body(g[k])
<1>1. ASSUME NEW k \in DOMAIN g
      PROVE  \E q \in Bodies(g) : q.lhs = g[k].lhs /\ q.body = Body(g[k])
  <2> DEFINE q == [lhs |-> g[k].lhs, body |-> Body(g[k])]
  <2>1. q \in Bodies(g) /\ q.lhs = g[k].lhs /\ q.body = Body(g[k])
    BY DEF Bodies
  <2> QED BY <2>1
<1>2. ASSUME NEW q \in Bodies(g)
      PROVE  \E k \in DOMAIN g : q.lhs = g[k].lhs /\ q.body = Body(g[k])
  <2>1. PICK k \in DOMAIN g : q = [lhs |-> g[k].lhs, body |-> Body(g[k])]
    BY DEF Bodies
  <2> QED BY <2>1
<1> QED BY <1>1, <1>2

LEMMA InBegins ==
  ASSUME NEW g, NEW null
  PROVE  \A r : r \in Begins(g, null) <=>
           \E k \in DOMAIN g : \E j \in DOMAIN Body(g[k]) :
             r = <<g[k].lhs, Body(g[k])[j]>> /\ Gap(null, Body(g[k]), 0, j)
<1> TAKE r
<1>1. r \in Begins(g, null) <=>
        \E q \in Bodies(g) : \E j \in DOMAIN q.body : r = <<q.lhs, q.body[j]>> /\ Gap(null, q.body, 0, j)
  BY DEF Begins
<1>2. ASSUME r \in Begins(g, null) PROVE \E k \in DOMAIN g : \E j \in DOMAIN Body(g[k]) :
                r = <<g[k].lhs, Body(g[k])[j]>> /\ Gap(null, Body(g[k]), 0, j)
  <2>1. PICK q \in Bodies(g) : \E j \in DOMAIN q.body : r = <<q.lhs, q.body[j]>> /\ Gap(null, q.body, 0, j)
    BY <1>1, <1>2
  <2>2. PICK k \in DOMAIN g : q.lhs = g[k].lhs /\ q.body = Body(g[k])
    BY BodyRecords
  <2> QED BY <2>1, <2>2
<1>3. ASSUME NEW k \in DOMAIN g, \E j \in DOMAIN Body(g[k]) :
                r = <<g[k].lhs, Body(g[k])[j]>> /\ Gap(null, Body(g[k]), 0, j) PROVE r \in Begins(g, null)
  <2>1. PICK q \in Bodies(g) : q.lhs = g[k].lhs /\ q.body = Body(g[k])
    BY BodyRecords
  <2>2. \E j \in DOMAIN q.body : r = <<q.lhs, q.body[j]>> /\ Gap(null, q.body, 0, j)
    BY <1>3, <2>1
  <2> QED BY <1>1, <2>2
<1> QED BY <1>2, <1>3

LEMMA InEnds ==
  ASSUME NEW g, NEW null
  PROVE  \A r : r \in Ends(g, null) <=>
           \E k \in DOMAIN g : \E j \in DOMAIN Body(g[k]) :
             /\ r = <<Body(g[k])[j], g[k].lhs>> /\ Body(g[k])[j] \notin Terminals
             /\ Gap(null, Body(g[k]), j, Len(Body(g[k])) + 1)
<1> TAKE r
<1>1. r \in Ends(g, null) <=>
        \E q \in Bodies(g) : \E j \in DOMAIN q.body :
          /\ r = <<q.body[j], q.lhs>> /\ q.body[j] \notin Terminals
          /\ Gap(null, q.body, j, Len(q.body) + 1)
  BY DEF Ends
<1>2. ASSUME r \in Ends(g, null) PROVE \E k \in DOMAIN g : \E j \in DOMAIN Body(g[k]) :
                /\ r = <<Body(g[k])[j], g[k].lhs>> /\ Body(g[k])[j] \notin Terminals
                /\ Gap(null, Body(g[k]), j, Len(Body(g[k])) + 1)
  <2>1. PICK q \in Bodies(g) : \E j \in DOMAIN q.body :
          /\ r = <<q.body[j], q.lhs>> /\ q.body[j] \notin Terminals
          /\ Gap(null, q.body, j, Len(q.body) + 1)
    BY <1>1, <1>2
  <2>2. PICK k \in DOMAIN g : q.lhs = g[k].lhs /\ q.body = Body(g[k])
    BY BodyRecords
  <2> QED BY <2>1, <2>2
<1>3. ASSUME NEW k \in DOMAIN g, \E j \in DOMAIN Body(g[k]) :
                /\ r = <<Body(g[k])[j], g[k].lhs>> /\ Body(g[k])[j] \notin Terminals
                /\ Gap(null, Body(g[k]), j, Len(Body(g[k])) + 1) PROVE r \in Ends(g, null)
  <2>1. PICK q \in Bodies(g) : q.lhs = g[k].lhs /\ q.body = Body(g[k])
    BY BodyRecords
  <2>2. \E j \in DOMAIN q.body :
          /\ r = <<q.body[j], q.lhs>> /\ q.body[j] \notin Terminals
          /\ Gap(null, q.body, j, Len(q.body) + 1)
    BY <1>3, <2>1
  <2> QED BY <1>1, <2>2
<1> QED BY <1>2, <1>3

LEMMA InFollows ==
  ASSUME NEW g, NEW null
  PROVE  \A r : r \in Follows(g, null) <=>
           \E k \in DOMAIN g : \E i, j \in DOMAIN Body(g[k]) :
             /\ r = <<Body(g[k])[i], Body(g[k])[j]>>
             /\ i < j /\ Body(g[k])[i] \notin Terminals /\ Gap(null, Body(g[k]), i, j)
<1> TAKE r
<1>1. r \in Follows(g, null) <=>
        \E q \in Bodies(g) : \E i, j \in DOMAIN q.body :
          /\ r = <<q.body[i], q.body[j]>>
          /\ i < j /\ q.body[i] \notin Terminals /\ Gap(null, q.body, i, j)
  <2>1. ASSUME NEW q \in Bodies(g), NEW i \in DOMAIN q.body, NEW j \in DOMAIN q.body,
               r = <<q.body[i], q.body[j]>>, i < j, q.body[i] \notin Terminals, Gap(null, q.body, i, j)
        PROVE  r \in Follows(g, null)
    <3> DEFINE c == <<i, j>>
    <3>1. c \in (DOMAIN q.body) \X (DOMAIN q.body) /\ c[1] = i /\ c[2] = j
      OBVIOUS
    <3> HIDE DEF c
    <3> QED BY <2>1, <3>1 DEF Follows
  <2>2. ASSUME r \in Follows(g, null)
        PROVE  \E q \in Bodies(g) : \E i, j \in DOMAIN q.body :
                 /\ r = <<q.body[i], q.body[j]>>
                 /\ i < j /\ q.body[i] \notin Terminals /\ Gap(null, q.body, i, j)
    <3>1. PICK q \in Bodies(g) : \E c \in (DOMAIN q.body) \X (DOMAIN q.body) :
            /\ r = <<q.body[c[1]], q.body[c[2]]>>
            /\ c[1] < c[2] /\ q.body[c[1]] \notin Terminals /\ Gap(null, q.body, c[1], c[2])
      BY <2>2 DEF Follows
    <3>2. PICK c \in (DOMAIN q.body) \X (DOMAIN q.body) :
            /\ r = <<q.body[c[1]], q.body[c[2]]>>
            /\ c[1] < c[2] /\ q.body[c[1]] \notin Terminals /\ Gap(null, q.body, c[1], c[2])
      BY <3>1
    <3> QED BY <3>2
  <2> QED BY <2>1, <2>2
<1>2. ASSUME r \in Follows(g, null) PROVE \E k \in DOMAIN g : \E i, j \in DOMAIN Body(g[k]) :
                /\ r = <<Body(g[k])[i], Body(g[k])[j]>>
                /\ i < j /\ Body(g[k])[i] \notin Terminals /\ Gap(null, Body(g[k]), i, j)
  <2>1. PICK q \in Bodies(g) : \E i, j \in DOMAIN q.body :
          /\ r = <<q.body[i], q.body[j]>>
          /\ i < j /\ q.body[i] \notin Terminals /\ Gap(null, q.body, i, j)
    BY <1>1, <1>2
  <2>2. PICK k \in DOMAIN g : q.lhs = g[k].lhs /\ q.body = Body(g[k])
    BY BodyRecords
  <2> QED BY <2>1, <2>2
<1>3. ASSUME NEW k \in DOMAIN g, \E i, j \in DOMAIN Body(g[k]) :
                /\ r = <<Body(g[k])[i], Body(g[k])[j]>>
                /\ i < j /\ Body(g[k])[i] \notin Terminals /\ Gap(null, Body(g[k]), i, j) PROVE r \in Follows(g, null)
  <2>1. PICK q \in Bodies(g) : q.lhs = g[k].lhs /\ q.body = Body(g[k])
    BY BodyRecords
  <2>2. \E i, j \in DOMAIN q.body :
          /\ r = <<q.body[i], q.body[j]>>
          /\ i < j /\ q.body[i] \notin Terminals /\ Gap(null, q.body, i, j)
    BY <1>3, <2>1
  <2> QED BY <1>1, <2>2
<1> QED BY <1>2, <1>3

-----------------------------------------------------------------------------
(* FIRST: what a nonterminal leads to by Begins.                           *)
FirstReach(g, X) == Reach(Begins(g, Nullable(g)), {X}, Cardinality(Heads(g)))

LEMMA InFirst ==
  ASSUME NEW g
  PROVE  \A s, t : <<s, t>> \in FirstSets(g) <=>
           \/ s \in Terminals /\ t = s
           \/ s \in Nullable(g) /\ t = "EPSILON"
           \/ s \in Heads(g) /\ t \in FirstReach(g, s) /\ t \in Terminals /\ t # "EPSILON"
<1> TAKE s, t
<1> DEFINE of(X) == (FirstReach(g, X) \cap Terminals) \ {"EPSILON"}
<1>1. FirstSets(g) = { <<x, x>> : x \in Terminals } \cup { <<X, "EPSILON">> : X \in Nullable(g) }
                       \cup UNION { { <<X, x>> : x \in of(X) } : X \in Heads(g) }
  BY DEF FirstSets, FirstReach
<1>2. <<s, t>> \in UNION { { <<X, x>> : x \in of(X) } : X \in Heads(g) }
        <=> s \in Heads(g) /\ t \in of(s)
  OBVIOUS
<1> QED BY <1>1, <1>2

LEMMA FirstPairs == \A g : \A p \in FirstSets(g) : p = <<p[1], p[2]>>
<1> TAKE g
<1> DEFINE begin(W) == (FirstReach(g, W) \cap Terminals) \ {"EPSILON"}
<1>1. FirstSets(g) = { <<z, z>> : z \in Terminals } \cup { <<W, "EPSILON">> : W \in Nullable(g) }
                       \cup UNION { { <<W, z>> : z \in begin(W) } : W \in Heads(g) }
  BY DEF FirstSets, FirstReach
<1> HIDE DEF begin
<1> QED BY <1>1

LEMMA FirstReachLeast ==
  ASSUME NEW g, WellFormed(g), NEW X \in Heads(g)
  PROVE  /\ X \in FirstReach(g, X)
         /\ \A q \in Begins(g, Nullable(g)) : q[1] \in FirstReach(g, X) => q[2] \in FirstReach(g, X)
         /\ \A T : X \in T /\ (\A q \in Begins(g, Nullable(g)) : q[1] \in T => q[2] \in T)
                     => FirstReach(g, X) \subseteq T
<1> DEFINE U == Terminals \cup Heads(g)
           rel == Begins(g, Nullable(g))
           H == Heads(g)
<1>1. \A k \in DOMAIN g : /\ g[k].lhs \in H
                          /\ \A j \in DOMAIN Body(g[k]) : Body(g[k])[j] \in U
  BY WellFormedBody
<1>2. Relates(rel, H, U)
  BY <1>1, InBegins DEF Relates
<1>3. IsFiniteSet(H) /\ H \subseteq U
  BY DEF WellFormed
<1> HIDE DEF U, rel, H
<1>4. X \in H
  BY DEF H
<1> QED BY <1>2, <1>3, <1>4, ReachLeast DEF FirstReach, rel, H

(* FOLLOW: what can come right after a nonterminal that it is the end of.  *)
Above(g, X) == Reach(Ends(g, Nullable(g)), {X}, Cardinality(Heads(g)))

LEMMA InFollow ==
  ASSUME NEW g
  PROVE  \A X, t : <<X, t>> \in FollowSets(g) <=>
           /\ X \in Heads(g)
           /\ \/ t = "DOLLAR" /\ StartSymbol \in Above(g, X)
              \/ /\ t # "EPSILON"
                 /\ \E q \in Follows(g, Nullable(g)) : q[1] \in Above(g, X) /\ <<q[2], t>> \in FirstSets(g)
<1> TAKE X, t
<1> DEFINE of(Y) == (Image(FirstSets(g), Image(Follows(g, Nullable(g)), Above(g, Y))) \ {"EPSILON"})
                      \cup IF StartSymbol \in Above(g, Y) THEN {"DOLLAR"} ELSE {}
<1>1. FollowSets(g) = UNION { { <<Y, x>> : x \in of(Y) } : Y \in Heads(g) }
  BY DEF FollowSets, Above
<1>2. <<X, t>> \in FollowSets(g) <=> X \in Heads(g) /\ t \in of(X)
  BY <1>1
<1>3. \A Y, x : x \in Image(FirstSets(g), Image(Follows(g, Nullable(g)), Y)) <=>
        \E q \in Follows(g, Nullable(g)) : q[1] \in Y /\ <<q[2], x>> \in FirstSets(g)
  <2> TAKE Y, x
  <2>1. \A p \in FirstSets(g) : p = <<p[1], p[2]>>
    BY FirstPairs
  <2>2. ASSUME x \in Image(FirstSets(g), Image(Follows(g, Nullable(g)), Y))
        PROVE  \E q \in Follows(g, Nullable(g)) : q[1] \in Y /\ <<q[2], x>> \in FirstSets(g)
    <3>1. PICK p \in FirstSets(g) : p[1] \in Image(Follows(g, Nullable(g)), Y) /\ x = p[2]
      BY <2>2, InImage
    <3>2. PICK q \in Follows(g, Nullable(g)) : q[1] \in Y /\ p[1] = q[2]
      BY <3>1, InImage
    <3> QED BY <2>1, <3>1, <3>2
  <2>3. ASSUME NEW q \in Follows(g, Nullable(g)), q[1] \in Y, <<q[2], x>> \in FirstSets(g)
        PROVE  x \in Image(FirstSets(g), Image(Follows(g, Nullable(g)), Y))
    <3>1. q[2] \in Image(Follows(g, Nullable(g)), Y)
      BY <2>3, InImage
    <3>2. <<q[2], x>>[1] = q[2] /\ <<q[2], x>>[2] = x
      OBVIOUS
    <3> QED BY <2>3, <3>1, <3>2, InImage
  <2> QED BY <2>2, <2>3
<1> QED BY <1>2, <1>3

LEMMA FollowPairs == \A g : \A p \in FollowSets(g) : p = <<p[1], p[2]>>
<1> TAKE g
<1> DEFINE of(Y) == (Image(FirstSets(g), Image(Follows(g, Nullable(g)), Above(g, Y))) \ {"EPSILON"})
                      \cup IF StartSymbol \in Above(g, Y) THEN {"DOLLAR"} ELSE {}
<1>1. FollowSets(g) = UNION { { <<Y, x>> : x \in of(Y) } : Y \in Heads(g) }
  BY DEF FollowSets, Above
<1> HIDE DEF of
<1> QED BY <1>1

LEMMA AboveLeast ==
  ASSUME NEW g, WellFormed(g), NEW X \in Heads(g)
  PROVE  /\ X \in Above(g, X) /\ Above(g, X) \subseteq Heads(g)
         /\ \A q \in Ends(g, Nullable(g)) : q[1] \in Above(g, X) => q[2] \in Above(g, X)
         /\ \A T : X \in T /\ (\A q \in Ends(g, Nullable(g)) : q[1] \in T => q[2] \in T)
                     => Above(g, X) \subseteq T
<1> DEFINE rel == Ends(g, Nullable(g))
           H == Heads(g)
<1>1. \A k \in DOMAIN g : /\ g[k].lhs \in H
                          /\ \A j \in DOMAIN Body(g[k]) : Body(g[k])[j] \in Terminals \cup H
  BY WellFormedBody
<1>2. Relates(rel, H, H)
  BY <1>1, InEnds DEF Relates
<1>3. IsFiniteSet(H) /\ H \subseteq H
  BY DEF WellFormed
<1> HIDE DEF rel, H
<1>4. X \in H
  BY DEF H
<1> QED BY <1>2, <1>3, <1>4, ReachLeast DEF Above, rel, H
=============================================================================
