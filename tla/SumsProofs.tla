----------------------------- MODULE SumsProofs -----------------------------
(***************************************************************************)
(* Proofs about Sums.                                                      *)
(*                                                                         *)
(* Induction is by minimal counterexample: a set of subsets of a finite    *)
(* set has a minimal member, unless it is empty.  The sum is a recursive   *)
(* function that removes the element CHOOSE picks, so two things come      *)
(* first: the function exists, and it does not matter over which larger    *)
(* set it is defined.                                                      *)
(***************************************************************************)
EXTENDS Sums, Integers, FiniteSetTheorems, WellFoundedInduction, TLAPS

\* The least-number principle, as a fact about sets.
LEMMA Least ==
    ASSUME NEW T, T \subseteq Nat, T # {}
    PROVE  \E n \in T: \A m \in T: n <= m
<1> DEFINE R == OpToRel(<, Nat)
<1>1. IsWellFoundedOn(R, Nat)
  BY NatLessThanWellFounded
<1>2. \A m, n \in Nat: m < n => <<m, n>> \in R
  BY DEF OpToRel
<1> HIDE DEF R
<1>3. PICK n \in T: \A m \in T: ~(<<m, n>> \in R)
  BY <1>1, WFMin
<1>4. \A m \in T: ~(m < n)
  BY <1>2, <1>3
<1>5. \A m \in T: m \in Nat /\ n \in Nat
  OBVIOUS
<1> QED
  BY <1>4, <1>5

\* The same for finite sets: of the sets that have a property, one has no smaller
\* one below it.
LEMMA Smallest ==
    ASSUME NEW S, IsFiniteSet(S), NEW B, B \subseteq SUBSET S, B # {}
    PROVE  \E s \in B: \A t \in B: t \subseteq s => t = s
<1> DEFINE T == {Cardinality(s): s \in B}
<1>1. \A s \in B: IsFiniteSet(s) /\ Cardinality(s) \in Nat
  BY FS_Subset, FS_CardinalityType
<1>2. T \subseteq Nat /\ T # {}
  BY <1>1
<1>3. PICK n \in T: \A m \in T: n <= m
  BY <1>2, Least
<1>4. PICK s \in B: \A t \in B: Cardinality(s) <= Cardinality(t)
  BY <1>3
<1>5. ASSUME NEW t \in B, t \subseteq s PROVE t = s
  <2>1. t # s => Cardinality(t) < Cardinality(s)
    BY <1>1, <1>5, FS_Subset
  <2> QED
    BY <1>1, <1>4, <2>1
<1> QED
  BY <1>5
-----------------------------------------------------------------------------
(* The recursion *)

Pick(s) == CHOOSE x \in s: TRUE

\* What it has to satisfy on the subsets of S.
Unfolds(it, f, S) ==
    it = [s \in SUBSET S |-> IF s = {} THEN 0 ELSE f[Pick(s)] + it[s \ {Pick(s)}]]

Iter(f, S) == CHOOSE it: Unfolds(it, f, S)

LEMMA SumIsIter ==
    ASSUME NEW f, NEW S
    PROVE  SumOver(f, S) = Iter(f, S)[S]
  BY DEF SumOver, MapThenSumSet, MapThenFoldSet, Iter, Unfolds, Pick

LEMMA Picked ==
    ASSUME NEW s, s # {}
    PROVE  Pick(s) \in s
  BY DEF Pick

\* The value at a set does not depend on the set the recursion is defined over.
LEMMA SumsAgree ==
    ASSUME NEW f, NEW S, IsFiniteSet(S), NEW T, T \subseteq S,
           NEW it, Unfolds(it, f, S), NEW jt, Unfolds(jt, f, T)
    PROVE  it[T] = jt[T]
<1> DEFINE B == {s \in SUBSET T: it[s] # jt[s]}
<1>1. CASE B = {}
  BY <1>1
<1>2. CASE B # {}
  <2>1. IsFiniteSet(T)
    BY FS_Subset
  <2>2. B \subseteq SUBSET T
    OBVIOUS
  <2>3. PICK s \in B: \A t \in B: t \subseteq s => t = s
    <3> HIDE DEF B
    <3> QED
      BY <1>2, <2>1, <2>2, Smallest
  <2>4. s \subseteq T /\ s \subseteq S
    OBVIOUS
  <2>5. /\ it[s] = IF s = {} THEN 0 ELSE f[Pick(s)] + it[s \ {Pick(s)}]
        /\ jt[s] = IF s = {} THEN 0 ELSE f[Pick(s)] + jt[s \ {Pick(s)}]
    BY <2>4 DEF Unfolds
  <2>6. CASE s # {}
    <3>1. s \ {Pick(s)} \subseteq s /\ s \ {Pick(s)} # s
      BY <2>6, Picked
    <3>2. s \ {Pick(s)} \notin B
      BY <2>3, <3>1
    <3>3. it[s \ {Pick(s)}] = jt[s \ {Pick(s)}]
      BY <2>4, <3>2
    <3> QED
      BY <2>3, <2>5, <3>3
  <2> QED
    BY <2>3, <2>5, <2>6
<1> QED
  BY <1>1, <1>2

LEMMA SumEmpty ==
    ASSUME NEW f
    PROVE  SumOver(f, {}) = 0
<1> DEFINE it == [s \in SUBSET {} |-> 0]
<1>1. Unfolds(it, f, {})
  BY DEF Unfolds
<1>2. Unfolds(Iter(f, {}), f, {})
  BY <1>1 DEF Iter
<1>3. Iter(f, {})[{}] = 0
  BY <1>2 DEF Unfolds
<1> QED
  BY <1>3, SumIsIter

\* The equation of the recursion.
LEMMA SumPick ==
    ASSUME NEW f, NEW S, IsFiniteSet(S), S # {}
    PROVE  SumOver(f, S) = f[Pick(S)] + SumOver(f, S \ {Pick(S)})
<1> DEFINE Eq(s) == SumOver(f, s) = f[Pick(s)] + SumOver(f, s \ {Pick(s)})
           B == {s \in SUBSET S: s # {} /\ ~Eq(s)}
<1>1. CASE B = {}
  BY <1>1
<1>2. CASE B # {}
  <2>1. PICK s \in B: \A t \in B: t \subseteq s => t = s
    <3>1. B \subseteq SUBSET S
      OBVIOUS
    <3> HIDE DEF B
    <3> QED
      BY <1>2, <3>1, Smallest
  <2>2. /\ s \subseteq S /\ s # {} /\ ~Eq(s) /\ IsFiniteSet(s)
        /\ \A t \in SUBSET s: t # s /\ t # {} => Eq(t)
    BY <2>1, FS_Subset
  <2> DEFINE value(t) == IF t = s THEN f[Pick(s)] + SumOver(f, s \ {Pick(s)}) ELSE SumOver(f, t)
             it == [t \in SUBSET s |-> value(t)]
  <2> HIDE DEF Eq, B
  <2>3. Unfolds(it, f, s)
    <3>1. ASSUME NEW t \in SUBSET s, t # {}
          PROVE  it[t] = f[Pick(t)] + it[t \ {Pick(t)}]
      <4>1. t \ {Pick(t)} \in SUBSET s /\ t \ {Pick(t)} # s
        BY <3>1, Picked
      <4>2. it[t \ {Pick(t)}] = SumOver(f, t \ {Pick(t)})
        BY <4>1
      <4>3. it[t] = f[Pick(t)] + SumOver(f, t \ {Pick(t)})
        BY <2>2, <3>1 DEF Eq
      <4> QED
        BY <4>2, <4>3
    <3>2. it[{}] = 0
      BY <2>2, SumEmpty
    <3> HIDE DEF it
    <3>3. it = [t \in SUBSET s |-> it[t]]
      BY DEF it
    <3> QED
      BY <3>1, <3>2, <3>3 DEF Unfolds
  <2>4. Unfolds(Iter(f, s), f, s)
    BY <2>3 DEF Iter
  <2>5. it[s] = f[Pick(s)] + SumOver(f, s \ {Pick(s)})
    OBVIOUS
  <2> HIDE DEF it
  <2>6. it[s] = Iter(f, s)[s]
    BY <2>2, <2>3, <2>4, SumsAgree
  <2>7. Eq(s)
    BY <2>5, <2>6, SumIsIter DEF Eq
  <2> QED
    BY <2>2, <2>7
<1> QED
  BY <1>1, <1>2
-----------------------------------------------------------------------------
(* Sums of natural numbers *)

LEMMA SumType ==
    ASSUME NEW f, NEW S, IsFiniteSet(S), \A x \in S: f[x] \in Nat
    PROVE  SumOver(f, S) \in Nat
<1> DEFINE B == {s \in SUBSET S: SumOver(f, s) \notin Nat}
<1>1. CASE B = {}
  BY <1>1
<1>2. CASE B # {}
  <2>1. B \subseteq SUBSET S
    OBVIOUS
  <2>2. PICK s \in B: \A t \in B: t \subseteq s => t = s
    <3> HIDE DEF B
    <3> QED
      BY <1>2, <2>1, Smallest
  <2>3. s # {}
    <3>1. SumOver(f, s) \notin Nat
      OBVIOUS
    <3>2. SumOver(f, {}) \in Nat
      BY SumEmpty
    <3> QED
      BY <3>1, <3>2
  <2>4. IsFiniteSet(s)
    BY FS_Subset
  <2>5. SumOver(f, s) = f[Pick(s)] + SumOver(f, s \ {Pick(s)})
    BY <2>3, <2>4, SumPick
  <2>6. s \ {Pick(s)} \subseteq s /\ s \ {Pick(s)} # s /\ Pick(s) \in S
    BY <2>3, Picked
  <2>7. SumOver(f, s \ {Pick(s)}) \in Nat
    BY <2>2, <2>6
  <2> QED
    BY <2>2, <2>5, <2>6, <2>7
<1> QED
  BY <1>1, <1>2

\* Any element can be taken out first, not only the one that CHOOSE picks.
LEMMA SumRemove ==
    ASSUME NEW f, NEW S, IsFiniteSet(S), \A x \in S: f[x] \in Nat, NEW x \in S
    PROVE  SumOver(f, S) = f[x] + SumOver(f, S \ {x})
<1> DEFINE Out(s, y) == SumOver(f, s) = f[y] + SumOver(f, s \ {y})
           B == {s \in SUBSET S: \E y \in s: ~Out(s, y)}
<1>1. CASE B = {}
  BY <1>1
<1>2. CASE B # {}
  <2>1. PICK s \in B: \A t \in B: t \subseteq s => t = s
    <3>1. B \subseteq SUBSET S
      OBVIOUS
    <3> HIDE DEF B
    <3> QED
      BY <1>2, <3>1, Smallest
  <2>2. PICK y \in s: ~Out(s, y)
    OBVIOUS
  <2>3. s \subseteq S /\ s # {} /\ y \in S
    OBVIOUS
  <2>4. IsFiniteSet(s)
    BY <2>3, FS_Subset
  <2>5. \A t \in SUBSET s: t # s => \A z \in t: Out(t, z)
    BY <2>1, <2>3
  <2>6. PICK p \in s: p = Pick(s)
    BY <2>3, Picked
  <2>7. SumOver(f, s) = f[p] + SumOver(f, s \ {p})
    BY <2>3, <2>4, <2>6, SumPick
  <2>8. p # y
    BY <2>2, <2>7
  <2>9. Out(s \ {p}, y) /\ Out(s \ {y}, p)
    <3>1. /\ s \ {p} \subseteq s /\ s \ {p} # s /\ y \in s \ {p}
          /\ s \ {y} \subseteq s /\ s \ {y} # s /\ p \in s \ {y}
      BY <2>8
    <3> HIDE DEF Out
    <3> QED
      BY <2>5, <3>1
  <2>10. (s \ {p}) \ {y} = (s \ {y}) \ {p}
    OBVIOUS
  <2>11. SumOver(f, (s \ {p}) \ {y}) \in Nat
    <3>1. IsFiniteSet((s \ {p}) \ {y}) /\ (s \ {p}) \ {y} \subseteq S
      BY <2>3, <2>4, FS_Subset
    <3> QED
      BY <3>1, SumType
  <2>12. f[p] \in Nat /\ f[y] \in Nat
    BY <2>3, <2>6
  <2>13. /\ SumOver(f, s \ {p}) = f[y] + SumOver(f, (s \ {p}) \ {y})
         /\ SumOver(f, s \ {y}) = f[p] + SumOver(f, (s \ {p}) \ {y})
    BY <2>9, <2>10
  <2>14. SumOver(f, s) = f[y] + SumOver(f, s \ {y})
    <3> HIDE DEF Out, B
    <3> QED
      BY <2>7, <2>11, <2>12, <2>13
  <2> QED
    BY <2>2, <2>14
<1> QED
  BY <1>1, <1>2

\* Two functions that agree on a set have the same sum over it.
LEMMA SumSame ==
    ASSUME NEW f, NEW g, NEW S, IsFiniteSet(S), \A x \in S: f[x] = g[x]
    PROVE  SumOver(f, S) = SumOver(g, S)
<1> DEFINE B == {s \in SUBSET S: SumOver(f, s) # SumOver(g, s)}
<1>1. CASE B = {}
  BY <1>1
<1>2. CASE B # {}
  <2>1. B \subseteq SUBSET S
    OBVIOUS
  <2>2. PICK s \in B: \A t \in B: t \subseteq s => t = s
    <3> HIDE DEF B
    <3> QED
      BY <1>2, <2>1, Smallest
  <2>3. s # {}
    BY <2>2, SumEmpty
  <2>4. IsFiniteSet(s)
    BY FS_Subset
  <2>5. /\ SumOver(f, s) = f[Pick(s)] + SumOver(f, s \ {Pick(s)})
        /\ SumOver(g, s) = g[Pick(s)] + SumOver(g, s \ {Pick(s)})
    BY <2>3, <2>4, SumPick
  <2>6. s \ {Pick(s)} \subseteq s /\ s \ {Pick(s)} # s /\ Pick(s) \in S
    BY <2>3, Picked
  <2>7. SumOver(f, s \ {Pick(s)}) = SumOver(g, s \ {Pick(s)})
    BY <2>2, <2>6
  <2> QED
    BY <2>2, <2>5, <2>6, <2>7
<1> QED
  BY <1>1, <1>2

\* Where nothing is counted, the sum is 0.
LEMMA SumOfNothing ==
    ASSUME NEW f, NEW S, IsFiniteSet(S), \A x \in S: f[x] = 0
    PROVE  \A s \in SUBSET S: SumOver(f, s) = 0
<1> DEFINE B == {s \in SUBSET S: SumOver(f, s) # 0}
<1>1. CASE B = {}
  BY <1>1
<1>2. CASE B # {}
  <2>1. B \subseteq SUBSET S
    OBVIOUS
  <2>2. PICK s \in B: \A t \in B: t \subseteq s => t = s
    <3> HIDE DEF B
    <3> QED
      BY <1>2, <2>1, Smallest
  <2>3. s # {}
    BY <2>2, SumEmpty
  <2>4. IsFiniteSet(s)
    BY FS_Subset
  <2>5. SumOver(f, s) = f[Pick(s)] + SumOver(f, s \ {Pick(s)})
    BY <2>3, <2>4, SumPick
  <2>6. s \ {Pick(s)} \subseteq s /\ s \ {Pick(s)} # s /\ Pick(s) \in S
    BY <2>3, Picked
  <2>7. SumOver(f, s \ {Pick(s)}) = 0
    BY <2>2, <2>6
  <2> QED
    BY <2>2, <2>5, <2>6, <2>7
<1> QED
  BY <1>1, <1>2

\* One more at one element is one more in the sum.
LEMMA SumBump ==
    ASSUME NEW f, NEW g, NEW S, IsFiniteSet(S), NEW x \in S,
           \A y \in S: f[y] \in Nat,
           \A y \in S: g[y] = IF y = x THEN f[y] + 1 ELSE f[y]
    PROVE  SumOver(g, S) = SumOver(f, S) + 1
<1>1. IsFiniteSet(S \ {x})
  BY FS_Subset
<1>2. \A y \in S: g[y] \in Nat
  OBVIOUS
<1>3. SumOver(f, S) = f[x] + SumOver(f, S \ {x}) /\ SumOver(g, S) = g[x] + SumOver(g, S \ {x})
  BY <1>2, SumRemove
<1>4. SumOver(g, S \ {x}) = SumOver(f, S \ {x})
  BY <1>1, SumSame
<1>5. SumOver(f, S \ {x}) \in Nat
  BY <1>1, SumType
<1>6. g[x] = f[x] + 1 /\ f[x] \in Nat
  OBVIOUS
<1> QED
  BY <1>3, <1>4, <1>5, <1>6

\* A sum over fewer elements is no larger.
LEMMA SumMonotone ==
    ASSUME NEW f, NEW S, IsFiniteSet(S), \A x \in S: f[x] \in Nat, NEW T, T \subseteq S
    PROVE  SumOver(f, T) <= SumOver(f, S)
<1> DEFINE B == {s \in SUBSET S: T \subseteq s /\ ~(SumOver(f, T) <= SumOver(f, s))}
<1>1. CASE B = {}
  BY <1>1
<1>2. CASE B # {}
  <2>1. B \subseteq SUBSET S
    OBVIOUS
  <2>2. PICK s \in B: \A t \in B: t \subseteq s => t = s
    <3> HIDE DEF B
    <3> QED
      BY <1>2, <2>1, Smallest
  <2>3. T \subseteq s /\ s \subseteq S /\ ~(SumOver(f, T) <= SumOver(f, s))
    BY <2>2
  <2>4. /\ IsFiniteSet(s) /\ IsFiniteSet(T)
    BY <2>3, FS_Subset
  <2>5. SumOver(f, T) \in Nat
    BY <2>4, SumType
  <2>6. T # s
    BY <2>3, <2>5
  <2>7. PICK x \in s: x \notin T
    BY <2>3, <2>6
  <2>8. SumOver(f, s) = f[x] + SumOver(f, s \ {x})
    BY <2>3, <2>4, SumRemove
  <2>9. SumOver(f, s \ {x}) \in Nat /\ f[x] \in Nat
    <3>1. IsFiniteSet(s \ {x}) /\ s \ {x} \subseteq S
      BY <2>3, <2>4, FS_Subset
    <3> QED
      BY <2>3, <3>1, SumType
  <2>10. SumOver(f, T) <= SumOver(f, s \ {x})
    <3>1. s \ {x} \in SUBSET S /\ T \subseteq s \ {x} /\ s \ {x} \subseteq s /\ s \ {x} # s
      BY <2>3, <2>7
    <3> QED
      BY <2>2, <3>1
  <2> QED
    BY <2>3, <2>5, <2>8, <2>9, <2>10
<1> QED
  BY <1>1, <1>2

\* Elements that count nothing may be left out.
LEMMA SumWithout ==
    ASSUME NEW f, NEW S, IsFiniteSet(S), \A x \in S: f[x] \in Nat, NEW x \in S, f[x] = 0
    PROVE  SumOver(f, S) = SumOver(f, S \ {x})
<1>1. IsFiniteSet(S \ {x})
  BY FS_Subset
<1>2. SumOver(f, S \ {x}) \in Nat
  BY <1>1, SumType
<1> QED
  BY <1>2, SumRemove

\* Sets that differ by one element that counts nothing have the same sum.
LEMMA SumAside ==
    ASSUME NEW f, NEW S, NEW T, IsFiniteSet(S), IsFiniteSet(T), NEW x, S \ {x} = T \ {x},
           \A y \in S \cup T: f[y] \in Nat, f[x] = 0
    PROVE  SumOver(f, S) = SumOver(f, T)
<1>1. SumOver(f, S) = SumOver(f, S \ {x})
  <2>1. CASE x \in S
    BY <2>1, SumWithout
  <2>2. CASE x \notin S
    <3>1. S \ {x} = S
      BY <2>2
    <3> QED
      BY <3>1
  <2> QED
    BY <2>1, <2>2
<1>2. SumOver(f, T) = SumOver(f, T \ {x})
  <2>1. CASE x \in T
    BY <2>1, SumWithout
  <2>2. CASE x \notin T
    <3>1. T \ {x} = T
      BY <2>2
    <3> QED
      BY <3>1
  <2> QED
    BY <2>1, <2>2
<1> QED
  BY <1>1, <1>2
-----------------------------------------------------------------------------
(* Sums over the first ages of a window *)

LEMMA SumUpTo ==
    ASSUME NEW f, NEW n \in Nat, \A a \in 0 .. n: f[a] \in Nat
    PROVE  SumOver(f, 0 .. n) = f[n] + SumOver(f, 0 .. (n - 1))
<1>1. IsFiniteSet(0 .. n) /\ n \in 0 .. n
  BY FS_Interval
<1>2. (0 .. n) \ {n} = 0 .. (n - 1)
  OBVIOUS
<1>3. SumOver(f, 0 .. n) = f[n] + SumOver(f, (0 .. n) \ {n})
  BY <1>1, SumRemove
<1> QED
  BY <1>2, <1>3

\* Everything grows one older: what was counted at an age is counted at the next.
LEMMA SumShift ==
    ASSUME NEW f, NEW g, NEW n \in Nat,
           \A a \in 0 .. n: f[a] \in Nat,
           \A a \in 0 .. n: g[a] = IF a = 0 THEN 0 ELSE f[a - 1]
    PROVE  SumOver(g, 0 .. n) = SumOver(f, 0 .. (n - 1))
<1> DEFINE Shifted(k) == SumOver(g, 0 .. k) = SumOver(f, 0 .. (k - 1))
           B == {k \in 0 .. n: ~Shifted(k)}
<1>1. CASE B = {}
  BY <1>1
<1>2. CASE B # {}
  <2>1. B \subseteq Nat
    OBVIOUS
  <2>2. PICK k \in B: \A m \in B: k <= m
    <3> HIDE DEF B
    <3> QED
      BY <1>2, <2>1, Least
  <2>3. k \in 0 .. n /\ ~Shifted(k)
    BY <2>2
  <2>4. \A a \in 0 .. n: g[a] \in Nat
    OBVIOUS
  <2>5. SumOver(g, 0 .. k) = g[k] + SumOver(g, 0 .. (k - 1))
    BY <2>3, <2>4, SumUpTo
  <2>6. CASE k = 0
    <3>1. 0 .. (k - 1) = {}
      BY <2>6
    <3> QED
      BY <2>3, <2>5, <2>6, <3>1, SumEmpty
  <2>7. CASE k # 0
    <3>1. k - 1 \in 0 .. n /\ k - 1 \notin B
      BY <2>2, <2>3, <2>7
    <3>2. SumOver(g, 0 .. (k - 1)) = SumOver(f, 0 .. ((k - 1) - 1))
      BY <3>1
    <3>3. SumOver(f, 0 .. (k - 1)) = f[k - 1] + SumOver(f, 0 .. ((k - 1) - 1))
      BY <2>3, <3>1, SumUpTo
    <3>4. g[k] = f[k - 1]
      BY <2>3, <2>7
    <3> QED
      BY <2>3, <2>5, <3>2, <3>3, <3>4
  <2> QED
    BY <2>6, <2>7
<1> QED
  BY <1>1, <1>2
=============================================================================
