--------------------------- MODULE LeastElements ---------------------------
(***************************************************************************)
(* The well-ordering of the natural numbers, from which the proofs of this *)
(* project argue where a textbook would say "by induction": a statement    *)
(* that fails somewhere fails at a least number first.                     *)
(***************************************************************************)
EXTENDS Integers, FiniteSetTheorems, WellFoundedInduction, TLAPS

\* A non-empty set of naturals has a least element: the ordering by size is well
\* founded on every subset of Nat.  The searches of the code (the first valid head
\* of the ring, the first newline of a buffer) rest on it.
LEMMA LeastElement ==
    ASSUME NEW S \in SUBSET Nat, S # {}
    PROVE  \E x \in S : \A y \in S : x <= y
<1> DEFINE R == {ss \in Nat \X Nat : ss[1] < ss[2]}
<1>1. IsWellFoundedOn(R, Nat)
  BY NatLessThanWellFounded DEF OpToRel
<1>2. PICK x \in S : \A y \in S : ~(<<y, x>> \in R)
  BY <1>1, WFMin
<1>3. ASSUME NEW y \in S PROVE x <= y
  <2>1. x \in Nat /\ y \in Nat
    OBVIOUS
  <2>2. y < x => <<y, x>> \in R
    BY <2>1
  <2> QED
    BY <1>2, <2>1, <2>2
<1> QED
  BY <1>3

\* Induction up to n, on a set.
LEMMA UpTo ==
    ASSUME NEW n \in Nat, NEW S, 0 \in S, \A i \in 1 .. n : i - 1 \in S => i \in S
    PROVE  \A i \in 0 .. n : i \in S
<1> SUFFICES ASSUME NEW j \in 0 .. n, j \notin S PROVE FALSE
  OBVIOUS
<1> DEFINE T == {i \in 0 .. n : i \notin S}
<1>1. T \in SUBSET Nat /\ T # {}
  OBVIOUS
<1>2. PICK k \in T : \A i \in T : k <= i
  BY <1>1, LeastElement
<1>3. k \in 1 .. n /\ k - 1 \notin T
  BY <1>2
<1> QED
  BY <1>2, <1>3

\* f tells what repeated application of step makes of a: the values of a recursive
\* function of the models.
Repeats(f, n, a, step) == f[0] = a /\ \A i \in 1 .. n : f[i] = step[f[i - 1]]

\* There is such a function.
LEMMA Iterates ==
    ASSUME NEW n \in Nat, NEW D, NEW a \in D, NEW step \in [D -> D]
    PROVE  \E f \in [0 .. n -> D] : Repeats(f, n, a, step)
<1> DEFINE Is(m, f) == Repeats(f, m, a, step)
           S == {m \in 0 .. n : \E f \in [0 .. m -> D] : Is(m, f)}
<1>1. 0 \in S
  <2> DEFINE f == [i \in 0 .. 0 |-> a]
  <2>1. f \in [0 .. 0 -> D] /\ Is(0, f)
    BY DEF Repeats
  <2> HIDE DEF f, Is
  <2> QED
    BY <2>1
<1>2. ASSUME NEW m \in 1 .. n, m - 1 \in S PROVE m \in S
  <2>1. PICK f \in [0 .. m - 1 -> D] : Is(m - 1, f)
    BY <1>2
  <2> DEFINE g == [i \in 0 .. m |-> IF i = m THEN step[f[m - 1]] ELSE f[i]]
  <2>2. f[m - 1] \in D
    BY <1>2
  <2>3. g \in [0 .. m -> D]
    BY <2>2
  <2>4. \A i \in 1 .. m : g[i] = step[g[i - 1]]
    BY <2>1, <1>2 DEF Repeats
  <2>5. Is(m, g)
    BY <2>1, <2>4, <1>2 DEF Repeats
  <2> HIDE DEF g, Is
  <2> QED
    BY <2>3, <2>5, <1>2
<1> HIDE DEF S
<1>3. n \in S
  BY <1>1, <1>2, UpTo
<1> QED
  BY <1>3 DEF S

\* A set of numbers from 0 on without a gap is counted by the number after its last.
LEMMA CountPrefix ==
    ASSUME NEW n \in Nat, NEW S, \A i \in S : i \in 0 .. n,
           \A i \in 1 .. n : i \in S => i - 1 \in S
    PROVE  \E k \in 0 .. n + 1 : S = 0 .. k - 1 /\ Cardinality(S) = k
<1> DEFINE T == {i \in 0 .. n + 1 : i \notin S}
<1>1. T \in SUBSET Nat /\ n + 1 \in T
  OBVIOUS
<1>2. PICK k \in T : \A i \in T : k <= i
  BY <1>1, LeastElement
<1>3. k \in 0 .. n + 1
  BY <1>2
<1> DEFINE U == {i \in 0 .. n + 1 : i < k \/ i \notin S}
<1>4. \A i \in 0 .. n + 1 : i \in U
  <2>1. 0 \in U
    BY <1>2
  <2>2. ASSUME NEW i \in 1 .. n + 1, i - 1 \in U PROVE i \in U
    BY <2>2, <1>2, <1>3
  <2> HIDE DEF U
  <2>3. n + 1 \in Nat
    OBVIOUS
  <2> QED
    BY <2>1, <2>2, <2>3, UpTo
<1>5. S = 0 .. k - 1
  <2>1. ASSUME NEW i \in S PROVE i \in 0 .. k - 1
    BY <1>3, <1>4
  <2>2. ASSUME NEW i \in 0 .. k - 1 PROVE i \in S
    BY <1>2, <1>3
  <2> QED
    BY <2>1, <2>2
<1>6. Cardinality(0 .. k - 1) = k
  BY <1>3, FS_Interval
<1> QED
  BY <1>3, <1>5, <1>6

\* A non-empty set of naturals with a bound has a greatest element.
LEMMA GreatestElement ==
    ASSUME NEW S \in SUBSET Nat, S # {}, NEW n \in Nat, \A y \in S : y <= n
    PROVE  \E x \in S : \A y \in S : y <= x
<1> DEFINE T == {m \in 0 .. n : n - m \in S}
<1>1. T \in SUBSET Nat
  OBVIOUS
<1>2. \A y \in S : n - y \in T
  OBVIOUS
<1>3. T # {}
  BY <1>2
<1> HIDE DEF T
<1>4. PICK m \in T : \A k \in T : m <= k
  BY <1>1, <1>3, LeastElement
<1>5. n - m \in S /\ m \in 0 .. n
  BY <1>4 DEF T
<1>6. \A y \in S : y <= n - m
  BY <1>2, <1>4, <1>5
<1> QED
  BY <1>5, <1>6

=============================================================================
