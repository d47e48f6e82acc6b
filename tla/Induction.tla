----------------------------- MODULE Induction -----------------------------
(***************************************************************************)
(* Induction over the naturals for the proofs about OrderTotal and Money,  *)
(* stated with a set in place of a predicate, and what it gives at once:   *)
(* the recursions of those modules have a solution.                        *)
(***************************************************************************)
EXTENDS Integers, WellFoundedInduction, TLAPS

\* From WFMin: < is well founded.
LEMMA LeastElement ==
    ASSUME NEW T \in SUBSET Nat, T # {}
    PROVE  \E x \in T : \A y \in T : x <= y
  <1> DEFINE Less == {pair \in Nat \X Nat : pair[1] < pair[2]}
  <1>1. IsWellFoundedOn(Less, Nat)
    BY NatLessThanWellFounded DEF OpToRel
  <1>2. PICK x \in T : \A y \in T : <<y, x>> \notin Less
    BY <1>1, WFMin
  <1>3. ASSUME NEW y \in T, y < x PROVE FALSE
    <2>1. y \in Nat /\ x \in Nat
      OBVIOUS
    <2>2. <<y, x>> \in Nat \X Nat /\ <<y, x>>[1] < <<y, x>>[2]
      BY <1>3, <2>1
    <2> QED
      BY <2>2, <1>2
  <1> QED
    BY <1>3

LEMMA GreatestElement ==
    ASSUME NEW n \in Nat, NEW T \in SUBSET (0..n), T # {}
    PROVE  \E x \in T : \A y \in T : y <= x
  <1> DEFINE Gaps == {g \in Nat : n - g \in T}
  <1>1. Gaps \in SUBSET Nat /\ Gaps # {}
    <2>1. PICK x \in T : TRUE
      OBVIOUS
    <2>2. n - x \in Nat /\ n - (n - x) = x
      OBVIOUS
    <2>3. n - x \in Gaps
      BY <2>2
    <2> QED
      BY <2>3
  <1>2. PICK g \in Gaps : \A h \in Gaps : g <= h
    <2> HIDE DEF Gaps
    <2> QED
      BY <1>1, LeastElement
  <1>3. ASSUME NEW y \in T PROVE y <= n - g
    <2>1. n - y \in Nat /\ n - (n - y) = y
      OBVIOUS
    <2>2. n - y \in Gaps
      BY <2>1
    <2>3. g <= n - y /\ g \in Nat /\ y \in Int
      BY <1>2, <2>2
    <2> QED
      BY <2>3
  <1> QED
    BY <1>2, <1>3

\* A set that holds 0, and n + 1 whenever it holds n, holds every natural.
LEMMA Induction ==
    ASSUME NEW S, 0 \in S, \A n \in Nat : n \in S => n + 1 \in S
    PROVE  Nat \subseteq S
  <1> SUFFICES ASSUME Nat \ S # {} PROVE FALSE
    OBVIOUS
  <1>1. PICK n \in Nat \ S : \A m \in Nat \ S : n <= m
    BY LeastElement
  <1>2. n - 1 \in Nat /\ n - 1 \in S
    BY <1>1
  <1> QED
    BY <1>1, <1>2

\* The recursions of this project, sums (a = 1), numerals (a = 10) and powers
\* (b = 1), have a solution up to every n.
LEMMA LinearRecursion ==
    ASSUME NEW n \in Nat, NEW a \in Int, NEW b \in Int, NEW w \in [1..n -> Int]
    PROVE  \E p \in [0..n -> Int] :
               p[0] = b /\ \A k \in 1..n : p[k] = a * p[k - 1] + w[k]
  <1> DEFINE Solves(p, m) ==
                 p[0] = b /\ \A k \in 1..m : p[k] = a * p[k - 1] + w[k]
             S == {m \in Nat : m <= n => \E p \in [0..m -> Int] : Solves(p, m)}
  <1> HIDE DEF Solves
  <1>1. 0 \in S
    <2> DEFINE p == [k \in 0..0 |-> b]
    <2>1. p \in [0..0 -> Int] /\ Solves(p, 0)
      BY DEF Solves
    <2> QED
      BY <2>1
  <1>2. ASSUME NEW m \in Nat, m \in S PROVE m + 1 \in S
    <2> SUFFICES ASSUME m + 1 <= n
                 PROVE  \E p \in [0..(m + 1) -> Int] : Solves(p, m + 1)
      OBVIOUS
    <2>1. PICK q \in [0..m -> Int] : Solves(q, m)
      BY <1>2
    <2> DEFINE p == [k \in 0..(m + 1) |->
                        IF k <= m THEN q[k] ELSE a * q[m] + w[m + 1]]
    <2>2. p \in [0..(m + 1) -> Int]
      <3>1. q[m] \in Int /\ w[m + 1] \in Int /\ a * q[m] \in Int
        OBVIOUS
      <3> QED
        BY <3>1
    <2>3. p[0] = b
      BY <2>1 DEF Solves
    <2>4. ASSUME NEW k \in 1..(m + 1) PROVE p[k] = a * p[k - 1] + w[k]
      <3>1. CASE k = m + 1
        <4>1. p[m + 1] = a * q[m] + w[m + 1] /\ p[m] = q[m]
          OBVIOUS
        <4> QED
          BY <3>1, <4>1
      <3>2. CASE k <= m
        <4>1. k \in 1..m /\ p[k] = q[k] /\ p[k - 1] = q[k - 1]
          BY <3>2
        <4> QED
          BY <2>1, <4>1 DEF Solves
      <3> QED
        BY <3>1, <3>2
    <2>5. Solves(p, m + 1)
      BY <2>3, <2>4 DEF Solves
    <2> QED
      BY <2>2, <2>5
  <1>3. n \in S
    <2> HIDE DEF S
    <2> QED
      BY <1>1, <1>2, Induction
  <1>4. PICK p \in [0..n -> Int] : Solves(p, n)
    BY <1>3
  <1> QED
    BY <1>4 DEF Solves

\* A sum, term by term.
LEMMA SumRecursion ==
    ASSUME NEW n \in Nat, NEW w \in [1..n -> Int]
    PROVE  \E p \in [0..n -> Int] :
               p[0] = 0 /\ \A k \in 1..n : p[k] = p[k - 1] + w[k]
  <1> DEFINE one == 1
             zero == 0
  <1>1. one \in Int /\ zero \in Int
    OBVIOUS
  <1>2. PICK p \in [0..n -> Int] :
            p[0] = zero /\ \A k \in 1..n : p[k] = one * p[k - 1] + w[k]
    <2> HIDE DEF one, zero
    <2> QED
      BY <1>1, LinearRecursion
  <1>3. ASSUME NEW k \in 1..n PROVE p[k] = p[k - 1] + w[k]
    BY <1>2
  <1> QED
    BY <1>2, <1>3

\* Whatever adds integers up is an integer.
LEMMA SumIsInteger ==
    ASSUME NEW n \in Nat, NEW w \in [1..n -> Int], NEW f,
           f[0] = 0, \A k \in 1..n : f[k] = f[k - 1] + w[k]
    PROVE  \A k \in 0..n : f[k] \in Int
  <1> DEFINE S == {k \in Nat : k <= n => f[k] \in Int}
  <1>1. 0 \in S
    OBVIOUS
  <1>2. ASSUME NEW k \in Nat, k \in S PROVE k + 1 \in S
    BY <1>2
  <1>3. Nat \subseteq S
    <2> HIDE DEF S
    <2> QED
      BY <1>1, <1>2, Induction
  <1> SUFFICES ASSUME NEW k \in 0..n PROVE f[k] \in Int
    OBVIOUS
  <1>4. k \in S
    <2> HIDE DEF S
    <2> QED
      BY <1>3
  <1> QED
    BY <1>4

\* Numerals, read from the left.
LEMMA NumeralRecursion ==
    ASSUME NEW n \in Nat, NEW w \in [1..n -> Int]
    PROVE  \E p \in [0..n -> Int] :
               p[0] = 0 /\ \A k \in 1..n : p[k] = 10 * p[k - 1] + w[k]
  <1> DEFINE ten == 10
             zero == 0
  <1>1. ten \in Int /\ zero \in Int
    OBVIOUS
  <1>2. PICK p \in [0..n -> Int] :
            p[0] = zero /\ \A k \in 1..n : p[k] = ten * p[k - 1] + w[k]
    <2> HIDE DEF ten, zero
    <2> QED
      BY <1>1, LinearRecursion
  <1> QED
    BY <1>2

\* Powers, for every exponent: the solutions up to each n agree.
LEMMA PowerRecursion ==
    ASSUME NEW a \in Int
    PROVE  \E p \in [Nat -> Int] :
               p[0] = 1 /\ \A k \in Nat : p[k + 1] = a * p[k]
  <1> DEFINE Solves(p, n) == p[0] = 1 /\ \A k \in 1..n : p[k] = a * p[k - 1]
  <1> HIDE DEF Solves
  <1>1. ASSUME NEW n \in Nat PROVE \E p \in [0..n -> Int] : Solves(p, n)
    <2> DEFINE w == [k \in 1..n |-> 0]
               one == 1
    <2>1. w \in [1..n -> Int] /\ one \in Int
      OBVIOUS
    <2>2. PICK p \in [0..n -> Int] :
              p[0] = one /\ \A k \in 1..n : p[k] = a * p[k - 1] + w[k]
      <3> HIDE DEF w, one
      <3> QED
        BY <2>1, LinearRecursion
    <2>3. ASSUME NEW k \in 1..n PROVE p[k] = a * p[k - 1]
      <3>1. p[k - 1] \in Int /\ a * p[k - 1] \in Int
        OBVIOUS
      <3> QED
        BY <2>2, <3>1
    <2> QED
      BY <2>2, <2>3 DEF Solves
  <1> DEFINE upTo == [n \in Nat |-> CHOOSE p \in [0..n -> Int] : Solves(p, n)]
             power == [n \in Nat |-> upTo[n][n]]
  <1>2. ASSUME NEW n \in Nat
        PROVE  upTo[n] \in [0..n -> Int] /\ Solves(upTo[n], n)
    BY <1>1
  <1> HIDE DEF upTo
  <1>3. power \in [Nat -> Int]
    BY <1>2
  <1>4. power[0] = 1
    BY <1>2 DEF Solves
  <1>5. ASSUME NEW n \in Nat PROVE power[n + 1] = a * power[n]
    <2> DEFINE f == upTo[n]
               g == upTo[n + 1]
               S == {k \in Nat : k <= n => f[k] = g[k]}
    <2>1. Solves(f, n) /\ Solves(g, n + 1)
      BY <1>2
    <2> HIDE DEF f, g
    <2>2. 0 \in S
      BY <2>1 DEF Solves
    <2>3. ASSUME NEW k \in Nat, k \in S PROVE k + 1 \in S
      <3> SUFFICES ASSUME k + 1 <= n PROVE f[k + 1] = g[k + 1]
        OBVIOUS
      <3>1. f[k] = g[k] /\ (k + 1) - 1 = k /\ k + 1 \in 1..n /\ k + 1 \in 1..(n + 1)
        BY <2>3
      <3>2. f[k + 1] = a * f[k] /\ g[k + 1] = a * g[k]
        BY <2>1, <3>1 DEF Solves
      <3> QED
        BY <3>1, <3>2
    <2>4. f[n] = g[n]
      <3>1. n \in S
        <4> HIDE DEF S
        <4> QED
          BY <2>2, <2>3, Induction
      <3> QED
        BY <3>1
    <2>5. g[n + 1] = a * g[n]
      BY <2>1 DEF Solves
    <2> QED
      BY <2>4, <2>5 DEF f, g
  <1> QED
    BY <1>3, <1>4, <1>5

\* Quotient and remainder are unique, and exist.
LEMMA Remainder ==
    ASSUME NEW m \in Nat \ {0}, NEW q \in Int, NEW r \in 0..(m - 1)
    PROVE  (q * m + r) % m = r /\ (q * m + r) \div m = q
  OBVIOUS

LEMMA Division ==
    ASSUME NEW m \in Nat \ {0}, NEW x \in Int
    PROVE  /\ x \div m \in Int
           /\ x % m \in 0..(m - 1)
           /\ x = (x \div m) * m + (x % m)
  OBVIOUS
============================================================================
