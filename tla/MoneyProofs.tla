---------------------------- MODULE MoneyProofs ----------------------------
(***************************************************************************)
(* For every width of Money, every bound on its text and every request:    *)
(* decimal text is accepted and exact, what else is accepted, amounts are  *)
(* written in canonical form, and what String writes ParseMoney reads      *)
(* back.                                                                   *)
(***************************************************************************)
EXTENDS Money, Induction, SequenceTheorems, TLAPS

-----------------------------------------------------------------------------
(***************************************************************************)
(* Powers and digits.                                                      *)
(***************************************************************************)
\* Power10 is what its recursion says.
LEMMA Powers ==
    /\ Power10[0] = 1
    /\ \A n \in Nat : Power10[n] \in Nat \ {0} /\ Power10[n + 1] = 10 * Power10[n]
  <1> DEFINE Solves(f) ==
                 f = [n \in Nat |-> IF n = 0 THEN 1 ELSE 10 * f[n - 1]]
  <1>1. \E p : Solves(p)
    <2> DEFINE ten == 10
    <2>1. ten \in Int
      OBVIOUS
    <2>2. PICK p \in [Nat -> Int] :
              p[0] = 1 /\ \A k \in Nat : p[k + 1] = ten * p[k]
      <3> HIDE DEF ten
      <3> QED
        BY <2>1, PowerRecursion
    <2>3. ASSUME NEW n \in Nat \ {0} PROVE p[n] = 10 * p[n - 1]
      <3>1. n - 1 \in Nat /\ (n - 1) + 1 = n
        OBVIOUS
      <3> QED
        BY <2>2, <3>1
    <2>4. Solves(p)
      BY <2>2, <2>3
    <2> QED
      BY <2>4
  <1>2. Solves(Power10)
    <2>1. Power10 = CHOOSE f : Solves(f)
      BY DEF Power10
    <2> HIDE DEF Solves
    <2> QED
      BY <1>1, <2>1
  <1>3. Power10[0] = 1 /\ \A n \in Nat : Power10[n + 1] = 10 * Power10[n]
    BY <1>2
  <1> DEFINE S == {n \in Nat : Power10[n] \in Nat \ {0}}
  <1>4. 0 \in S
    BY <1>3
  <1>5. ASSUME NEW n \in Nat, n \in S PROVE n + 1 \in S
    BY <1>3, <1>5
  <1>6. Nat \subseteq S
    <2> HIDE DEF S
    <2> QED
      BY <1>4, <1>5, Induction
  <1> QED
    BY <1>3, <1>6

\* One digit more is ten times as much, at least.
LEMMA PowersGrow ==
    ASSUME NEW m \in Nat, NEW n \in Nat, m < n
    PROVE  10 * Power10[m] <= Power10[n]
  <1> DEFINE S == {k \in Nat : 10 * Power10[m] <= Power10[m + 1 + k]}
  <1>1. 0 \in S
    BY Powers
  <1>2. ASSUME NEW k \in Nat, k \in S PROVE k + 1 \in S
    <2>1. Power10[m + 1 + (k + 1)] = 10 * Power10[m + 1 + k]
      <3>1. m + 1 + (k + 1) = (m + 1 + k) + 1 /\ m + 1 + k \in Nat
        OBVIOUS
      <3> QED
        BY <3>1, Powers
    <2>2. Power10[m + 1 + k] \in Nat /\ Power10[m] \in Nat
      BY Powers
    <2> QED
      BY <1>2, <2>1, <2>2
  <1>3. n - m - 1 \in S
    <2>1. n - m - 1 \in Nat
      OBVIOUS
    <2> HIDE DEF S
    <2> QED
      BY <1>1, <1>2, <2>1, Induction
  <1>4. m + 1 + (n - m - 1) = n
    OBVIOUS
  <1> QED
    BY <1>3, <1>4

\* Power10 is monotonic.
LEMMA PowersNeverShrink ==
    ASSUME NEW m \in Nat, NEW n \in Nat, m <= n
    PROVE  Power10[m] <= Power10[n]
  <1>1. Power10[m] \in Nat /\ Power10[n] \in Nat
    BY Powers
  <1>2. CASE m = n
    BY <1>1, <1>2
  <1>3. CASE m < n
    <2>1. 10 * Power10[m] <= Power10[n]
      BY <1>3, PowersGrow
    <2> QED
      BY <1>1, <2>1
  <1> QED
    BY <1>2, <1>3

\* The powers of a minor part.
LEMMA SmallPowers == Power10[0] = 1 /\ Power10[1] = 10 /\ Power10[2] = 100
  <1>1. \A m, n \in Nat : n = m + 1 => Power10[n] = 10 * Power10[m]
    BY Powers
  <1>2. Power10[0] = 1
    BY Powers
  <1>3. Power10[1] = 10 * Power10[0]
    <2>1. 0 \in Nat /\ 1 \in Nat /\ 1 = 0 + 1
      OBVIOUS
    <2> QED
      BY <1>1, <2>1
  <1>4. Power10[2] = 10 * Power10[1]
    <2>1. 1 \in Nat /\ 2 \in Nat /\ 2 = 1 + 1
      OBVIOUS
    <2> QED
      BY <1>1, <2>1
  <1> QED
    BY <1>2, <1>3, <1>4

\* Counting in minor units takes two more digits.
LEMMA TwoMoreDigits == \A n \in Nat : Power10[n + 2] = 100 * Power10[n]
  <1> SUFFICES ASSUME NEW n \in Nat PROVE Power10[n + 2] = 100 * Power10[n]
    OBVIOUS
  <1>1. n + 1 \in Nat /\ (n + 1) + 1 = n + 2
    OBVIOUS
  <1>2. Power10[n + 1] = 10 * Power10[n] /\ Power10[n] \in Nat
    BY Powers
  <1>3. Power10[n + 2] = 10 * Power10[n + 1]
    BY <1>1, Powers
  <1> QED
    BY <1>2, <1>3

\* Decimal finds a length: n digits are enough for n.
LEMMA PowerExceeds == \A n \in Nat : n < Power10[n]
  <1> DEFINE S == {n \in Nat : n < Power10[n]}
  <1>1. 0 \in S
    BY Powers
  <1>2. ASSUME NEW n \in Nat, n \in S PROVE n + 1 \in S
    BY <1>2, Powers
  <1>3. Nat \subseteq S
    <2> HIDE DEF S
    <2> QED
      BY <1>1, <1>2, Induction
  <1> QED
    BY <1>3

\* Digits are told apart, and each is worth its position.
LEMMA DigitValues ==
    /\ ToSet(Digits) = {"0", "1", "2", "3", "4", "5", "6", "7", "8", "9"}
    /\ \A n \in 0..9 : Digits[n + 1] \in ToSet(Digits)
                       /\ DigitValue[Digits[n + 1]] = n
    /\ \A d \in ToSet(Digits) : DigitValue[d] \in 0..9
  <1>1. DOMAIN Digits = 1..10
    BY DEF Digits
  <1>2. ASSUME NEW n \in 0..9, NEW m \in 0..9, Digits[n + 1] = Digits[m + 1]
        PROVE  n = m
    BY <1>2 DEF Digits
  <1>3. ASSUME NEW n \in 0..9
        PROVE  Digits[n + 1] \in ToSet(Digits) /\ DigitValue[Digits[n + 1]] = n
    <2>1. Digits[n + 1] \in ToSet(Digits)
      BY <1>1 DEF ToSet
    <2>2. DigitValue[Digits[n + 1]] =
              CHOOSE m \in 0..9 : Digits[m + 1] = Digits[n + 1]
      BY <2>1 DEF DigitValue
    <2> QED
      BY <1>2, <2>1, <2>2
  <1>4. ASSUME NEW d \in ToSet(Digits) PROVE DigitValue[d] \in 0..9
    <2>1. PICK i \in 1..10 : d = Digits[i]
      BY <1>1 DEF ToSet
    <2>2. i - 1 \in 0..9 /\ d = Digits[(i - 1) + 1]
      BY <2>1
    <2> QED
      BY <1>3, <2>2
  <1>5. ToSet(Digits) = {"0", "1", "2", "3", "4", "5", "6", "7", "8", "9"}
    BY <1>1 DEF ToSet, Digits
  <1> QED
    BY <1>3, <1>4, <1>5

-----------------------------------------------------------------------------
(***************************************************************************)
(* Numerals.                                                               *)
(***************************************************************************)
\* A sequence of digits, perhaps empty.
Numeral(s) == s \in Seq(ToSet(Digits))

\* The characters of a numeral are digits.
LEMMA NumeralDigits ==
    ASSUME NEW s, Numeral(s)
    PROVE  /\ Len(s) \in Nat /\ DOMAIN s = 1..Len(s)
           /\ \A i \in 1..Len(s) : s[i] \in ToSet(Digits) /\ DigitValue[s[i]] \in 0..9
  BY DigitValues DEF Numeral

\* What ParseInt computes.
LEMMA ParseIntRecursion ==
    ASSUME NEW s, Numeral(s)
    PROVE  \E v \in [0..Len(s) -> Nat] :
               /\ v[0] = 0
               /\ \A i \in 1..Len(s) : v[i] = 10 * v[i - 1] + DigitValue[s[i]]
               /\ ParseInt(s) = v[Len(s)]
  <1> DEFINE N == Len(s)
             w == [i \in 1..N |-> DigitValue[s[i]]]
             Solves(f) ==
                 f = [i \in 0..N |->
                        IF i = 0 THEN 0 ELSE 10 * f[i - 1] + DigitValue[s[i]]]
             v == CHOOSE f : Solves(f)
  <1>1. N \in Nat /\ w \in [1..N -> 0..9]
    BY NumeralDigits
  <1>2. \E f : Solves(f)
    <2>1. PICK p \in [0..N -> Int] :
              p[0] = 0 /\ \A i \in 1..N : p[i] = 10 * p[i - 1] + w[i]
      <3>1. w \in [1..N -> Int]
        BY <1>1
      <3> HIDE DEF w, N
      <3> QED
        BY <1>1, <3>1, NumeralRecursion
    <2>2. Solves(p)
      BY <1>1, <2>1
    <2> QED
      BY <2>2
  <1>3. Solves(v)
    <2> HIDE DEF Solves
    <2> QED
      BY <1>2
  <1> HIDE DEF v
  <1>4. v[0] = 0 /\ \A i \in 1..N : v[i] = 10 * v[i - 1] + DigitValue[s[i]]
    BY <1>1, <1>3
  <1>5. \A i \in 0..N : v[i] \in Nat
    <2> DEFINE S == {i \in Nat : i <= N => v[i] \in Nat}
    <2>1. 0 \in S
      BY <1>4
    <2>2. ASSUME NEW i \in Nat, i \in S PROVE i + 1 \in S
      <3> SUFFICES ASSUME i + 1 <= N PROVE v[i + 1] \in Nat
        OBVIOUS
      <3>1. v[i] \in Nat /\ v[i + 1] = 10 * v[i] + DigitValue[s[i + 1]]
        BY <1>1, <1>4, <2>2
      <3>2. DigitValue[s[i + 1]] \in Nat
        <4>1. i + 1 \in 1..Len(s)
          OBVIOUS
        <4> QED
          BY <4>1, NumeralDigits
      <3> HIDE DEF Solves
      <3>3. 10 * v[i] + DigitValue[s[i + 1]] \in Nat
        BY <3>1, <3>2
      <3> QED
        BY <3>1, <3>3
    <2>3. Nat \subseteq S
      <3> HIDE DEF S
      <3> QED
        BY <2>1, <2>2, Induction
    <2> QED
      BY <1>1, <2>3
  <1>6. v \in [0..N -> Nat]
    BY <1>3, <1>5
  <1>7. ParseInt(s) = v[N]
    BY DEF ParseInt, v
  <1> QED
    BY <1>4, <1>6, <1>7

\* What Weigh computes.
LEMMA WeighRecursion ==
    ASSUME NEW s, Numeral(s)
    PROVE  \E v \in [0..Len(s) -> Int] :
               /\ v[0] = 0
               /\ \A i \in 1..Len(s) :
                      v[i] = v[i - 1] + DigitValue[s[i]] * Power10[Len(s) - i]
               /\ Weigh(s) = v[Len(s)]
  <1> DEFINE N == Len(s)
             w == [i \in 1..N |-> DigitValue[s[i]] * Power10[N - i]]
             Solves(f) ==
                 f = [i \in 0..N |->
                        IF i = 0 THEN 0
                        ELSE f[i - 1] + DigitValue[s[i]] * Power10[N - i]]
             v == CHOOSE f : Solves(f)
  <1>1. N \in Nat
    BY NumeralDigits
  <1>2. w \in [1..N -> Int]
    <2>1. ASSUME NEW i \in 1..N PROVE DigitValue[s[i]] * Power10[N - i] \in Int
      <3>1. DigitValue[s[i]] \in Int
        BY NumeralDigits
      <3>2. N - i \in Nat
        BY <1>1
      <3>3. Power10[N - i] \in Nat
        <4> HIDE DEF N
        <4> QED
          BY <3>2, Powers
      <3> QED
        BY <3>1, <3>3
    <2> QED
      BY <2>1
  <1>3. \E f : Solves(f)
    <2>1. PICK p \in [0..N -> Int] :
              p[0] = 0 /\ \A i \in 1..N : p[i] = p[i - 1] + w[i]
      <3> HIDE DEF w, N
      <3> QED
        BY <1>1, <1>2, SumRecursion
    <2>2. Solves(p)
      BY <1>1, <2>1
    <2> QED
      BY <2>2
  <1>4. Solves(v)
    <2> HIDE DEF Solves
    <2> QED
      BY <1>3
  <1> HIDE DEF v
  <1>5. v[0] = 0
        /\ \A i \in 1..N : v[i] = v[i - 1] + DigitValue[s[i]] * Power10[N - i]
    <2>1. v[0] = 0
      BY <1>1, <1>4
    <2>2. ASSUME NEW i \in 1..N
          PROVE  v[i] = v[i - 1] + DigitValue[s[i]] * Power10[N - i]
      <3>1. i \in 0..N /\ i # 0
        BY <1>1
      <3> QED
        BY <1>4, <3>1
    <2> QED
      BY <2>1, <2>2
  <1>6. \A i \in 0..N : v[i] \in Int
    <2>1. \A i \in 1..N : v[i] = v[i - 1] + w[i]
      BY <1>5
    <2> HIDE DEF w, N
    <2> QED
      BY <1>1, <1>2, <1>5, <2>1, SumIsInteger
  <1>7. v \in [0..N -> Int]
    BY <1>4, <1>6
  <1>8. Weigh(s) = v[N]
    BY DEF Weigh, v
  <1> QED
    BY <1>5, <1>7, <1>8

\* Reading from the left is weighing the digits; n digits are worth less than
\* 10^n.
LEMMA ParseIntWeighs ==
    ASSUME NEW s, Numeral(s)
    PROVE  Weigh(s) = ParseInt(s) /\ ParseInt(s) \in 0..(Power10[Len(s)] - 1)
  <1> DEFINE N == Len(s)
  <1>1. PICK v \in [0..N -> Nat] :
            /\ v[0] = 0
            /\ \A i \in 1..N : v[i] = 10 * v[i - 1] + DigitValue[s[i]]
            /\ ParseInt(s) = v[N]
    BY ParseIntRecursion
  <1>2. PICK w \in [0..N -> Int] :
            /\ w[0] = 0
            /\ \A i \in 1..N : w[i] = w[i - 1] + DigitValue[s[i]] * Power10[N - i]
            /\ Weigh(s) = w[N]
    BY WeighRecursion
  <1>3. N \in Nat
    BY NumeralDigits
  <1> DEFINE S == {i \in Nat : i <= N => /\ w[i] = v[i] * Power10[N - i]
                                         /\ v[i] < Power10[i]}
  <1>4. 0 \in S
    <2>1. Power10[N] \in Nat
      <3> HIDE DEF N
      <3> QED
        BY <1>3, Powers
    <2>2. v[0] * Power10[N - 0] = 0
      <3>1. N - 0 = N
        BY <1>3
      <3> QED
        BY <1>1, <2>1, <3>1
    <2>3. v[0] < Power10[0]
      BY <1>1, Powers
    <2> QED
      BY <1>1, <1>2, <2>2, <2>3
  <1>5. ASSUME NEW i \in Nat, i \in S PROVE i + 1 \in S
    <2> SUFFICES ASSUME i + 1 <= N
                 PROVE  /\ w[i + 1] = v[i + 1] * Power10[N - (i + 1)]
                        /\ v[i + 1] < Power10[i + 1]
      OBVIOUS
    <2> DEFINE d == DigitValue[s[i + 1]]
               p == Power10[N - (i + 1)]
    <2>1. i + 1 \in 1..N /\ (i + 1) - 1 = i /\ N - (i + 1) \in Nat
      BY <1>3
    <2>2. d \in 0..9 /\ p \in Nat /\ Power10[N - i] = 10 * p
      <3>1. N - i = (N - (i + 1)) + 1
        BY <1>3
      <3> QED
        BY <2>1, <3>1, NumeralDigits, Powers
    <2>3. w[i] = v[i] * (10 * p) /\ v[i] < Power10[i] /\ v[i] \in Nat
      BY <1>5, <2>1, <2>2
    <2>4. w[i + 1] = w[i] + d * p /\ v[i + 1] = 10 * v[i] + d
      BY <1>1, <1>2, <2>1
    <2>5. Power10[i] \in Nat /\ Power10[i + 1] = 10 * Power10[i]
      BY Powers
    <2> HIDE DEF d, p
    <2>6. v[i + 1] < Power10[i + 1]
      BY <2>2, <2>3, <2>4, <2>5
    <2>7. w[i + 1] = v[i + 1] * p
      BY <2>2, <2>3, <2>4
    <2> QED
      BY <2>6, <2>7 DEF p
  <1>6. N \in S
    <2> HIDE DEF S, N
    <2> QED
      BY <1>3, <1>4, <1>5, Induction
  <1>7. w[N] = v[N] * Power10[N - N] /\ v[N] < Power10[N]
    BY <1>3, <1>6
  <1>8. w[N] = v[N] /\ v[N] \in Nat
    <2>1. N - N = 0 /\ v[N] \in Nat
      BY <1>3
    <2>2. w[N] = v[N] * 1
      BY <1>7, <2>1, Powers
    <2> QED
      BY <2>1, <2>2
  <1>9. Power10[N] \in Nat
    BY <1>3, Powers
  <1> QED
    BY <1>1, <1>2, <1>7, <1>8, <1>9

\* Dividing by ten less leaves one more digit.
LEMMA NextDigit ==
    ASSUME NEW n \in Nat, NEW p \in Nat \ {0}
    PROVE  /\ n \div p \in Nat
           /\ n \div p = 10 * (n \div (10 * p)) + ((n \div p) % 10)
  <1> DEFINE q == n \div p
             r == n % p
             a == q \div 10
             b == q % 10
  <1>1. q \in Int /\ r \in 0..(p - 1) /\ n = q * p + r
    BY Division
  <1>2. q \in Nat
    <2> HIDE DEF q, r
    <2>1. SUFFICES ASSUME q < 0 PROVE FALSE
      BY <1>1
    <2>2. q * p <= -p
      BY <1>1, <2>1
    <2> QED
      BY <1>1, <2>2
  <1>3. a \in Int /\ b \in 0..9 /\ q = a * 10 + b
    <2> HIDE DEF q
    <2> QED
      BY <1>2
  <1>4. n = a * (10 * p) + (b * p + r) /\ b * p + r \in 0..(10 * p - 1)
    <2> HIDE DEF q, r, a, b
    <2>1. q * p = a * (10 * p) + b * p
      BY <1>1, <1>3
    <2>2. b * p \in Nat /\ b * p <= 9 * p
      BY <1>3
    <2>3. a * (10 * p) \in Int
      BY <1>3
    <2> QED
      BY <1>1, <2>1, <2>2, <2>3
  <1>5. n \div (10 * p) = a
    <2> DEFINE m == 10 * p
               rest == b * p + r
    <2>1. m \in Nat \ {0} /\ rest \in 0..(m - 1) /\ n = a * m + rest
      BY <1>4
    <2> HIDE DEF m, rest, a
    <2>2. n \div m = a
      BY <1>3, <2>1, Remainder
    <2> QED
      BY <2>2 DEF m
  <1> QED
    BY <1>2, <1>3, <1>5

\* Decimal uses no more digits than it needs, but at least width.
LEMMA DecimalLength ==
    ASSUME NEW n \in Nat, NEW width \in Nat \ {0}
    PROVE  \E length \in Nat :
               /\ length >= width
               /\ n < Power10[length]
               /\ length = width \/ n >= Power10[length - 1]
               /\ Decimal(n, width) =
                      [i \in 1..length |->
                          Digits[1 + ((n \div Power10[length - i]) % 10)]]
  <1> DEFINE Enough == {w \in Nat : w >= width /\ n < Power10[w]}
             Fits(w) == n < Power10[w] /\ (w = width \/ n >= Power10[w - 1])
  <1>1. width + n \in Enough
    <2>1. width + n < Power10[width + n]
      BY PowerExceeds
    <2>2. Power10[width + n] \in Nat
      BY Powers
    <2> QED
      BY <2>1, <2>2
  <1>2. PICK least \in Enough : \A w \in Enough : least <= w
    <2> HIDE DEF Enough
    <2>1. Enough \in SUBSET Nat /\ Enough # {}
      BY <1>1 DEF Enough
    <2> QED
      BY <2>1, LeastElement
  <1>3. least \in width..(width + n) /\ Fits(least)
    <2>1. least <= width + n /\ least >= width /\ n < Power10[least]
      BY <1>1, <1>2
    <2>2. CASE least > width
      <3>1. least - 1 \in Nat /\ least - 1 >= width /\ least - 1 \notin Enough
        BY <1>2, <2>2
      <3>2. Power10[least - 1] \in Nat
        BY <3>1, Powers
      <3> QED
        BY <2>1, <3>1, <3>2
    <2> QED
      BY <2>1, <2>2
  <1> DEFINE length == CHOOSE w \in width..(width + n) : Fits(w)
  <1>4. length \in width..(width + n) /\ Fits(length)
    <2> HIDE DEF Fits
    <2> QED
      BY <1>3
  <1>5. Decimal(n, width) =
            [i \in 1..length |-> Digits[1 + ((n \div Power10[length - i]) % 10)]]
    BY DEF Decimal
  <1> HIDE DEF length
  <1> QED
    BY <1>4, <1>5

\* What Decimal writes is a numeral, without a superfluous zero, that is worth
\* what was written.
LEMMA DecimalIsNumeral ==
    ASSUME NEW n \in Nat, NEW width \in Nat \ {0}
    PROVE  LET d == Decimal(n, width)
           IN  /\ Numeral(d)
               /\ Len(d) >= width
               /\ n < Power10[Len(d)]
               /\ Len(d) = width \/ n >= Power10[Len(d) - 1]
               /\ ParseInt(d) = n
  <1> DEFINE d == Decimal(n, width)
  <1>1. PICK length \in Nat :
            /\ length >= width
            /\ n < Power10[length]
            /\ length = width \/ n >= Power10[length - 1]
            /\ d = [i \in 1..length |->
                       Digits[1 + ((n \div Power10[length - i]) % 10)]]
    BY DecimalLength
  <1> DEFINE cut == [i \in 0..length |-> n \div Power10[length - i]]
  <1>2. ASSUME NEW i \in 1..length
        PROVE  /\ cut[i] \in Nat
               /\ cut[i] = 10 * cut[i - 1] + (cut[i] % 10)
    <2> DEFINE p == Power10[length - i]
    <2>1. length - i \in Nat /\ length - (i - 1) = (length - i) + 1
      BY <1>1
    <2>2. p \in Nat \ {0} /\ Power10[length - (i - 1)] = 10 * p
      BY <2>1, Powers
    <2>3. cut[i] = n \div p /\ cut[i - 1] = n \div (10 * p)
      BY <2>2
    <2> HIDE DEF p, cut
    <2> QED
      BY <2>2, <2>3, NextDigit
  <1>3. cut[0] = 0
    <2> DEFINE p == Power10[length]
               zero == 0
    <2>1. p \in Nat \ {0}
      BY Powers
    <2>2. n \in 0..(p - 1) /\ n = zero * p + n /\ zero \in Int
      BY <1>1, <2>1
    <2>3. n \div p = zero
      <3> HIDE DEF p, zero
      <3> QED
        BY <2>1, <2>2, Remainder
    <2>4. cut[0] = n \div p
      BY <1>1
    <2> QED
      BY <2>3, <2>4
  <1>4. cut[length] = n
    <2> DEFINE one == 1
               zero == 0
    <2>1. one \in Nat \ {0} /\ zero \in 0..(one - 1) /\ n = n * one + zero
      OBVIOUS
    <2>2. n \div one = n
      <3> HIDE DEF one, zero
      <3> QED
        BY <2>1, Remainder
    <2>3. length - length = 0
      OBVIOUS
    <2>4. cut[length] = n \div Power10[0]
      BY <2>3
    <2> HIDE DEF cut
    <2> QED
      BY <2>2, <2>4, Powers
  <1>5. ASSUME NEW i \in 1..length
        PROVE  d[i] \in ToSet(Digits) /\ DigitValue[d[i]] = cut[i] % 10
    <2>1. d[i] = Digits[1 + (cut[i] % 10)]
      BY <1>1
    <2>2. cut[i] % 10 \in 0..9
      <3>1. \A k \in Nat : k % 10 \in 0..9
        OBVIOUS
      <3>2. cut[i] \in Nat
        BY <1>2
      <3> HIDE DEF cut
      <3> QED
        BY <3>1, <3>2
    <2> HIDE DEF cut, d
    <2> DEFINE k == cut[i] % 10
    <2>3. d[i] = Digits[k + 1] /\ k \in 0..9
      BY <2>1, <2>2
    <2> HIDE DEF k
    <2>4. d[i] \in ToSet(Digits) /\ DigitValue[d[i]] = k
      BY <2>3, DigitValues
    <2> QED
      BY <2>4 DEF k
  <1>6. Numeral(d) /\ Len(d) = length
    <2>1. d \in [1..length -> ToSet(Digits)]
      <3> DEFINE e == [i \in 1..length |->
                          Digits[1 + ((n \div Power10[length - i]) % 10)]]
      <3>1. d = e /\ DOMAIN e = 1..length /\ e = [i \in 1..length |-> e[i]]
        BY <1>1
      <3> HIDE DEF d, e
      <3> QED
        BY <1>5, <3>1
    <2> HIDE DEF d
    <2> QED
      BY <2>1 DEF Numeral
  <1>7. ParseInt(d) = n
    <2>1. PICK v \in [0..length -> Nat] :
              /\ v[0] = 0
              /\ \A i \in 1..length : v[i] = 10 * v[i - 1] + DigitValue[d[i]]
              /\ ParseInt(d) = v[length]
      BY <1>6, ParseIntRecursion
    <2> DEFINE S == {i \in Nat : i <= length => v[i] = cut[i]}
    <2> HIDE DEF cut, d
    <2>2. 0 \in S
      BY <1>3, <2>1
    <2>3. ASSUME NEW i \in Nat, i \in S PROVE i + 1 \in S
      <3> SUFFICES ASSUME i + 1 <= length PROVE v[i + 1] = cut[i + 1]
        OBVIOUS
      <3>1. i + 1 \in 1..length /\ (i + 1) - 1 = i /\ v[i] = cut[i]
        BY <2>3
      <3>2. v[i + 1] = 10 * v[i] + DigitValue[d[i + 1]]
        BY <2>1, <3>1
      <3>3. cut[i + 1] = 10 * cut[i] + DigitValue[d[i + 1]]
        BY <1>2, <1>5, <3>1
      <3> QED
        BY <3>1, <3>2, <3>3
    <2>4. length \in S
      <3> HIDE DEF S
      <3> QED
        BY <2>2, <2>3, Induction
    <2> QED
      BY <1>4, <2>1, <2>4
  <1> HIDE DEF d
  <1>8. /\ Numeral(d)
        /\ Len(d) >= width
        /\ n < Power10[Len(d)]
        /\ Len(d) = width \/ n >= Power10[Len(d) - 1]
        /\ ParseInt(d) = n
    BY <1>1, <1>6, <1>7
  <1> QED
    BY <1>8 DEF d

\* Zeros behind a numeral of at most two digits shift it.
LEMMA PaddingShifts ==
    ASSUME NEW s, Numeral(s), Len(s) <= 2
    PROVE  LET padded == s \o [i \in 1..(2 - Len(s)) |-> "0"]
           IN  /\ Numeral(padded)
               /\ Len(padded) = 2
               /\ ParseInt(padded) = ParseInt(s) * Power10[2 - Len(s)]
  <1> DEFINE N == Len(s)
             zeros == [i \in 1..(2 - N) |-> "0"]
             padded == s \o zeros
  <1>1. N \in 0..2 /\ s \in Seq(ToSet(Digits))
    <2>1. N \in Nat /\ N <= 2
      BY NumeralDigits
    <2>2. N \in 0..2
      <3> HIDE DEF N
      <3> QED
        BY <2>1
    <2>3. s \in Seq(ToSet(Digits))
      BY DEF Numeral
    <2> QED
      BY <2>2, <2>3
  <1>2. "0" \in ToSet(Digits) /\ DigitValue["0"] = 0
    <2>1. Digits[0 + 1] = "0" /\ 0 \in 0..9
      BY DEF Digits
    <2> QED
      BY <2>1, DigitValues
  <1>3. zeros \in Seq(ToSet(Digits)) /\ Len(zeros) = 2 - N
    <2>1. 2 - N \in Nat
      BY <1>1
    <2>2. zeros \in [1..(2 - N) -> ToSet(Digits)]
      BY <1>2
    <2> HIDE DEF zeros, N
    <2> QED
      BY <2>1, <2>2
  <1>4. /\ padded \in Seq(ToSet(Digits))
        /\ Len(padded) = 2
        /\ \A i \in 1..N : padded[i] = s[i]
        /\ \A i \in (N + 1)..2 : padded[i] = "0"
    <2>1. /\ padded \in Seq(ToSet(Digits))
          /\ Len(padded) = N + (2 - N)
          /\ \A i \in 1..(N + (2 - N)) :
                 padded[i] = IF i <= N THEN s[i] ELSE zeros[i - N]
      <3> HIDE DEF zeros
      <3> QED
        BY <1>1, <1>3, ConcatProperties
    <2>2. \A i \in (N + 1)..2 : i - N \in 1..(2 - N)
      BY <1>1
    <2> HIDE DEF padded
    <2> QED
      BY <1>1, <2>1, <2>2
  <1> HIDE DEF padded
  <1>5. PICK v \in [0..2 -> Nat] :
            /\ v[0] = 0
            /\ \A i \in 1..2 : v[i] = 10 * v[i - 1] + DigitValue[padded[i]]
            /\ ParseInt(padded) = v[2]
    <2>1. Numeral(padded)
      BY <1>4 DEF Numeral
    <2>2. PICK v \in [0..Len(padded) -> Nat] :
              /\ v[0] = 0
              /\ \A i \in 1..Len(padded) :
                     v[i] = 10 * v[i - 1] + DigitValue[padded[i]]
              /\ ParseInt(padded) = v[Len(padded)]
      BY <2>1, ParseIntRecursion
    <2>3. Len(padded) = 2
      BY <1>4
    <2> QED
      BY <2>2, <2>3
  <1>6. PICK w \in [0..N -> Nat] :
            /\ w[0] = 0
            /\ \A i \in 1..N : w[i] = 10 * w[i - 1] + DigitValue[s[i]]
            /\ ParseInt(s) = w[N]
    BY ParseIntRecursion
  <1>7. Power10[0] = 1 /\ Power10[1] = 10 /\ Power10[2] = 100
    BY SmallPowers
  <1>8. /\ v[1] = 10 * v[0] + DigitValue[padded[1]]
        /\ v[2] = 10 * v[1] + DigitValue[padded[2]]
    BY <1>5
  <1>9. ParseInt(padded) = ParseInt(s) * Power10[2 - N]
    <2>1. CASE N = 0
      <3>1. padded[1] = "0" /\ padded[2] = "0" /\ ParseInt(s) = 0
        BY <1>4, <1>6, <2>1
      <3>2. v[2] = 0 /\ 0 * Power10[2] = 0
        BY <1>2, <1>5, <1>7, <1>8, <3>1
      <3> QED
        BY <1>5, <2>1, <3>1, <3>2
    <2>2. CASE N = 1
      <3>1. padded[1] = s[1] /\ padded[2] = "0"
        BY <1>4, <2>2
      <3>2. ParseInt(s) = w[1] /\ w[1] = 10 * w[0] + DigitValue[s[1]]
        BY <1>6, <2>2
      <3>3. v[1] = w[1] /\ v[2] = 10 * v[1] /\ w[1] \in Nat
        BY <1>2, <1>5, <1>6, <1>8, <2>2, <3>1, <3>2
      <3> QED
        BY <1>5, <1>7, <2>2, <3>2, <3>3
    <2>3. CASE N = 2
      <3>1. padded[1] = s[1] /\ padded[2] = s[2]
        BY <1>4, <2>3
      <3>2. /\ ParseInt(s) = w[2]
            /\ w[1] = 10 * w[0] + DigitValue[s[1]]
            /\ w[2] = 10 * w[1] + DigitValue[s[2]]
        BY <1>6, <2>3
      <3>3. v[2] = w[2] /\ w[2] \in Nat
        BY <1>5, <1>6, <1>8, <2>3, <3>1, <3>2
      <3> QED
        BY <1>5, <1>7, <2>3, <3>2, <3>3
    <2> QED
      BY <1>1, <2>1, <2>2, <2>3
  <1>10. Numeral(padded) /\ Len(padded) = 2
    BY <1>4 DEF Numeral
  <1> QED
    BY <1>9, <1>10 DEF padded

-----------------------------------------------------------------------------
(***************************************************************************)
(* Text.                                                                   *)
(***************************************************************************)
\* A numeral has no point, no sign and no white space in it.
LEMMA NumeralIsText ==
    ASSUME NEW s, Numeral(s)
    PROVE  /\ s \in Seq(Characters)
           /\ \A i \in 1..Len(s) : s[i] \notin {".", "+", "-", "s"}
  <1>1. ToSet(Digits) \subseteq Characters
    BY DEF Characters
  <1>2. \A d \in ToSet(Digits) : d \notin {".", "+", "-", "s"}
    BY DigitValues
  <1>3. s \in Seq(Characters)
    BY <1>1, SeqMonotonic DEF Numeral
  <1> QED
    BY <1>2, <1>3, NumeralDigits

\* strings.Cut: where the first dot is.
LEMMA FirstDot ==
    ASSUME NEW s \in Seq(Characters), NEW k \in 1..Len(s),
           s[k] = ".", \A i \in 1..(k - 1) : s[i] # "."
    PROVE  Dot(s) = k
  <1> DEFINE I == {i \in 1..Len(s) : s[i] = "."}
  <1>1. k \in I /\ \A i \in I : k <= i
    OBVIOUS
  <1>2. Min(I) = k
    <2>1. \A x \in I : (\A y \in I : x <= y) => x = k
      BY <1>1
    <2> HIDE DEF I
    <2> QED
      BY <1>1, <2>1 DEF Min
  <1>3. Dot(s) = IF I # {} THEN Min(I) ELSE 0
    BY DEF Dot, SelectInSeq
  <1> HIDE DEF I
  <1> QED
    BY <1>1, <1>2, <1>3

\* strings.Cut: where there is no dot.
LEMMA NoDot ==
    ASSUME NEW s \in Seq(Characters), \A i \in 1..Len(s) : s[i] # "."
    PROVE  Dot(s) = 0
  BY DEF Dot, SelectInSeq

\* The characters of a text, by their positions.
LEMMA ElementsOfSeq ==
    ASSUME NEW s \in Seq(Characters)
    PROVE  /\ Len(s) \in Nat
           /\ \A c : c \in ToSet(s) <=> \E i \in 1..Len(s) : s[i] = c
  BY DEF ToSet

\* strings.TrimSpace: from the first character that is no space to the last.
LEMMA TrimIsSlice ==
    ASSUME NEW s \in Seq(Characters), ~(ToSet(s) \subseteq {"s"})
    PROVE  \E a, b \in 1..Len(s) :
               /\ a <= b
               /\ TrimSpace(s) = SubSeq(s, a, b)
               /\ \A i \in 1..Len(s) : s[i] # "s" => a <= i /\ i <= b
  <1> DEFINE Solid(c) == c # "s"
             I == {i \in 1..Len(s) : Solid(s[i])}
  <1>1. Len(s) \in Nat
    BY ElementsOfSeq
  <1>2. I # {}
    <2>1. PICK i \in 1..Len(s) : s[i] # "s"
      BY ElementsOfSeq
    <2> QED
      BY <2>1
  <1>3. I \in SUBSET Nat /\ I \in SUBSET (0..Len(s))
    <2>1. I \in SUBSET (1..Len(s)) /\ 1..Len(s) \subseteq 0..Len(s) /\ 0..Len(s) \subseteq Nat
      BY <1>1
    <2> HIDE DEF I
    <2> QED
      BY <2>1
  <1>4. Min(I) \in I /\ \A i \in I : Min(I) <= i
    <2> HIDE DEF I
    <2>1. \E x \in I : \A y \in I : x <= y
      BY <1>2, <1>3, LeastElement
    <2> QED
      BY <2>1 DEF Min
  <1>5. Max(I) \in I /\ \A i \in I : i <= Max(I)
    <2> DEFINE n == Len(s)
    <2> HIDE DEF I, n
    <2>1. n \in Nat /\ I \in SUBSET (0..n)
      BY <1>1, <1>3 DEF n
    <2>2. \E x \in I : \A y \in I : y <= x
      BY <1>2, <2>1, GreatestElement
    <2>3. \A x, y \in I : y <= x => x >= y
      BY <1>3
    <2>4. \E x \in I : \A y \in I : x >= y
      BY <2>2, <2>3
    <2>5. Max(I) \in I /\ \A y \in I : Max(I) >= y
      BY <2>4 DEF Max
    <2>6. \A x, y \in I : x >= y => y <= x
      BY <1>3
    <2> QED
      BY <2>5, <2>6
  <1>6. SelectInSeq(s, Solid) = Min(I) /\ SelectLastInSeq(s, Solid) = Max(I)
    BY <1>2 DEF SelectInSeq, SelectLastInSeq
  <1>7. TrimSpace(s) = SubSeq(s, Min(I), Max(I))
    BY <1>6 DEF TrimSpace
  <1>8. /\ Min(I) \in 1..Len(s) /\ Max(I) \in 1..Len(s)
        /\ Min(I) <= Max(I)
        /\ \A i \in 1..Len(s) : s[i] # "s" => Min(I) <= i /\ i <= Max(I)
    BY <1>4, <1>5
  <1> HIDE DEF I
  <1> QED
    BY <1>7, <1>8

\* Text with no white space at its ends is left as it is.
LEMMA TrimOfTight ==
    ASSUME NEW s \in Seq(Characters), s # <<>>, s[1] # "s", s[Len(s)] # "s"
    PROVE  TrimSpace(s) = s
  <1>1. Len(s) \in Nat \ {0} /\ 1 \in 1..Len(s) /\ Len(s) \in 1..Len(s)
    <2>1. Len(s) \in Nat /\ Len(s) # 0
      BY ElementsOfSeq, EmptySeq
    <2> DEFINE n == Len(s)
    <2> HIDE DEF n
    <2>2. n \in Nat /\ n # 0 => n \in Nat \ {0} /\ 1 \in 1..n /\ n \in 1..n
      OBVIOUS
    <2> QED
      BY <2>1, <2>2 DEF n
  <1>2. ~(ToSet(s) \subseteq {"s"})
    BY <1>1, ElementsOfSeq
  <1>3. PICK a, b \in 1..Len(s) :
            /\ TrimSpace(s) = SubSeq(s, a, b)
            /\ \A i \in 1..Len(s) : s[i] # "s" => a <= i /\ i <= b
    BY <1>2, TrimIsSlice
  <1>4. a = 1 /\ b = Len(s)
    BY <1>1, <1>3
  <1> QED
    BY <1>3, <1>4, SubSeqFull

\* Trimming takes off nothing but spaces.
LEMMA TrimKeepsText ==
    ASSUME NEW s \in Seq(Characters)
    PROVE  /\ TrimSpace(s) \in Seq(Characters)
           /\ ToSet(TrimSpace(s)) \subseteq ToSet(s)
           /\ ToSet(s) \subseteq ToSet(TrimSpace(s)) \cup {"s"}
  <1>1. CASE ToSet(s) \subseteq {"s"}
    <2>1. TrimSpace(s) = <<>>
      BY <1>1 DEF TrimSpace
    <2> QED
      BY <1>1, <2>1 DEF ToSet
  <1>2. CASE ~(ToSet(s) \subseteq {"s"})
    <2>1. PICK a, b \in 1..Len(s) :
              /\ a <= b
              /\ TrimSpace(s) = SubSeq(s, a, b)
              /\ \A i \in 1..Len(s) : s[i] # "s" => a <= i /\ i <= b
      BY <1>2, TrimIsSlice
    <2> DEFINE t == SubSeq(s, a, b)
    <2>2. /\ t \in Seq(Characters)
          /\ Len(t) = b - a + 1
          /\ \A i \in 1..(b - a + 1) : t[i] = s[a + i - 1]
      <3>1. a \in Int /\ b \in Int /\ \A i \in a..b : s[i] \in Characters
        OBVIOUS
      <3> QED
        BY <2>1, <3>1, SubSeqProperties
    <2> HIDE DEF t
    <2>3. ToSet(t) \subseteq ToSet(s)
      <3> SUFFICES ASSUME NEW c \in ToSet(t) PROVE c \in ToSet(s)
        OBVIOUS
      <3>1. PICK i \in 1..Len(t) : t[i] = c
        BY <2>2, ElementsOfSeq
      <3>2. a + i - 1 \in 1..Len(s) /\ s[a + i - 1] = c
        BY <2>1, <2>2, <3>1
      <3> QED
        BY <3>2, ElementsOfSeq
    <2>4. ToSet(s) \subseteq ToSet(t) \cup {"s"}
      <3> SUFFICES ASSUME NEW c \in ToSet(s), c # "s" PROVE c \in ToSet(t)
        OBVIOUS
      <3>1. PICK i \in 1..Len(s) : s[i] = c
        BY ElementsOfSeq
      <3>2. a <= i /\ i <= b
        BY <2>1, <3>1
      <3> DEFINE k == i - a + 1
      <3>3. k \in 1..(b - a + 1) /\ a + k - 1 = i
        BY <3>2
      <3>4. k \in 1..Len(t) /\ t[k] = c
        BY <2>2, <3>1, <3>3
      <3> HIDE DEF k
      <3> QED
        BY <2>2, <3>4, ElementsOfSeq
    <2> QED
      BY <2>1, <2>2, <2>3, <2>4 DEF t
  <1> QED
    BY <1>1, <1>2

\* Two texts, one behind the other.
LEMMA Joined ==
    ASSUME NEW s \in Seq(Characters), NEW t \in Seq(Characters)
    PROVE  /\ s \o t \in Seq(Characters)
           /\ Len(s \o t) = Len(s) + Len(t)
           /\ Len(s) \in Nat /\ Len(t) \in Nat
           /\ \A i \in 1..Len(s) : (s \o t)[i] = s[i]
           /\ \A i \in 1..Len(t) : (s \o t)[Len(s) + i] = t[i]
  <1>1. /\ s \o t \in Seq(Characters)
        /\ Len(s \o t) = Len(s) + Len(t)
        /\ \A i \in 1..(Len(s) + Len(t)) :
               (s \o t)[i] = IF i <= Len(s) THEN s[i] ELSE t[i - Len(s)]
    BY ConcatProperties
  <1>2. Len(s) \in Nat /\ Len(t) \in Nat
    BY LenProperties
  <1> DEFINE st == s \o t
             m == Len(s)
             n == Len(t)
  <1> HIDE DEF st, m, n
  <1>3. \A i \in 1..(m + n) : st[i] = IF i <= m THEN s[i] ELSE t[i - m]
    BY <1>1 DEF st, m, n
  <1>4. m \in Nat /\ n \in Nat
    BY <1>2 DEF m, n
  <1>5. \A i \in 1..m : st[i] = s[i]
    BY <1>3, <1>4
  <1>6. ASSUME NEW i \in 1..n PROVE st[m + i] = t[i]
    <2>1. m + i \in 1..(m + n) /\ ~(m + i <= m) /\ (m + i) - m = i
      BY <1>4
    <2> QED
      BY <1>3, <2>1
  <1> QED
    BY <1>1, <1>2, <1>5, <1>6 DEF st, m, n

\* The characters of two texts, one behind the other.
LEMMA ElementsOfJoined ==
    ASSUME NEW s \in Seq(Characters), NEW t \in Seq(Characters)
    PROVE  ToSet(s \o t) = ToSet(s) \cup ToSet(t)
  <1> DEFINE st == s \o t
             m == Len(s)
             n == Len(t)
  <1>1. /\ st \in Seq(Characters)
        /\ Len(st) = m + n
        /\ m \in Nat /\ n \in Nat
        /\ \A i \in 1..m : st[i] = s[i]
        /\ \A i \in 1..n : st[m + i] = t[i]
    BY Joined
  <1> HIDE DEF st
  <1>2. \A c : c \in ToSet(st) <=> \E i \in 1..(m + n) : st[i] = c
    <2>1. \A c : c \in ToSet(st) <=> \E i \in 1..Len(st) : st[i] = c
      BY <1>1, ElementsOfSeq
    <2>2. Len(st) = m + n
      BY <1>1
    <2> QED
      BY <2>1, <2>2
  <1>3. /\ \A c : c \in ToSet(s) <=> \E i \in 1..m : s[i] = c
        /\ \A c : c \in ToSet(t) <=> \E i \in 1..n : t[i] = c
    BY ElementsOfSeq
  <1> HIDE DEF m, n
  <1>4. ASSUME NEW c \in ToSet(st) PROVE c \in ToSet(s) \cup ToSet(t)
    <2>1. PICK i \in 1..(m + n) : st[i] = c
      BY <1>2
    <2>2. CASE i <= m
      <3>1. i \in 1..m /\ s[i] = c
        BY <1>1, <2>1, <2>2
      <3> QED
        BY <1>3, <3>1
    <2>3. CASE i > m
      <3> DEFINE j == i - m
      <3>1. j \in 1..n /\ m + j = i
        BY <1>1, <2>3
      <3> HIDE DEF j
      <3>2. t[j] = c
        BY <1>1, <2>1, <3>1
      <3> QED
        BY <1>3, <3>1, <3>2
    <2> QED
      BY <1>1, <2>2, <2>3
  <1>5. ASSUME NEW c \in ToSet(s) PROVE c \in ToSet(st)
    <2>1. PICK i \in 1..m : s[i] = c
      BY <1>3
    <2>2. i \in 1..(m + n) /\ st[i] = c
      BY <1>1, <2>1
    <2> QED
      BY <1>2, <2>2
  <1>6. ASSUME NEW c \in ToSet(t) PROVE c \in ToSet(st)
    <2>1. PICK i \in 1..n : t[i] = c
      BY <1>3
    <2> DEFINE j == m + i
    <2>2. j \in 1..(m + n) /\ st[j] = c
      BY <1>1, <2>1
    <2> HIDE DEF j
    <2> QED
      BY <1>2, <2>2
  <1> QED
    BY <1>4, <1>5, <1>6 DEF st

\* Text u falls apart at the point P, if there is one, into M and m.
FallsApart(u, M, P, m) ==
    /\ u \in Seq(Characters)
    /\ Len(u) = Len(M) + Len(P) + Len(m)
    /\ Before(u) = M
    /\ After(u) = m
    /\ P # <<>> => Dot(u) = Len(M) + 1 /\ u[Len(M) + 1] = "."
    /\ \A i \in 1..Len(M) : u[i] = M[i]
    /\ \A i \in 1..Len(u) : u[i] \in ToSet(Digits) \cup {"."}
    /\ \A i \in 1..Len(u) : i # Len(M) + 1 => u[i] \in ToSet(Digits)

\* strings.Cut takes a numeral, a point and a numeral apart again.
LEMMA CutOfParts ==
    ASSUME NEW M, Numeral(M), NEW m, Numeral(m), NEW P \in {<<>>, <<".">>},
           m # <<>> => P # <<>>
    PROVE  FallsApart(M \o P \o m, M, P, m)
  <1> DEFINE u == M \o P \o m
  <1>1. M \in Seq(Characters) /\ m \in Seq(Characters)
    BY NumeralIsText
  <1>2. /\ \A i \in 1..Len(M) : M[i] \in ToSet(Digits)
        /\ \A i \in 1..Len(m) : m[i] \in ToSet(Digits)
    BY NumeralDigits
  <1>3. CASE P = <<>>
    <2>1. u = M /\ m = <<>>
      BY <1>1, <1>3, ConcatEmptySeq
    <2>2. Dot(M) = 0
      BY <1>1, NumeralIsText, NoDot
    <2>3. Before(M) = M /\ After(M) = m
      BY <2>1, <2>2 DEF Before, After
    <2>4. Len(M) = Len(M) + Len(P) + Len(m)
      <3>1. Len(P) = 0 /\ Len(m) = 0 /\ Len(M) \in Nat
        BY <1>3, <2>1, <1>1, EmptySeq, LenProperties
      <3> QED
        BY <3>1
    <2> QED
      BY <1>1, <1>2, <1>3, <2>1, <2>3, <2>4 DEF FallsApart
  <1>4. CASE P = <<".">>
    <2> DEFINE L == Len(M)
               k == Len(m)
               front == M \o P
    <2>1. P \in Seq(Characters) /\ Len(P) = 1 /\ P[1] = "." /\ P # <<>>
      BY <1>4 DEF Characters
    <2>2. /\ front \in Seq(Characters)
          /\ Len(front) = L + 1
          /\ L \in Nat
          /\ \A i \in 1..L : front[i] = M[i]
          /\ front[L + 1] = "."
      <3>1. /\ front \in Seq(Characters)
            /\ Len(front) = Len(M) + Len(P)
            /\ Len(M) \in Nat
            /\ \A i \in 1..Len(M) : front[i] = M[i]
            /\ \A i \in 1..Len(P) : front[Len(M) + i] = P[i]
        BY <1>1, <2>1, Joined
      <3>2. 1 \in 1..Len(P)
        BY <2>1
      <3>3. front[Len(M) + 1] = "."
        BY <2>1, <3>1, <3>2
      <3> QED
        BY <2>1, <3>1, <3>3
    <2>3. u = front \o m
      OBVIOUS
    <2> HIDE DEF front, u
    <2>4. /\ u \in Seq(Characters)
          /\ Len(u) = Len(front) + k
          /\ k \in Nat
          /\ \A i \in 1..Len(front) : u[i] = front[i]
          /\ \A i \in 1..k : u[Len(front) + i] = m[i]
      BY <1>1, <2>2, <2>3, Joined
    <2> HIDE DEF L, k
    <2>5. /\ \A i \in 1..L : u[i] = M[i]
          /\ u[L + 1] = "."
          /\ \A i \in 1..k : u[L + 1 + i] = m[i]
          /\ Len(u) = L + 1 + k
      BY <2>2, <2>4
    <2>6. Dot(u) = L + 1
      <3>1. \A i \in 1..L : u[i] # "."
        BY <2>5, NumeralIsText DEF L
      <3> DEFINE d == L + 1
      <3>2. d \in 1..Len(u) /\ d - 1 = L /\ u[d] = "."
        BY <2>2, <2>4, <2>5
      <3> HIDE DEF d
      <3>3. \A i \in 1..(d - 1) : u[i] # "."
        BY <3>1, <3>2
      <3>4. Dot(u) = d
        BY <2>4, <3>2, <3>3, FirstDot
      <3> QED
        BY <3>4 DEF d
    <2>7. Before(u) = M
      <3> DEFINE b == SubSeq(u, 1, L)
      <3>1. Before(u) = b
        BY <2>2, <2>6 DEF Before
      <3>2. /\ b \in Seq(Characters)
            /\ Len(b) = L
            /\ \A i \in 1..L : b[i] = u[i]
        <4>1. \A i \in 1..L : u[i] \in Characters
          BY <2>2, <2>4, <2>5
        <4>2. /\ b \in Seq(Characters)
              /\ Len(b) = IF 1 <= L THEN L - 1 + 1 ELSE 0
              /\ \A i \in 1..(L - 1 + 1) : b[i] = u[1 + i - 1]
          BY <2>2, <4>1, SubSeqProperties
        <4> HIDE DEF b
        <4> QED
          BY <2>2, <4>2
      <3> HIDE DEF b
      <3>3. b = M
        BY <1>1, <2>5, <3>2, SeqEqual DEF L
      <3> QED
        BY <3>1, <3>3
    <2>8. After(u) = m
      <3> DEFINE from == L + 2
                 to == L + 1 + k
                 a == SubSeq(u, from, to)
      <3>1. After(u) = a
        BY <2>2, <2>5, <2>6 DEF After
      <3>2. from \in Int /\ to \in Int /\ to - from + 1 = k
            /\ (from <= to <=> k > 0)
        BY <2>2, <2>4
      <3>3. \A i \in from..to : u[i] \in Characters
        BY <2>2, <2>4, <2>5
      <3>4. \A i \in 1..k : u[from + i - 1] = m[i]
        <4>1. \A i \in 1..k : from + i - 1 = L + 1 + i
          BY <2>2
        <4> QED
          BY <2>5, <4>1
      <3> HIDE DEF from, to
      <3>5. /\ a \in Seq(Characters)
            /\ Len(a) = IF from <= to THEN to - from + 1 ELSE 0
            /\ \A i \in 1..(to - from + 1) : a[i] = u[from + i - 1]
        BY <3>2, <3>3, SubSeqProperties
      <3> HIDE DEF a
      <3>6. Len(a) = k /\ \A i \in 1..k : a[i] = m[i]
        BY <2>4, <3>2, <3>4, <3>5
      <3>7. a = m
        BY <1>1, <3>5, <3>6, SeqEqual DEF k
      <3> QED
        BY <3>1, <3>7
    <2>9. ASSUME NEW i \in 1..Len(u), i # L + 1 PROVE u[i] \in ToSet(Digits)
      <3>1. CASE i \in 1..L
        BY <1>2, <2>5, <3>1 DEF L
      <3>2. CASE i > L + 1
        <4> DEFINE j == i - (L + 1)
        <4>1. j \in 1..k /\ L + 1 + j = i
          BY <2>2, <2>4, <2>5, <3>2
        <4> HIDE DEF j
        <4>2. u[i] = m[j]
          BY <2>5, <4>1
        <4> QED
          BY <1>2, <4>1, <4>2 DEF k
      <3> QED
        BY <2>2, <2>4, <2>5, <2>9, <3>1, <3>2
    <2>10. \A i \in 1..Len(u) : u[i] \in ToSet(Digits) \cup {"."}
      BY <2>5, <2>9
    <2>11. FallsApart(u, M, P, m)
      BY <2>1, <2>4, <2>5, <2>6, <2>7, <2>8, <2>9, <2>10 DEF FallsApart, L, k
    <2> QED
      BY <2>11 DEF u
  <1> QED
    BY <1>3, <1>4

\* The signs TrimPrefix takes off, one after the other.
Signs == {<<>>, <<"+">>, <<"-">>, <<"+", "-">>}

\* strings.TrimPrefix and HasPrefix: a text with a character in front.
LEMMA Prefixed ==
    ASSUME NEW c \in Characters, NEW u \in Seq(Characters)
    PROVE  /\ <<c>> \o u \in Seq(Characters)
           /\ <<c>> \o u # <<>>
           /\ (<<c>> \o u)[1] = c
           /\ Head(<<c>> \o u) = c
           /\ Tail(<<c>> \o u) = u
  <1> DEFINE t == <<c>> \o u
             n == Len(u)
  <1>1. <<c>> \in Seq(Characters) /\ Len(<<c>>) = 1 /\ <<c>>[1] = c
    OBVIOUS
  <1>2. /\ t \in Seq(Characters)
        /\ Len(t) = 1 + n
        /\ n \in Nat
        /\ \A i \in 1..1 : t[i] = <<c>>[i]
        /\ \A i \in 1..n : t[1 + i] = u[i]
    BY <1>1, Joined
  <1> HIDE DEF t, n
  <1>3. t[1] = c /\ t # <<>>
    <2>1. 1 \in 1..1 /\ Len(t) # 0
      BY <1>2
    <2>2. t[1] = c
      BY <1>1, <1>2, <2>1
    <2> QED
      BY <2>1, <2>2, EmptySeq
  <1>4. Head(t) = c
    BY <1>2, <1>3
  <1>5. Tail(t) = u
    <2> DEFINE r == Tail(t)
    <2>1. /\ r \in Seq(Characters)
          /\ Len(r) = Len(t) - 1
          /\ \A i \in 1..Len(r) : r[i] = t[i + 1]
      BY <1>2, <1>3, HeadTailProperties
    <2> HIDE DEF r
    <2>2. Len(r) = n /\ \A i \in 1..n : r[i] = t[1 + i]
      <3>1. Len(r) = n
        BY <1>2, <2>1
      <3>2. \A i \in 1..n : i + 1 = 1 + i
        BY <1>2
      <3> QED
        BY <2>1, <3>1, <3>2
    <2>3. r = u
      BY <1>2, <2>1, <2>2, SeqEqual DEF n
    <2> QED
      BY <2>3 DEF r
  <1> QED
    BY <1>2, <1>3, <1>4, <1>5 DEF t

\* Every text that is not empty has a character in front.
LEMMA FirstAndRest ==
    ASSUME NEW s \in Seq(Characters), s # <<>>
    PROVE  /\ Head(s) \in Characters /\ Head(s) = s[1]
           /\ Tail(s) \in Seq(Characters)
           /\ s = <<Head(s)>> \o Tail(s)
  <1>1. /\ Head(s) \in Characters
        /\ Tail(s) \in Seq(Characters)
        /\ Len(Tail(s)) = Len(s) - 1
        /\ \A i \in 1..Len(Tail(s)) : Tail(s)[i] = s[i + 1]
    BY HeadTailProperties
  <1>2. Head(s) = s[1]
    OBVIOUS
  <1> DEFINE c == Head(s)
             r == Tail(s)
             t == <<c>> \o r
             n == Len(r)
  <1> HIDE DEF c, r
  <1>3. <<c>> \in Seq(Characters) /\ Len(<<c>>) = 1 /\ <<c>>[1] = c
    BY <1>1 DEF c
  <1>4. /\ t \in Seq(Characters)
        /\ Len(t) = 1 + n
        /\ n \in Nat
        /\ \A i \in 1..1 : t[i] = <<c>>[i]
        /\ \A i \in 1..n : t[1 + i] = r[i]
    BY <1>1, <1>3, Joined DEF r
  <1> HIDE DEF t, n
  <1>5. n = Len(s) - 1 /\ \A i \in 1..n : r[i] = s[i + 1]
    BY <1>1 DEF r, n
  <1>6. Len(s) \in Nat /\ Len(t) = Len(s)
    BY <1>4, <1>5, LenProperties
  <1>7. ASSUME NEW i \in 1..Len(t) PROVE t[i] = s[i]
    <2>1. CASE i = 1
      <3>1. 1 \in 1..1
        OBVIOUS
      <3> QED
        BY <1>2, <1>3, <1>4, <2>1, <3>1 DEF c
    <2>2. CASE i # 1
      <3> DEFINE j == i - 1
      <3>1. j \in 1..n /\ 1 + j = i /\ j + 1 = i
        BY <1>4, <2>2
      <3> HIDE DEF j
      <3> QED
        BY <1>4, <1>5, <3>1
    <2> QED
      BY <2>1, <2>2
  <1>8. t = s
    BY <1>4, <1>6, <1>7, SeqEqual
  <1> QED
    BY <1>1, <1>2, <1>8 DEF c, r, t

\* One sign of each kind is taken off, a minus behind a plus too.
LEMMA SignsComeOff ==
    ASSUME NEW s, NEW g \in Signs, NEW u \in Seq(Characters),
           u # <<>> => u[1] \notin {"+", "-"},
           TrimSpace(s) = g \o u, TrimSpace(s) # <<>>
    PROVE  Unsigned(s) = u /\ (Head(TrimSpace(s)) = "-" <=> g = <<"-">>)
  <1> DEFINE t == TrimSpace(s)
  <1>1. "+" \in Characters /\ "-" \in Characters
    BY DEF Characters
  <1>2. /\ TrimPrefix(u, "+") = u /\ TrimPrefix(u, "-") = u
        /\ u # <<>> => Head(u) \notin {"+", "-"}
    BY FirstAndRest DEF TrimPrefix
  <1> DEFINE mu == <<"-">> \o u
  <1>3. /\ mu \in Seq(Characters) /\ mu # <<>>
        /\ Head(mu) = "-" /\ Tail(mu) = u
    BY <1>1, Prefixed
  <1>4. TrimPrefix(mu, "+") = mu /\ TrimPrefix(mu, "-") = u
    <2> HIDE DEF mu
    <2> QED
      BY <1>3 DEF TrimPrefix
  <1>5. CASE g = <<>>
    <2>1. t = u
      BY <1>5, ConcatEmptySeq
    <2> QED
      BY <1>2, <1>5, <2>1 DEF Unsigned
  <1>6. CASE g = <<"+">>
    <2> DEFINE pu == <<"+">> \o u
    <2>1. t = pu /\ pu # <<>> /\ Head(pu) = "+" /\ Tail(pu) = u
      BY <1>1, <1>6, Prefixed
    <2>2. TrimPrefix(pu, "+") = u
      <3> HIDE DEF pu, t
      <3> QED
        BY <2>1 DEF TrimPrefix
    <2>3. g # <<"-">>
      BY <1>6
    <2> HIDE DEF pu
    <2> QED
      BY <1>2, <2>1, <2>2, <2>3 DEF Unsigned
  <1>7. CASE g = <<"-">>
    <2>1. t = mu
      BY <1>7
    <2> HIDE DEF mu
    <2> QED
      BY <1>3, <1>4, <1>7, <2>1 DEF Unsigned
  <1>8. CASE g = <<"+", "-">>
    <2> DEFINE pm == <<"+">> \o mu
    <2>1. pm # <<>> /\ Head(pm) = "+" /\ Tail(pm) = mu
      <3> HIDE DEF mu
      <3> QED
        BY <1>1, <1>3, Prefixed
    <2>2. t = pm
      <3>1. <<"+">> \in Seq(Characters) /\ <<"-">> \in Seq(Characters)
        BY <1>1
      <3>2. <<"+", "-">> = <<"+">> \o <<"-">>
        OBVIOUS
      <3>3. (<<"+">> \o <<"-">>) \o u = <<"+">> \o (<<"-">> \o u)
        BY <3>1, ConcatAssociative
      <3> QED
        BY <1>8, <3>2, <3>3
    <2> HIDE DEF mu, pm
    <2>3. TrimPrefix(pm, "+") = mu
      BY <2>1 DEF TrimPrefix
    <2>4. g # <<"-">>
      BY <1>8
    <2> QED
      BY <1>4, <2>1, <2>2, <2>3, <2>4 DEF Unsigned
  <1> QED
    BY <1>5, <1>6, <1>7, <1>8 DEF Signs

\* What Unsigned leaves had one of the signs in front.
LEMMA SignsWereThere ==
    ASSUME NEW s \in Seq(Characters)
    PROVE  /\ Unsigned(s) \in Seq(Characters)
           /\ \E g \in Signs : TrimSpace(s) = g \o Unsigned(s)
  <1> DEFINE t == TrimSpace(s)
             v == TrimPrefix(t, "+")
             u == TrimPrefix(v, "-")
  <1>1. t \in Seq(Characters)
    BY TrimKeepsText
  <1>2. ASSUME NEW w \in Seq(Characters), NEW c
        PROVE  /\ TrimPrefix(w, c) \in Seq(Characters)
               /\ \/ TrimPrefix(w, c) = w
                  \/ c \in Characters /\ w = <<c>> \o TrimPrefix(w, c)
    BY FirstAndRest DEF TrimPrefix
  <1>3. v \in Seq(Characters) /\ (t = v \/ t = <<"+">> \o v)
    <2> HIDE DEF t
    <2> QED
      BY <1>1, <1>2
  <1>4. u \in Seq(Characters) /\ (v = u \/ v = <<"-">> \o u)
    <2> HIDE DEF v
    <2> QED
      BY <1>2, <1>3
  <1>5. Unsigned(s) = u
    BY DEF Unsigned
  <1> HIDE DEF t, u, v
  <1>6. \E g \in Signs : t = g \o u
    <2>1. CASE t = u
      BY <1>4, <2>1, ConcatEmptySeq DEF Signs
    <2>2. CASE t = <<"+">> \o u
      BY <2>2 DEF Signs
    <2>3. CASE t = <<"-">> \o u
      BY <2>3 DEF Signs
    <2>4. CASE t = <<"+">> \o (<<"-">> \o u)
      <3>1. <<"+">> \in Seq(Characters) /\ <<"-">> \in Seq(Characters)
        BY DEF Characters
      <3>2. <<"+", "-">> = <<"+">> \o <<"-">>
        OBVIOUS
      <3>3. (<<"+">> \o <<"-">>) \o u = <<"+">> \o (<<"-">> \o u)
        BY <1>4, <3>1, ConcatAssociative
      <3> QED
        BY <2>4, <3>2, <3>3 DEF Signs
    <2> QED
      BY <1>3, <1>4, <2>1, <2>2, <2>3, <2>4
  <1> QED
    BY <1>4, <1>5, <1>6 DEF t

-----------------------------------------------------------------------------
(***************************************************************************)
(* What ParseMoney accepts, and what it makes of it.                       *)
(***************************************************************************)
\* int64 arithmetic keeps what fits.
LEMMA WrapKeeps ==
    ASSUME NEW x \in -Half..(Half - 1)
    PROVE  Wrap(x) = x
  <1> DEFINE width == 2 * Half
             zero == 0
             r == x + Half
  <1>1. Half \in Nat \ {0}
    BY MoneyAssumption
  <1>2. width \in Nat \ {0} /\ r \in 0..(width - 1) /\ zero \in Int
        /\ zero * width + r = r
    BY <1>1
  <1>3. r % width = r
    <2> HIDE DEF width, zero, r
    <2> QED
      BY <1>2, Remainder
  <1>4. Wrap(x) = (r % width) - Half
    BY DEF Wrap
  <1>5. r - Half = x
    BY <1>1
  <1> HIDE DEF r, width
  <1> QED
    BY <1>3, <1>4, <1>5

\* What a numeral, a point and a numeral are worth in minor units.
Worth(M, m) == ParseInt(M) * 100 + ParseInt(m) * Power10[2 - Len(m)]

\* What the digit bounds allow fits an int64 (money.go:22-23), and is the
\* magnitude the digits weigh.
LEMMA WorthFits ==
    ASSUME NEW M, Numeral(M), Len(M) <= MaxMajorDigits,
           NEW m, Numeral(m), Len(m) <= 2
    PROVE  /\ Worth(M, m) \in 0..(Power10[MaxMajorDigits + 2] - 1)
           /\ Worth(M, m) \in 0..(Half - 1)
           /\ Worth(M, m) = Weigh(M) * 100 + Weigh(m) * Power10[2 - Len(m)]
  <1> DEFINE L == Len(M)
             k == Len(m)
             a == ParseInt(M)
             b == ParseInt(m)
             p == Power10[2 - k]
             top == Power10[MaxMajorDigits]
  <1>1. /\ Half \in Nat /\ MaxMajorDigits \in Nat
        /\ Power10[MaxMajorDigits + 2] <= Half
    BY MoneyAssumption
  <1>2. L \in Nat /\ k \in Nat /\ L <= MaxMajorDigits /\ k <= 2
    BY NumeralDigits
  <1>3. /\ Weigh(M) = a /\ a \in 0..(Power10[L] - 1)
        /\ Weigh(m) = b /\ b \in 0..(Power10[k] - 1)
    BY ParseIntWeighs
  <1>4. Worth(M, m) = a * 100 + b * p
    BY DEF Worth
  <1> HIDE DEF L, k, a, b, p
  <1>5. Power10[L] <= top /\ Power10[L] \in Nat /\ top \in Nat
    BY <1>1, <1>2, Powers, PowersNeverShrink
  <1>6. b * p \in 0..99
    <2>1. CASE k = 0
      <3>1. b = 0 /\ p = 100
        BY <1>3, <2>1, SmallPowers DEF p
      <3> QED
        BY <3>1
    <2>2. CASE k = 1
      <3>1. b \in 0..9 /\ p = 10
        BY <1>3, <2>2, SmallPowers DEF p
      <3> QED
        BY <3>1
    <2>3. CASE k = 2
      <3>1. b \in 0..99 /\ p = 1
        BY <1>3, <2>3, SmallPowers DEF p
      <3> QED
        BY <3>1
    <2> QED
      BY <1>2, <2>1, <2>2, <2>3
  <1>7. Power10[MaxMajorDigits + 2] = 100 * top
    BY <1>1, TwoMoreDigits
  <1> DEFINE c == b * p
  <1>8. c \in 0..99 /\ Worth(M, m) = a * 100 + c
    BY <1>4, <1>6
  <1> HIDE DEF c, top
  <1>9. a \in Nat /\ a <= top - 1
    BY <1>3, <1>5
  <1>10. a * 100 + c \in 0..(100 * top - 1)
    BY <1>5, <1>8, <1>9
  <1>11. Worth(M, m) = Weigh(M) * 100 + Weigh(m) * Power10[2 - Len(m)]
    BY <1>3, <1>4 DEF k, p
  <1>12. 100 * top <= Half
    BY <1>1, <1>7
  <1>13. Worth(M, m) \in 0..(100 * top - 1)
    BY <1>8, <1>10
  <1>14. Worth(M, m) \in 0..(Half - 1)
    BY <1>1, <1>5, <1>12, <1>13
  <1> QED
    BY <1>7, <1>11, <1>13, <1>14

\* Trimmed text t is a sign, a numeral, perhaps a point and a numeral.
Reads(t, g, M, P, m) ==
    /\ t # <<>>
    /\ g \in Signs
    /\ Numeral(M) /\ Len(M) <= MaxMajorDigits
    /\ P \in {<<>>, <<".">>}
    /\ Numeral(m) /\ Len(m) <= 2
    /\ m # <<>> => P # <<>>
    /\ t = g \o (M \o P \o m)

\* The "0" that stands for an empty major part is worth nothing either.
LEMMA NoDigits == ParseInt(<<>>) = 0 /\ Numeral(<<"0">>) /\ ParseInt(<<"0">>) = 0
  <1>1. Numeral(<<>>) /\ Numeral(<<"0">>) /\ Len(<<>>) = 0 /\ Len(<<"0">>) = 1
    BY DigitValues DEF Numeral
  <1>2. ParseInt(<<>>) = 0
    <2>1. ParseInt(<<>>) \in 0..(Power10[0] - 1)
      BY <1>1, ParseIntWeighs
    <2> QED
      BY <2>1, SmallPowers
  <1>3. ParseInt(<<"0">>) = 0
    <2> DEFINE z == <<"0">>
    <2>1. Numeral(z) /\ Len(z) = 1 /\ z[1] = "0"
      BY <1>1
    <2> HIDE DEF z
    <2>2. PICK v \in [0..Len(z) -> Nat] :
              /\ v[0] = 0
              /\ \A i \in 1..Len(z) : v[i] = 10 * v[i - 1] + DigitValue[z[i]]
              /\ ParseInt(z) = v[Len(z)]
      BY <2>1, ParseIntRecursion
    <2>3. DigitValue["0"] = 0
      <3>1. Digits[0 + 1] = "0" /\ 0 \in 0..9
        BY DEF Digits
      <3> QED
        BY <3>1, DigitValues
    <2>4. 1 \in 1..1 /\ 1 - 1 = 0
      OBVIOUS
    <2>5. v[1] = 10 * v[0] + DigitValue[z[1]]
      BY <2>1, <2>2, <2>4
    <2>6. ParseInt(z) = 0
      BY <2>1, <2>2, <2>3, <2>5
    <2> QED
      BY <2>6 DEF z
  <1> QED
    BY <1>1, <1>2, <1>3

\* Such text is money, and worth what its digits say.
LEMMA Accepted ==
    ASSUME NEW s, NEW g, NEW M, NEW P, NEW m, Reads(TrimSpace(s), g, M, P, m)
    PROVE  /\ IsMoney(s)
           /\ ParseMoney(s) = IF g = <<"-">> THEN -Worth(M, m) ELSE Worth(M, m)
           /\ ParseMoney(s) \in -Half..(Half - 1)
  <1> DEFINE u == M \o P \o m
             t == TrimSpace(s)
             zeros == [i \in 1..(2 - Len(m)) |-> "0"]
             padded == m \o zeros
             major == IF M = <<>> THEN <<"0">> ELSE M
  <1>1. /\ t # <<>> /\ g \in Signs /\ P \in {<<>>, <<".">>}
        /\ Numeral(M) /\ Len(M) <= MaxMajorDigits
        /\ Numeral(m) /\ Len(m) <= 2
        /\ m # <<>> => P # <<>>
        /\ t = g \o u
    BY DEF Reads
  <1>2. /\ u \in Seq(Characters)
        /\ Before(u) = M /\ After(u) = m
        /\ \A i \in 1..Len(u) : u[i] \in ToSet(Digits) \cup {"."}
    <2>1. FallsApart(u, M, P, m)
      BY <1>1, CutOfParts
    <2> QED
      BY <2>1 DEF FallsApart
  <1> HIDE DEF u, t
  <1>3. u # <<>> => u[1] \notin {"+", "-"}
    <2>1. SUFFICES ASSUME u # <<>> PROVE u[1] \notin {"+", "-"}
      OBVIOUS
    <2>2. Len(u) \in Nat \ {0}
      BY <1>2, <2>1, EmptySeq
    <2>3. 1 \in 1..Len(u)
      BY <2>2
    <2>4. u[1] \in ToSet(Digits) \cup {"."}
      BY <1>2, <2>3
    <2> QED
      BY <2>4, DigitValues
  <1>4. Unsigned(s) = u /\ (Head(t) = "-" <=> g = <<"-">>)
    BY <1>1, <1>2, <1>3, SignsComeOff DEF t
  <1>5. MajorPart(u) = major /\ MinorPart(u) = padded
    BY <1>2 DEF MajorPart, MinorPart
  <1>6. /\ Numeral(major) /\ Len(major) <= MaxMajorDigits
        /\ ParseInt(major) = ParseInt(M)
    <2>1. CASE M = <<>>
      <3>1. 1 <= MaxMajorDigits
        BY MoneyAssumption
      <3>2. Len(<<"0">>) = 1
        OBVIOUS
      <3> QED
        BY <2>1, <3>1, <3>2, NoDigits
    <2>2. CASE M # <<>>
      BY <1>1, <2>2
    <2> QED
      BY <2>1, <2>2
  <1>7. /\ Numeral(padded)
        /\ Len(padded) = 2
        /\ ParseInt(padded) = ParseInt(m) * Power10[2 - Len(m)]
    BY <1>1, PaddingShifts
  <1> HIDE DEF major, padded
  <1>8. IsDigits(major \o padded)
    <2> DEFINE digits == major \o padded
    <2>1. digits \in Seq(ToSet(Digits))
      BY <1>6, <1>7, ConcatProperties DEF Numeral
    <2> HIDE DEF digits
    <2>2. ToSet(digits) \subseteq ToSet(Digits)
      BY <2>1 DEF ToSet
    <2>3. DOMAIN DigitValue = ToSet(Digits)
      BY DEF DigitValue
    <2> QED
      BY <2>2, <2>3 DEF IsDigits, digits
  <1>9. IsMoney(s)
    BY <1>1, <1>2, <1>4, <1>5, <1>6, <1>8 DEF IsMoney, t
  <1> DEFINE w == Worth(M, m)
  <1>10. ParseInt(major) * 100 + ParseInt(padded) = w
    BY <1>6, <1>7 DEF Worth
  <1>11. w \in 0..(Half - 1)
    BY <1>1, WorthFits
  <1> HIDE DEF w
  <1>12. Half \in Nat
    BY MoneyAssumption
  <1>13. Wrap(w) = w
    <2>1. w \in -Half..(Half - 1)
      BY <1>11, <1>12
    <2> QED
      BY <2>1, WrapKeeps
  <1>14. ParseMoney(s) = IF Head(t) = "-" THEN -Wrap(w) ELSE Wrap(w)
    BY <1>4, <1>5, <1>10 DEF ParseMoney, t
  <1>15. ParseMoney(s) = IF g = <<"-">> THEN -w ELSE w
    BY <1>4, <1>13, <1>14
  <1>16. ParseMoney(s) \in -Half..(Half - 1)
    BY <1>11, <1>12, <1>15
  <1> QED
    BY <1>9, <1>15, <1>16 DEF w

\* A text apart from its first dot.
LEMMA PartsOfText ==
    ASSUME NEW u \in Seq(Characters)
    PROVE  /\ Before(u) \in Seq(Characters) /\ After(u) \in Seq(Characters)
           /\ \E P \in {<<>>, <<".">>} :
                  /\ u = Before(u) \o P \o After(u)
                  /\ After(u) # <<>> => P # <<>>
  <1> DEFINE L == Len(u)
             d == Dot(u)
             I == {i \in 1..L : u[i] = "."}
  <1>1. L \in Nat /\ \A i \in 1..L : u[i] \in Characters
    BY LenProperties, ElementOfSeq
  <1>2. d = IF I # {} THEN Min(I) ELSE 0
    BY DEF Dot, SelectInSeq
  <1>3. d = 0 \/ (d \in 1..L /\ u[d] = ".")
    <2>1. CASE I = {}
      <3> HIDE DEF I, d
      <3> QED
        BY <1>2, <2>1
    <2>2. CASE I # {}
      <3>1. I \in SUBSET Nat
        <4>1. I \in SUBSET (1..L) /\ 1..L \subseteq Nat
          BY <1>1
        <4> HIDE DEF I
        <4> QED
          BY <4>1
      <3>2. \E x \in I : \A y \in I : x <= y
        <4> HIDE DEF I
        <4> QED
          BY <2>2, <3>1, LeastElement
      <3>3. Min(I) \in I
        <4> HIDE DEF I
        <4> QED
          BY <3>2 DEF Min
      <3>4. d = Min(I)
        <4> HIDE DEF I, d
        <4> QED
          BY <1>2, <2>2
      <3>5. d \in I
        <4> HIDE DEF I, d
        <4> QED
          BY <3>3, <3>4
      <3> HIDE DEF d
      <3> QED
        BY <3>5
    <2> QED
      BY <2>1, <2>2
  <1> HIDE DEF I
  <1>4. CASE d = 0
    <2>1. Before(u) = u /\ After(u) = <<>>
      BY <1>4 DEF Before, After
    <2>2. u = u \o <<>> \o <<>> /\ <<>> \in Seq(Characters)
      BY ConcatEmptySeq, EmptySeq
    <2> QED
      BY <2>1, <2>2
  <1>5. CASE d # 0
    <2> DEFINE b == SubSeq(u, 1, d - 1)
               a == SubSeq(u, d + 1, L)
               c == SubSeq(u, d, d)
               front == SubSeq(u, 1, d)
               P == <<".">>
    <2>1. Before(u) = b /\ After(u) = a
      BY <1>5 DEF Before, After
    <2>2. d \in 1..L /\ u[d] = "." /\ d \in Int
      BY <1>1, <1>3, <1>5
    <2>3. d - 1 \in Int /\ d + 1 \in Int /\ 1 \in Int /\ L \in Int
      BY <1>1, <2>2
    <2> HIDE DEF d, L
    <2>4. b \in Seq(Characters) /\ a \in Seq(Characters)
      <3>1. /\ \A i \in 1..(d - 1) : u[i] \in Characters
            /\ \A i \in (d + 1)..L : u[i] \in Characters
        BY <1>1, <2>2
      <3>2. b \in Seq(Characters)
        <4> DEFINE e == d - 1
        <4>1. e \in Int /\ \A i \in 1..e : u[i] \in Characters
          BY <2>3, <3>1
        <4> HIDE DEF e
        <4>2. SubSeq(u, 1, e) \in Seq(Characters)
          BY <2>3, <4>1, SubSeqProperties
        <4> QED
          BY <4>2 DEF e
      <3>3. a \in Seq(Characters)
        <4> DEFINE e == d + 1
        <4>1. e \in Int /\ \A i \in e..L : u[i] \in Characters
          BY <2>3, <3>1
        <4> HIDE DEF e
        <4>2. SubSeq(u, e, L) \in Seq(Characters)
          BY <2>3, <4>1, SubSeqProperties
        <4> QED
          BY <4>2 DEF e
      <3> QED
        BY <3>2, <3>3
    <2>5. front = b \o P
      <3>1. 1 \in 1..L /\ d \in 1..L
        BY <1>1, <2>2
      <3>2. SubSeq(u, 1, d) = SubSeq(u, 1, d - 1) \o <<u[d]>>
        BY <3>1, <1>1, SubSeqRecursiveSecond DEF L
      <3> QED
        BY <2>2, <3>2
    <2>6. u = front \o a
      <3> DEFINE one == 1
      <3>1. one \in 1..(L + 1) /\ d \in (one - 1)..L /\ L \in d..L
        BY <1>1, <2>2
      <3> HIDE DEF one
      <3>2. SubSeq(u, one, d) \o SubSeq(u, d + 1, L) = SubSeq(u, one, L)
        BY <3>1, ConcatAdjacentSubSeq DEF L
      <3>3. SubSeq(u, 1, L) = u
        BY SubSeqFull DEF L
      <3> QED
        BY <3>2, <3>3 DEF one
    <2>7. u = b \o P \o a /\ P # <<>>
      BY <2>5, <2>6
    <2> HIDE DEF b, a
    <2> QED
      BY <2>1, <2>4, <2>7
  <1> QED
    BY <1>4, <1>5

\* Nothing else is accepted: a sign, a numeral, perhaps a point, a numeral.
LEMMA AcceptedOnly ==
    ASSUME NEW s \in Seq(Characters), IsMoney(s)
    PROVE  \E g, M, P, m : Reads(TrimSpace(s), g, M, P, m)
  <1> DEFINE u == Unsigned(s)
             M == Before(u)
             m == After(u)
             zeros == [i \in 1..(2 - Len(m)) |-> "0"]
             major == MajorPart(u)
             padded == m \o zeros
             digits == major \o padded
  <1>1. /\ TrimSpace(s) # <<>>
        /\ Len(major) <= MaxMajorDigits
        /\ Len(m) <= 2
        /\ IsDigits(digits)
    BY DEF IsMoney, MinorPart
  <1>2. PICK g \in Signs : TrimSpace(s) = g \o u
    BY SignsWereThere
  <1>3. u \in Seq(Characters)
    BY SignsWereThere
  <1> HIDE DEF u
  <1>4. PICK P \in {<<>>, <<".">>} : u = M \o P \o m /\ (m # <<>> => P # <<>>)
    BY <1>3, PartsOfText
  <1>5. M \in Seq(Characters) /\ m \in Seq(Characters)
    BY <1>3, PartsOfText
  <1>6. major = IF M = <<>> THEN <<"0">> ELSE M
    BY DEF MajorPart
  <1> HIDE DEF M, m, major
  <1>7. "0" \in Characters /\ MaxMajorDigits \in Nat \ {0}
    BY DigitValues, MoneyAssumption DEF Characters
  <1>8. major \in Seq(Characters)
    BY <1>5, <1>6, <1>7
  <1>9. zeros \in Seq(Characters)
    <2> DEFINE k == 2 - Len(m)
    <2>1. k \in Nat
      <3>1. Len(m) \in Nat
        BY <1>5, LenProperties
      <3> QED
        BY <1>1, <3>1
    <2> HIDE DEF k
    <2>2. [i \in 1..k |-> "0"] \in [1..k -> Characters]
      BY <1>7
    <2>3. [i \in 1..k |-> "0"] \in Seq(Characters)
      BY <2>1, <2>2
    <2> QED
      BY <2>3 DEF k
  <1> HIDE DEF zeros
  <1>10. /\ padded \in Seq(Characters)
         /\ Len(padded) = Len(m) + Len(zeros)
         /\ Len(m) \in Nat /\ Len(zeros) \in Nat
         /\ \A i \in 1..Len(m) : padded[i] = m[i]
    BY <1>5, <1>9, Joined
  <1> HIDE DEF padded
  <1>11. /\ digits \in Seq(Characters)
         /\ Len(digits) = Len(major) + Len(padded)
         /\ Len(major) \in Nat /\ Len(padded) \in Nat
         /\ \A i \in 1..Len(major) : digits[i] = major[i]
         /\ \A i \in 1..Len(padded) : digits[Len(major) + i] = padded[i]
    BY <1>8, <1>10, Joined
  <1> HIDE DEF digits
  <1>12. \A i \in 1..Len(digits) : digits[i] \in ToSet(Digits)
    <2>1. ToSet(digits) \subseteq ToSet(Digits)
      BY <1>1 DEF IsDigits, DigitValue
    <2> QED
      BY <1>11, <2>1, ElementsOfSeq
  <1>13. \A i \in 1..Len(m) : m[i] \in ToSet(Digits)
    <2> SUFFICES ASSUME NEW i \in 1..Len(m) PROVE m[i] \in ToSet(Digits)
      OBVIOUS
    <2> DEFINE j == Len(major) + i
    <2>1. i \in 1..Len(padded) /\ j \in 1..Len(digits)
      BY <1>10, <1>11
    <2> HIDE DEF j
    <2>2. digits[j] = padded[i] /\ padded[i] = m[i]
      BY <1>10, <1>11, <2>1 DEF j
    <2> QED
      BY <1>12, <2>1, <2>2
  <1>14. \A i \in 1..Len(major) : major[i] \in ToSet(Digits)
    BY <1>11, <1>12
  <1>15. ASSUME NEW v \in Seq(Characters), \A i \in 1..Len(v) : v[i] \in ToSet(Digits)
         PROVE  Numeral(v)
    <2>1. v \in [1..Len(v) -> ToSet(Digits)] /\ Len(v) \in Nat
      BY <1>15, LenProperties
    <2> QED
      BY <2>1 DEF Numeral
  <1>16. Numeral(m)
    BY <1>5, <1>13, <1>15
  <1>17. Numeral(M) /\ Len(M) <= MaxMajorDigits
    <2>1. CASE M = <<>>
      <3>1. Numeral(<<>>) /\ Len(<<>>) = 0
        BY EmptySeq DEF Numeral
      <3> QED
        BY <1>7, <2>1, <3>1
    <2>2. CASE M # <<>>
      BY <1>1, <1>6, <1>8, <1>14, <1>15, <2>2
    <2> QED
      BY <2>1, <2>2
  <1>18. Reads(TrimSpace(s), g, M, P, m)
    BY <1>1, <1>2, <1>4, <1>16, <1>17 DEF Reads
  <1> QED
    BY <1>18

\* ParseMoney accepts exactly what is, without the white space around it, at
\* most a plus and a minus, at most MaxMajorDigits digits, and perhaps a point
\* and at most two digits, and is not empty.
THEOREM MoneyGrammar ==
    \A s \in Seq(Characters) :
        IsMoney(s) <=> \E g, M, P, m : Reads(TrimSpace(s), g, M, P, m)
  BY Accepted, AcceptedOnly

\* What ParseMoney makes of such text is what its digits say: nothing wraps.
THEOREM MoneyValue ==
    \A s, g, M, P, m :
        Reads(TrimSpace(s), g, M, P, m) =>
            ParseMoney(s) = IF g = <<"-">> THEN -Worth(M, m) ELSE Worth(M, m)
  BY Accepted

-----------------------------------------------------------------------------
(***************************************************************************)
(* Decimal text and what it means.                                         *)
(***************************************************************************)
\* What a sign and two numerals mean.
Value(g, M, m) == IF g = <<"-">> THEN -Worth(M, m) ELSE Worth(M, m)

\* The digits requests use are digits.
LEMMA Used == UsedDigits \subseteq ToSet(Digits)
  BY DEF UsedDigits

\* A sequence of at most n digits, as BoundedSeq has it.
LEMMA ShortNumerals ==
    ASSUME NEW n \in Nat, NEW s
    PROVE  s \in BoundedSeq(UsedDigits, n) <=>
               Numeral(s) /\ Len(s) <= n /\ ToSet(s) \subseteq UsedDigits
  <1>1. BoundedSeq(UsedDigits, n) = UNION {[1..k -> UsedDigits] : k \in 0..n}
    BY DEF BoundedSeq, SeqOf
  <1>2. ASSUME s \in BoundedSeq(UsedDigits, n)
        PROVE  Numeral(s) /\ Len(s) <= n /\ ToSet(s) \subseteq UsedDigits
    <2>1. PICK k \in 0..n : s \in [1..k -> UsedDigits]
      BY <1>1, <1>2
    <2>2. s \in Seq(UsedDigits) /\ Len(s) = k
      BY <2>1
    <2>3. s \in Seq(ToSet(Digits))
      BY <2>2, Used, SeqMonotonic
    <2>4. DOMAIN s = 1..k /\ \A i \in 1..k : s[i] \in UsedDigits
      BY <2>1
    <2>5. ToSet(s) \subseteq UsedDigits
      BY <2>4 DEF ToSet
    <2> QED
      BY <2>1, <2>2, <2>3, <2>5 DEF Numeral
  <1>3. ASSUME Numeral(s), Len(s) <= n, ToSet(s) \subseteq UsedDigits
        PROVE  s \in BoundedSeq(UsedDigits, n)
    <2> DEFINE k == Len(s)
    <2>1. k \in Nat /\ k <= n /\ s \in [1..k -> ToSet(Digits)] /\ DOMAIN s = 1..k
      BY <1>3, LenProperties DEF Numeral
    <2>2. \A i \in 1..k : s[i] \in UsedDigits
      BY <1>3, <2>1 DEF ToSet
    <2> HIDE DEF k
    <2>3. k \in 0..n /\ s \in [1..k -> UsedDigits]
      BY <2>1, <2>2
    <2> QED
      BY <1>1, <2>3
  <1> QED
    BY <1>2, <1>3

\* Signs and points are text without a digit.
LEMMA SignsAndPoints ==
    /\ \A g \in Signs : g \in Seq(Characters) /\ ToSet(g) \cap ToSet(Digits) = {}
    /\ \A P \in {<<>>, <<".">>} : P \in Seq(Characters) /\ ToSet(P) \cap ToSet(Digits) = {}
  <1>1. /\ <<>> \in Seq(Characters)
        /\ <<"+">> \in Seq(Characters)
        /\ <<"-">> \in Seq(Characters)
        /\ <<"+", "-">> \in Seq(Characters)
        /\ <<".">> \in Seq(Characters)
    BY DEF Characters
  <1>2. /\ ToSet(<<>>) = {}
        /\ ToSet(<<"+">>) = {"+"}
        /\ ToSet(<<"-">>) = {"-"}
        /\ ToSet(<<"+", "-">>) = {"+", "-"}
        /\ ToSet(<<".">>) = {"."}
    BY DEF ToSet
  <1>3. {"+", "-", "."} \cap ToSet(Digits) = {}
    BY DigitValues
  <1>4. ASSUME NEW g \in Signs
        PROVE  g \in Seq(Characters) /\ ToSet(g) \cap ToSet(Digits) = {}
    BY <1>1, <1>2, <1>3 DEF Signs
  <1>5. ASSUME NEW P \in {<<>>, <<".">>}
        PROVE  P \in Seq(Characters) /\ ToSet(P) \cap ToSet(Digits) = {}
    BY <1>1, <1>2, <1>3
  <1> QED
    BY <1>4, <1>5

\* A numeral with a digit is not empty.
LEMMA SomeDigit ==
    ASSUME NEW M, Numeral(M), NEW m, Numeral(m), NEW P \in {<<>>, <<".">>},
           m # <<>> => P # <<>>, M # <<>> \/ m # <<>>
    PROVE  M \o P \o m \in Seq(Characters) /\ M \o P \o m # <<>>
  <1> DEFINE u == M \o P \o m
             a == Len(M)
             b == Len(m)
             c == Len(P)
  <1>1. M \in Seq(Characters) /\ m \in Seq(Characters) /\ P \in Seq(Characters)
    BY NumeralIsText, SignsAndPoints
  <1>2. u \in Seq(Characters) /\ Len(u) = a + c + b
    <2>1. FallsApart(u, M, P, m)
      BY CutOfParts
    <2> QED
      BY <2>1 DEF FallsApart
  <1>3. a \in Nat /\ b \in Nat /\ c \in Nat
    BY <1>1, LenProperties
  <1>4. a # 0 \/ b # 0
    BY <1>1, EmptySeq
  <1> HIDE DEF u, a, b, c
  <1>5. Len(u) # 0
    BY <1>2, <1>3, <1>4
  <1>6. u # <<>>
    BY <1>5, EmptySeq
  <1> QED
    BY <1>2, <1>6 DEF u

\* The parts of decimal text can be bracketed either way.
LEMMA Bracketed ==
    ASSUME NEW g \in Signs, NEW M, Numeral(M), NEW P \in {<<>>, <<".">>},
           NEW m, Numeral(m)
    PROVE  g \o M \o P \o m = g \o (M \o P \o m)
  <1>1. M \in Seq(Characters) /\ m \in Seq(Characters)
    BY NumeralIsText
  <1>2. P \in Seq(Characters)
    BY SignsAndPoints
  <1>3. g \in Seq(Characters)
    BY SignsAndPoints
  <1>4. (g \o M) \o P = g \o (M \o P)
    <2>1. \A a, b, c \in Seq(Characters) : (a \o b) \o c = a \o (b \o c)
      BY ConcatAssociative
    <2> QED
      BY <1>1, <1>2, <1>3, <2>1
  <1> DEFINE MP == M \o P
  <1>5. MP \in Seq(Characters)
    BY <1>1, <1>2, ConcatProperties
  <1>6. (g \o MP) \o m = g \o (MP \o m)
    <2> HIDE DEF MP
    <2> QED
      BY <1>1, <1>3, <1>5, ConcatAssociative
  <1> QED
    BY <1>4, <1>6

\* The decimal texts are what can be read with at most one sign and with at
\* least one digit, and mean what is read.
LEMMA Meant ==
    ASSUME NEW t, NEW g \in {<<>>, <<"+">>, <<"-">>}, NEW M, NEW P, NEW m,
           Reads(t, g, M, P, m), M # <<>> \/ m # <<>>,
           ToSet(M) \subseteq UsedDigits, ToSet(m) \subseteq UsedDigits
    PROVE  <<t, Value(g, M, m)>> \in Meanings
  <1> DEFINE n == [sign |-> g, major |-> M, point |-> P, minor |-> m]
  <1>1. /\ Numeral(M) /\ Len(M) <= MaxMajorDigits
        /\ P \in {<<>>, <<".">>}
        /\ Numeral(m) /\ Len(m) <= 2
        /\ m # <<>> => P # <<>>
        /\ t = g \o (M \o P \o m)
        /\ g \in Signs
    BY DEF Reads
  <1>2. MaxMajorDigits \in Nat /\ 2 \in Nat
    BY MoneyAssumption
  <1>3. M \in BoundedSeq(UsedDigits, MaxMajorDigits)
    BY <1>1, <1>2, ShortNumerals
  <1>4. m \in BoundedSeq(UsedDigits, 2)
    <2> DEFINE two == 2
    <2>1. two \in Nat /\ Len(m) <= two
      BY <1>1
    <2> HIDE DEF two
    <2>2. m \in BoundedSeq(UsedDigits, two)
      BY <1>1, <2>1, ShortNumerals
    <2> QED
      BY <2>2 DEF two
  <1>5. n \in Numerals
    BY <1>1, <1>3, <1>4 DEF Numerals
  <1>6. t = n.sign \o n.major \o n.point \o n.minor
    BY <1>1, Bracketed
  <1>7. Magnitude(n) = Worth(M, m)
    BY <1>1, WorthFits DEF Magnitude
  <1>8. Value(g, M, m) = IF n.sign = <<"-">> THEN -Magnitude(n) ELSE Magnitude(n)
    BY <1>7 DEF Value
  <1> HIDE DEF n
  <1> QED
    BY <1>5, <1>6, <1>8 DEF Meanings

\* What means something can be read, and means what is read.
LEMMA MeaningIsRead ==
    ASSUME NEW t \in DecimalTexts
    PROVE  \E g, M, P, m :
               Reads(t, g, M, P, m) /\ <<t, Value(g, M, m)>> \in Meanings
  <1>1. PICK n \in Numerals :
            /\ t = n.sign \o n.major \o n.point \o n.minor
            /\ <<t, IF n.sign = <<"-">> THEN -Magnitude(n) ELSE Magnitude(n)>>
                   \in Meanings
    <2> DEFINE Of(n) ==
                   <<n.sign \o n.major \o n.point \o n.minor,
                     IF n.sign = <<"-">> THEN -Magnitude(n) ELSE Magnitude(n)>>
    <2>1. Meanings = {Of(n) : n \in Numerals}
      BY DEF Meanings
    <2>2. PICK meaning \in Meanings : t = meaning[1]
      BY DEF DecimalTexts
    <2>3. PICK n \in Numerals : meaning = Of(n)
      <3> HIDE DEF Of
      <3> QED
        BY <2>1, <2>2
    <2>4. Of(n)[1] = n.sign \o n.major \o n.point \o n.minor
      OBVIOUS
    <2>5. Of(n) \in Meanings /\ t = n.sign \o n.major \o n.point \o n.minor
      <3> HIDE DEF Of
      <3> QED
        BY <2>2, <2>3, <2>4
    <2> QED
      BY <2>5
  <1> DEFINE g == n.sign
             M == n.major
             P == n.point
             m == n.minor
             two == 2
  <1>2. /\ g \in {<<>>, <<"+">>, <<"-">>} /\ P \in {<<>>, <<".">>}
        /\ M \in BoundedSeq(UsedDigits, MaxMajorDigits)
        /\ m \in BoundedSeq(UsedDigits, two)
        /\ M # <<>> \/ m # <<>>
        /\ m # <<>> => P # <<>>
    BY DEF Numerals
  <1>3. Magnitude(n) = Weigh(M) * 100 + Weigh(m) * Power10[2 - Len(m)]
    BY DEF Magnitude
  <1>4. two \in Nat /\ MaxMajorDigits \in Nat
    BY MoneyAssumption
  <1> HIDE DEF g, M, P, m
  <1>5. /\ Numeral(M) /\ Len(M) <= MaxMajorDigits
        /\ Numeral(m) /\ Len(m) <= two
    <2> HIDE DEF two
    <2> QED
      BY <1>2, <1>4, ShortNumerals
  <1>6. g \in Signs
    BY <1>2 DEF Signs
  <1>7. t = g \o (M \o P \o m)
    <2>1. t = g \o M \o P \o m
      BY <1>1 DEF g, M, P, m
    <2>2. g \o M \o P \o m = g \o (M \o P \o m)
      BY <1>2, <1>5, <1>6, Bracketed
    <2> QED
      BY <2>1, <2>2
  <1>8. t # <<>>
    <2> DEFINE u == M \o P \o m
    <2>1. u \in Seq(Characters) /\ u # <<>>
      BY <1>2, <1>5, SomeDigit
    <2>2. g \in Seq(Characters)
      BY <1>6, SignsAndPoints
    <2> HIDE DEF u
    <2>3. g \o u # <<>>
      BY <2>1, <2>2, ConcatEqualIffEmpty
    <2> QED
      BY <1>7, <2>3 DEF u
  <1>9. Reads(t, g, M, P, m)
    BY <1>2, <1>5, <1>6, <1>7, <1>8 DEF Reads, two
  <1>10. Magnitude(n) = Worth(M, m)
    BY <1>3, <1>5, WorthFits DEF two
  <1>11. <<t, Value(g, M, m)>> \in Meanings
    BY <1>1, <1>10 DEF Value, g
  <1> QED
    BY <1>9, <1>11

-----------------------------------------------------------------------------
(***************************************************************************)
(* What String writes.                                                     *)
(***************************************************************************)

\* A zero in front adds a digit and no worth.
LEMMA LeadingZero ==
    ASSUME NEW s, Numeral(s), Len(s) # 0, s[1] = "0"
    PROVE  ParseInt(s) < Power10[Len(s) - 1]
  <1> DEFINE N == Len(s)
  <1>1. N \in Nat \ {0} /\ \A i \in 1..N : DigitValue[s[i]] \in 0..9
    BY NumeralDigits
  <1>2. PICK v \in [0..N -> Nat] :
            /\ v[0] = 0
            /\ \A i \in 1..N : v[i] = 10 * v[i - 1] + DigitValue[s[i]]
            /\ ParseInt(s) = v[N]
    BY ParseIntRecursion
  <1> HIDE DEF N
  <1> DEFINE S == {i \in Nat : i + 1 <= N => v[i + 1] < Power10[i]}
  <1>3. 0 \in S
    <2>1. DigitValue["0"] = 0
      <3>1. Digits[0 + 1] = "0" /\ 0 \in 0..9
        BY DEF Digits
      <3> QED
        BY <3>1, DigitValues
    <2>2. 1 \in 1..N /\ 1 - 1 = 0
      BY <1>1
    <2>3. v[1] = 10 * v[0] + DigitValue[s[1]]
      BY <1>2, <2>2
    <2>4. v[0 + 1] < Power10[0]
      BY <1>2, <2>1, <2>3, SmallPowers
    <2> QED
      BY <2>4
  <1>4. ASSUME NEW i \in Nat, i \in S PROVE i + 1 \in S
    <2> SUFFICES ASSUME i + 1 + 1 <= N PROVE v[i + 1 + 1] < Power10[i + 1]
      OBVIOUS
    <2> DEFINE j == i + 1
    <2>1. j + 1 \in 1..N /\ (j + 1) - 1 = j /\ j \in 0..N /\ v[j] < Power10[i]
      BY <1>1, <1>4
    <2>2. Power10[j] = 10 * Power10[i] /\ Power10[i] \in Nat
      BY Powers
    <2> HIDE DEF j
    <2>3. v[j + 1] = 10 * v[j] + DigitValue[s[j + 1]]
      BY <1>2, <2>1
    <2>4. DigitValue[s[j + 1]] \in 0..9 /\ v[j] \in Nat
      BY <1>1, <1>2, <2>1
    <2>5. v[j + 1] < Power10[j]
      <3> DEFINE x == v[j]
                 y == Power10[i]
                 z == DigitValue[s[j + 1]]
      <3>1. x \in Nat /\ y \in Nat /\ z \in 0..9 /\ x < y
        BY <2>1, <2>2, <2>4
      <3>2. v[j + 1] = 10 * x + z /\ Power10[j] = 10 * y
        BY <2>2, <2>3
      <3> HIDE DEF x, y, z
      <3>3. 10 * x + z < 10 * y
        BY <3>1
      <3> QED
        BY <3>2, <3>3
    <2> QED
      BY <2>5 DEF j
  <1>5. N - 1 \in S
    <2>1. N - 1 \in Nat
      BY <1>1
    <2> HIDE DEF S
    <2> QED
      BY <1>3, <1>4, <2>1, Induction
  <1>6. (N - 1) + 1 = N
    BY <1>1
  <1>7. v[N] < Power10[N - 1]
    BY <1>1, <1>5, <1>6
  <1> QED
    BY <1>2, <1>7 DEF N

\* Format writes the major units without a superfluous zero, a point and the
\* minor units in two digits.
LEMMA FormatParts ==
    ASSUME NEW n \in Nat
    PROVE  \E M, m :
               /\ Format(n) = M \o <<".">> \o m
               /\ Numeral(M) /\ Numeral(m) /\ Len(m) = 2
               /\ Len(M) = 1 \/ (Len(M) > 1 /\ n \div 100 >= Power10[Len(M) - 1])
               /\ M[1] # "0" \/ Len(M) = 1
               /\ ParseInt(M) = n \div 100
               /\ ParseInt(M) * 100 + ParseInt(m) = n
  <1> DEFINE q == n \div 100
             r == n % 100
             M == Decimal(q, 1)
             m == Decimal(r, 2)
             hundred == 100
  <1>1. q \in Nat /\ r \in 0..99 /\ n = q * 100 + r
    <2>1. hundred \in Nat \ {0} /\ n \in Int
      OBVIOUS
    <2>2. /\ n \div hundred \in Int
          /\ n % hundred \in 0..(hundred - 1)
          /\ n = (n \div hundred) * hundred + (n % hundred)
      <3> HIDE DEF hundred
      <3> QED
        BY <2>1, Division
    <2>3. q \in Int /\ r \in 0..99 /\ n = q * 100 + r
      BY <2>2
    <2> HIDE DEF q, r
    <2> QED
      BY <2>3
  <1> HIDE DEF hundred
  <1>2. Format(n) = M \o <<".">> \o m
    BY DEF Format
  <1> HIDE DEF q, r
  <1>3. /\ Numeral(M) /\ Len(M) >= 1
        /\ Len(M) = 1 \/ q >= Power10[Len(M) - 1]
        /\ ParseInt(M) = q
    <2> DEFINE one == 1
    <2>1. one \in Nat \ {0}
      OBVIOUS
    <2> HIDE DEF one
    <2>2. LET d == Decimal(q, one)
          IN  /\ Numeral(d) /\ Len(d) >= one
              /\ Len(d) = one \/ q >= Power10[Len(d) - 1]
              /\ ParseInt(d) = q
      BY <1>1, <2>1, DecimalIsNumeral
    <2> QED
      BY <2>2 DEF one
  <1>4. /\ Numeral(m) /\ Len(m) >= 2
        /\ Len(m) = 2 \/ r >= Power10[Len(m) - 1]
        /\ ParseInt(m) = r
    <2> DEFINE two == 2
    <2>1. two \in Nat \ {0} /\ r \in Nat
      BY <1>1
    <2> HIDE DEF two
    <2>2. LET d == Decimal(r, two)
          IN  /\ Numeral(d) /\ Len(d) >= two
              /\ Len(d) = two \/ r >= Power10[Len(d) - 1]
              /\ ParseInt(d) = r
      BY <2>1, DecimalIsNumeral
    <2> QED
      BY <2>2 DEF two
  <1> HIDE DEF M, m
  <1>5. Len(M) \in Nat /\ Len(m) \in Nat
    BY <1>3, <1>4, NumeralDigits
  <1>6. Len(m) = 2
    <2> SUFFICES ASSUME Len(m) # 2 PROVE FALSE
      OBVIOUS
    <2> DEFINE l == Len(m)
               k == l - 1
    <2>1. k \in Nat /\ 2 <= k /\ r >= Power10[k]
      <3>1. l \in Nat /\ l >= 2 /\ l # 2 /\ r >= Power10[l - 1]
        BY <1>4, <1>5
      <3> HIDE DEF l
      <3> QED
        BY <3>1
    <2>2. Power10[2] <= Power10[k] /\ Power10[k] \in Nat
      <3> DEFINE two == 2
      <3>1. two \in Nat /\ two <= k
        BY <2>1
      <3> HIDE DEF two, k
      <3>2. Power10[two] <= Power10[k]
        BY <2>1, <3>1, PowersNeverShrink
      <3> QED
        BY <2>1, <3>2, Powers DEF two
    <2> HIDE DEF k
    <2> QED
      BY <1>1, <2>1, <2>2, SmallPowers
  <1>7. M[1] # "0" \/ Len(M) = 1
    <2> SUFFICES ASSUME M[1] = "0", Len(M) # 1 PROVE FALSE
      OBVIOUS
    <2>1. q >= Power10[Len(M) - 1] /\ Len(M) - 1 \in Nat /\ Len(M) # 0
      BY <1>3, <1>5
    <2>2. q < Power10[Len(M) - 1]
      BY <1>3, <2>1, LeadingZero
    <2>3. Power10[Len(M) - 1] \in Nat
      BY <2>1, Powers
    <2> QED
      BY <1>1, <2>1, <2>2, <2>3
  <1>8. Len(M) = 1 \/ (Len(M) > 1 /\ q >= Power10[Len(M) - 1])
    <2> DEFINE l == Len(M)
    <2>1. l \in Nat /\ l >= 1 /\ (l = 1 \/ q >= Power10[l - 1])
      BY <1>3, <1>5
    <2> HIDE DEF l
    <2>2. l = 1 \/ (l > 1 /\ q >= Power10[l - 1])
      BY <2>1
    <2> QED
      BY <2>2 DEF l
  <1>9. ParseInt(M) * 100 + ParseInt(m) = n
    BY <1>1, <1>3, <1>4
  <1>10. ParseInt(M) = n \div 100
    BY <1>3 DEF q
  <1> QED
    BY <1>2, <1>3, <1>4, <1>6, <1>7, <1>8, <1>9, <1>10 DEF q

\* The smallest amount is written like every other.
LEMMA SignedText ==
    ASSUME NEW a \in -Half..(Half - 1)
    PROVE  String(a) = IF a < 0 THEN <<"-">> \o Format(-a) ELSE Format(a)
  <1>1. Half \in Nat \ {0}
    BY MoneyAssumption
  <1>2. CASE a = -Half
    <2>1. a < 0 /\ -a = Half
      BY <1>1, <1>2
    <2> QED
      BY <1>2, <2>1 DEF String, SmallestText
  <1>3. CASE a # -Half
    BY <1>3 DEF String
  <1> QED
    BY <1>2, <1>3

\* What String writes is a sign, a numeral, a point and two digits.
LEMMA StringReads ==
    ASSUME NEW a \in -Half..(Half - 1), -DecimalMax <= a, a <= DecimalMax
    PROVE  IsMoney(String(a)) /\ ParseMoney(String(a)) = a
  <1> DEFINE n == IF a < 0 THEN -a ELSE a
             g == IF a < 0 THEN <<"-">> ELSE <<>>
             P == <<".">>
             s == String(a)
  <1>1. /\ Half \in Nat \ {0} /\ DecimalMax \in Nat /\ MaxMajorDigits \in Nat \ {0}
        /\ DecimalMax < Power10[MaxMajorDigits + 2]
    BY MoneyAssumption
  <1>2. n \in Nat /\ n <= DecimalMax
    BY <1>1
  <1>3. s = g \o Format(n)
    <2>1. CASE a < 0
      BY <2>1, SignedText
    <2>2. CASE ~(a < 0)
      <3>1. s = Format(n) /\ g = <<>>
        BY <2>2, SignedText
      <3>2. Format(n) \in Seq(Characters)
        <4> HIDE DEF n
        <4>1. PICK M, m : Format(n) = M \o <<".">> \o m /\ Numeral(M) /\ Numeral(m)
          BY <1>2, FormatParts
        <4>2. P \in {<<>>, <<".">>} /\ P # <<>>
          OBVIOUS
        <4>3. FallsApart(M \o P \o m, M, P, m)
          BY <4>1, <4>2, CutOfParts
        <4> QED
          BY <4>1, <4>3 DEF FallsApart
      <3> HIDE DEF s, g, n
      <3> QED
        BY <3>1, <3>2, ConcatEmptySeq
    <2> QED
      BY <2>1, <2>2
  <1>4. g \in Signs /\ (g = <<"-">> <=> a < 0) /\ (g = <<>> \/ g = <<"-">>)
    BY DEF Signs
  <1>5. a = IF g = <<"-">> THEN -n ELSE n
    BY <1>4
  <1> HIDE DEF n, g, s
  <1>6. PICK M, m :
            /\ Format(n) = M \o P \o m
            /\ Numeral(M) /\ Numeral(m) /\ Len(m) = 2
            /\ Len(M) = 1 \/ (Len(M) > 1 /\ n \div 100 >= Power10[Len(M) - 1])
            /\ ParseInt(M) = n \div 100
            /\ ParseInt(M) * 100 + ParseInt(m) = n
    BY <1>2, FormatParts
  <1>7. /\ Len(M) \in Nat /\ ParseInt(M) \in Nat
        /\ ParseInt(m) \in 0..99 /\ ParseInt(m) \in Nat
    <2>1. Len(M) \in Nat
      BY <1>6, NumeralDigits
    <2>2. ParseInt(M) \in 0..(Power10[Len(M)] - 1) /\ ParseInt(m) \in 0..(Power10[2] - 1)
      BY <1>6, ParseIntWeighs
    <2>3. ParseInt(M) \in Nat
      BY <2>2
    <2>4. ParseInt(m) \in 0..99 /\ ParseInt(m) \in Nat
      <3> DEFINE b == ParseInt(m)
      <3>1. b \in 0..99
        BY <2>2, SmallPowers
      <3> HIDE DEF b
      <3>2. b \in Nat
        BY <3>1
      <3> QED
        BY <3>1, <3>2 DEF b
    <2> QED
      BY <2>1, <2>3, <2>4
  <1>8. Len(M) <= MaxMajorDigits
    <2> SUFFICES ASSUME Len(M) > MaxMajorDigits PROVE FALSE
      BY <1>1, <1>7
    <2> DEFINE l == Len(M)
               k == l - 1
               top == Power10[MaxMajorDigits]
    <2>1. k \in Nat /\ MaxMajorDigits <= k /\ ParseInt(M) >= Power10[k]
      <3>1. /\ l \in Nat /\ l > MaxMajorDigits
            /\ l = 1 \/ ParseInt(M) >= Power10[l - 1]
        BY <1>6, <1>7
      <3> HIDE DEF l
      <3>2. l \in Nat /\ l # 1 /\ l - 1 \in Nat /\ MaxMajorDigits <= l - 1
        BY <1>1, <3>1
      <3> QED
        BY <3>1, <3>2
    <2> HIDE DEF k
    <2>2. top <= Power10[k] /\ top \in Nat /\ Power10[k] \in Nat
      BY <1>1, <2>1, Powers, PowersNeverShrink
    <2>3. Power10[MaxMajorDigits + 2] = 100 * top
      BY <1>1, TwoMoreDigits
    <2>4. n < 100 * top
      BY <1>1, <1>2, <2>2, <2>3
    <2> HIDE DEF top
    <2> QED
      BY <1>2, <1>6, <1>7, <2>1, <2>2, <2>4
  <1> DEFINE u == M \o P \o m
  <1>9. /\ u \in Seq(Characters)
        /\ Len(u) = Len(M) + Len(P) + Len(m)
        /\ \A i \in 1..Len(u) : u[i] \in ToSet(Digits) \cup {"."}
    <2>1. FallsApart(u, M, P, m)
      BY <1>6, CutOfParts
    <2> QED
      BY <2>1 DEF FallsApart
  <1>10. s = g \o u
    BY <1>3, <1>6
  <1> HIDE DEF u
  <1>11. TrimSpace(s) = s /\ s # <<>>
    <2>1. Len(u) \in Nat \ {0}
      <3>1. Len(P) = 1
        OBVIOUS
      <3> QED
        BY <1>6, <1>7, <1>9, <3>1
    <2>2. \A i \in 1..Len(u) : u[i] # "s"
      BY <1>9, DigitValues
    <2>3. g \in Seq(Characters) /\ Len(g) \in {0, 1} /\ (Len(g) = 1 => g[1] = "-")
      <3>1. CASE g = <<>>
        BY <3>1, EmptySeq
      <3>2. CASE g = <<"-">>
        <4>1. /\ <<"-">> \in Seq(Characters)
              /\ Len(<<"-">>) = 1 /\ <<"-">>[1] = "-"
          BY DEF Characters
        <4> QED
          BY <3>2, <4>1
      <3> QED
        BY <1>4, <3>1, <3>2
    <2> DEFINE k == Len(g)
               l == Len(u)
    <2>4. /\ s \in Seq(Characters)
          /\ Len(s) = k + l
          /\ \A i \in 1..k : s[i] = g[i]
          /\ \A i \in 1..l : s[k + i] = u[i]
      BY <1>9, <1>10, <2>3, Joined
    <2> HIDE DEF k, l
    <2>5. l \in Nat \ {0} /\ (k = 0 \/ (k = 1 /\ g[1] = "-"))
      BY <2>1, <2>3 DEF k, l
    <2>6. s[Len(s)] # "s"
      <3>1. s[k + l] = u[l] /\ l \in 1..l
        BY <2>4, <2>5
      <3> QED
        BY <2>2, <2>4, <3>1 DEF l
    <2>7. s[1] # "s"
      <3>1. CASE k = 0
        <4>1. 1 \in 1..l /\ k + 1 = 1
          BY <2>5, <3>1
        <4>2. s[1] = u[1]
          BY <2>4, <4>1
        <4> QED
          BY <2>2, <4>1, <4>2 DEF l
      <3>2. CASE k = 1
        <4>1. 1 \in 1..k
          BY <3>2
        <4> QED
          BY <2>4, <2>5, <3>2, <4>1
      <3> QED
        BY <2>5, <3>1, <3>2
    <2>8. s # <<>>
      <3>1. Len(s) # 0
        BY <2>4, <2>5
      <3> QED
        BY <3>1, EmptySeq
    <2> QED
      BY <2>4, <2>6, <2>7, <2>8, TrimOfTight
  <1>12. Reads(TrimSpace(s), g, M, P, m)
    BY <1>4, <1>6, <1>8, <1>10, <1>11 DEF Reads, u
  <1>13. Worth(M, m) = n
    <2>1. 2 - Len(m) = 0
      BY <1>6
    <2>2. ParseInt(m) * Power10[2 - Len(m)] = ParseInt(m)
      <3> DEFINE b == ParseInt(m)
      <3>1. b \in Nat /\ Power10[2 - Len(m)] = 1
        BY <1>7, <2>1, SmallPowers
      <3> HIDE DEF b
      <3>2. b * Power10[2 - Len(m)] = b
        BY <3>1
      <3> QED
        BY <3>2 DEF b
    <2> QED
      BY <1>6, <2>2 DEF Worth
  <1>14. IsMoney(s) /\ ParseMoney(s) = IF g = <<"-">> THEN -Worth(M, m) ELSE Worth(M, m)
    BY <1>12, Accepted
  <1> QED
    BY <1>5, <1>13, <1>14 DEF s

\* The text of an amount is canonical, and its digits weigh the amount.
LEMMA StringIsCanonical ==
    ASSUME NEW a \in -Half..(Half - 1)
    PROVE  LET w == String(a)
               body == IF a < 0 THEN Tail(w) ELSE w
               dot == Len(body) - 2
           IN  /\ a < 0 => Head(w) = "-"
               /\ dot > 1 /\ body[dot] = "."
               /\ \A i \in DOMAIN body \ {dot} : body[i] \in ToSet(Digits)
               /\ dot = 2 \/ Head(body) # "0"
               /\ Weigh(SubSeq(body, 1, dot - 1)) * 100
                    + Weigh(SubSeq(body, dot + 1, dot + 2))
                  = IF a < 0 THEN -a ELSE a
  <1> DEFINE n == IF a < 0 THEN -a ELSE a
             P == <<".">>
             F == Format(n)
             w == String(a)
             body == IF a < 0 THEN Tail(w) ELSE w
             dot == Len(F) - 2
  <1>1. Half \in Nat \ {0}
    BY MoneyAssumption
  <1>2. n \in Nat
    BY <1>1
  <1>3. PICK M, m :
            /\ F = M \o P \o m
            /\ Numeral(M) /\ Numeral(m) /\ Len(m) = 2
            /\ Len(M) = 1 \/ (Len(M) > 1 /\ n \div 100 >= Power10[Len(M) - 1])
            /\ M[1] # "0" \/ Len(M) = 1
            /\ ParseInt(M) * 100 + ParseInt(m) = n
    <2> HIDE DEF n
    <2> QED
      BY <1>2, FormatParts
  <1>4. /\ F \in Seq(Characters)
        /\ Len(F) = Len(M) + Len(P) + Len(m)
        /\ Dot(F) = Len(M) + 1
        /\ Before(F) = M /\ After(F) = m
        /\ F[Len(M) + 1] = "."
        /\ \A i \in 1..Len(M) : F[i] = M[i]
        /\ \A i \in 1..Len(F) : i # Len(M) + 1 => F[i] \in ToSet(Digits)
    <2>1. P \in {<<>>, <<".">>} /\ P # <<>>
      OBVIOUS
    <2> DEFINE u == M \o P \o m
    <2> HIDE DEF P, F
    <2>2. FallsApart(u, M, P, m)
      BY <1>3, <2>1, CutOfParts
    <2>3. F = u
      BY <1>3
    <2> HIDE DEF u
    <2> QED
      BY <2>1, <2>2, <2>3 DEF FallsApart
  <1>5. Len(P) = 1
    OBVIOUS
  <1>6. String(a) = IF a < 0 THEN <<"-">> \o F ELSE F
    BY SignedText
  <1> HIDE DEF F
  <1>7. body = F /\ (a < 0 => Head(w) = "-")
    <2>1. "-" \in Characters
      BY DEF Characters
    <2>2. Head(<<"-">> \o F) = "-" /\ Tail(<<"-">> \o F) = F
      BY <1>4, <2>1, Prefixed
    <2> QED
      BY <1>6, <2>2
  <1> DEFINE l == Len(M)
  <1>8. l \in Nat /\ l >= 1
    <2>1. l \in Nat /\ (l = 1 \/ l > 1)
      BY <1>3, NumeralDigits
    <2> HIDE DEF l
    <2> QED
      BY <2>1
  <1> HIDE DEF n, P
  <1>9. dot = l + 1 /\ Len(F) = l + 3 /\ dot > 1 /\ dot + 2 = Len(F)
    <2>1. Len(F) = l + 1 + 2
      BY <1>3, <1>4, <1>5
    <2> HIDE DEF l
    <2> QED
      BY <1>8, <2>1
  <1>10. F[dot] = "."
    BY <1>4, <1>9
  <1>11. ASSUME NEW i \in DOMAIN F \ {dot} PROVE F[i] \in ToSet(Digits)
    <2>1. i \in 1..Len(F) /\ i # dot
      BY <1>4, LenProperties
    <2> QED
      BY <1>4, <1>9, <2>1
  <1>12. dot = 2 \/ Head(F) # "0"
    <2>1. CASE l = 1
      BY <1>9, <2>1
    <2>2. CASE l # 1
      <3>1. M[1] # "0" /\ 1 \in 1..Len(M)
        BY <1>3, <1>8, <2>2
      <3>2. F[1] = M[1]
        BY <1>4, <3>1
      <3>3. F # <<>>
        <4>1. Len(F) # 0
          <5> HIDE DEF l, dot
          <5> QED
            BY <1>8, <1>9
        <4> QED
          BY <4>1, EmptySeq
      <3>4. Head(F) = F[1]
        BY <1>4, <3>3, FirstAndRest
      <3> QED
        BY <3>1, <3>2, <3>4
    <2> QED
      BY <2>1, <2>2
  <1>13. SubSeq(F, 1, dot - 1) = M /\ SubSeq(F, dot + 1, dot + 2) = m
    <2>1. Dot(F) = dot /\ dot # 0
      BY <1>4, <1>8, <1>9
    <2> HIDE DEF dot
    <2> QED
      BY <1>4, <1>9, <2>1 DEF Before, After
  <1>14. Weigh(M) * 100 + Weigh(m) = n
    <2>1. Weigh(M) = ParseInt(M) /\ Weigh(m) = ParseInt(m)
      BY <1>3, ParseIntWeighs
    <2> QED
      BY <1>3, <2>1
  <1> HIDE DEF w, body, dot, l
  <1>15. /\ a < 0 => Head(w) = "-"
         /\ dot > 1 /\ body[dot] = "."
         /\ \A i \in DOMAIN body \ {dot} : body[i] \in ToSet(Digits)
         /\ dot = 2 \/ Head(body) # "0"
         /\ Weigh(SubSeq(body, 1, dot - 1)) * 100
              + Weigh(SubSeq(body, dot + 1, dot + 2)) = n
    BY <1>7, <1>9, <1>10, <1>11, <1>12, <1>13, <1>14
  <1>16. dot = Len(body) - 2
    BY <1>7 DEF dot
  <1> QED
    BY <1>15, <1>16 DEF w, body, n

-----------------------------------------------------------------------------
(***************************************************************************)
(* The inductive invariant: the verdict is the one on the text, the amount *)
(* is what was parsed, and the wire holds the text of the amount.          *)
(***************************************************************************)
RangeInv ==
    /\ text \in Texts \cup {<<>>}
    /\ amount \in -Half..(Half - 1)
    /\ pc \in {"received", "refused", "held", "written", "readBack"}

VerdictInv ==
    /\ pc = "refused" => ~IsMoney(text)
    /\ pc \notin {"received", "refused"} /\ text # <<>> =>
           IsMoney(text) /\ amount = ParseMoney(text)

WireInv == pc \in {"written", "readBack"} => wire = String(amount)

IInv == RangeInv /\ VerdictInv /\ WireInv

\* Requests are made of characters.
LEMMA TextIsText == RangeInv => text \in Seq(Characters)
  <1>1. <<>> \in Seq(Characters)
    OBVIOUS
  <1> QED
    BY <1>1, MoneyAssumption DEF RangeInv

\* What ParseMoney returns is an int64, without having wrapped.
LEMMA ParsedAmountFits ==
    ASSUME NEW s \in Seq(Characters), IsMoney(s)
    PROVE  ParseMoney(s) \in -Half..(Half - 1)
  <1>1. PICK g, M, P, m : Reads(TrimSpace(s), g, M, P, m)
    BY AcceptedOnly
  <1> QED
    BY <1>1, Accepted

\* The invariant holds at the start.
LEMMA InitInv == Init => IInv
  <1> SUFFICES ASSUME Init PROVE IInv
    OBVIOUS
  <1>1. 0 \in -Half..(Half - 1)
    BY MoneyAssumption
  <1>2. RangeInv
    BY <1>1, MoneyAssumption DEF Init, RangeInv
  <1>3. VerdictInv /\ WireInv
    BY DEF Init, VerdictInv, WireInv
  <1> QED
    BY <1>2, <1>3 DEF IInv

\* Reading a column back changes nothing.
LEMMA ReadBackUnchanged ==
    ASSUME IInv, ReadBack
    PROVE  pc' = "readBack" /\ amount' = amount
  <1>1. /\ pc = "written" /\ amount \in -DecimalMax..DecimalMax
        /\ IF IsMoney(wire)
           THEN amount' = ParseMoney(wire) /\ pc' = "readBack"
           ELSE pc' = "unreadable" /\ UNCHANGED amount
    BY DEF ReadBack
  <1>2. amount \in -Half..(Half - 1) /\ wire = String(amount)
    BY <1>1 DEF IInv, RangeInv, WireInv
  <1>3. -DecimalMax <= amount /\ amount <= DecimalMax
    BY <1>1, <1>2, MoneyAssumption
  <1>4. IsMoney(wire) /\ ParseMoney(wire) = amount
    BY <1>2, <1>3, StringReads
  <1> QED
    BY <1>1, <1>4

\* Every step keeps the invariant.
LEMMA StepInv == IInv /\ [Next]_vars => IInv'
  <1> SUFFICES ASSUME IInv, [Next]_vars PROVE IInv'
    OBVIOUS
  <1> USE DEF IInv
  <1>1. CASE Unmarshal
    <2>1. CASE IsMoney(text)
      <3>1. /\ amount' = ParseMoney(text) /\ pc' = "held"
            /\ UNCHANGED <<text, wire>>
        BY <1>1, <2>1 DEF Unmarshal
      <3>2. amount' \in -Half..(Half - 1)
        BY <2>1, <3>1, TextIsText, ParsedAmountFits
      <3>3. RangeInv'
        BY <3>1, <3>2 DEF RangeInv
      <3>4. VerdictInv' /\ WireInv'
        BY <2>1, <3>1 DEF VerdictInv, WireInv, IsMoney, ParseMoney
      <3> QED
        BY <3>3, <3>4
    <2>2. CASE ~IsMoney(text)
      <3>1. pc' = "refused" /\ UNCHANGED <<text, amount, wire>>
        BY <1>1, <2>2 DEF Unmarshal
      <3>2. RangeInv'
        BY <3>1 DEF RangeInv
      <3>3. VerdictInv' /\ WireInv'
        BY <2>2, <3>1 DEF VerdictInv, WireInv, IsMoney
      <3> QED
        BY <3>2, <3>3
    <2> QED
      BY <2>1, <2>2
  <1>2. CASE Write
    <2>1. /\ pc = "held" /\ pc' = "written" /\ wire' = String(amount)
          /\ UNCHANGED <<text, amount>>
      BY <1>2 DEF Write
    <2>2. RangeInv'
      BY <2>1 DEF RangeInv
    <2>3. VerdictInv'
      BY <2>1 DEF VerdictInv
    <2>4. WireInv'
      BY <2>1 DEF WireInv
    <2> QED
      BY <2>2, <2>3, <2>4
  <1>3. CASE ReadBack
    <2>1. pc = "written" /\ pc' = "readBack" /\ UNCHANGED <<text, amount, wire>>
      BY <1>3, ReadBackUnchanged DEF ReadBack
    <2>2. RangeInv'
      BY <2>1 DEF RangeInv
    <2>3. VerdictInv'
      BY <2>1 DEF VerdictInv
    <2>4. WireInv'
      BY <2>1 DEF WireInv
    <2> QED
      BY <2>2, <2>3, <2>4
  <1>4. CASE Done \/ UNCHANGED vars
    <2>1. UNCHANGED <<text, amount, wire, pc>>
      BY <1>4 DEF Done, vars
    <2>2. RangeInv'
      BY <2>1 DEF RangeInv
    <2>3. VerdictInv'
      BY <2>1 DEF VerdictInv
    <2>4. WireInv'
      BY <2>1 DEF WireInv
    <2> QED
      BY <2>2, <2>3, <2>4
  <1> QED
    BY <1>1, <1>2, <1>3, <1>4 DEF Next

\* Every reachable state satisfies the inductive invariant; what a column
\* prints can be read again, "unreadable" is never reached.
THEOREM Invariance == Spec => []IInv
  <1>1. Init => IInv
    BY InitInv
  <1>2. IInv /\ [Next]_vars => IInv'
    BY StepInv
  <1> QED
    BY <1>1, <1>2, PTL DEF Spec

-----------------------------------------------------------------------------
\* The empty text is trimmed to itself.
LEMMA SpacesAreNoText ==
    ASSUME NEW s, TrimSpace(s) # <<>>
    PROVE  s # <<>>
  <1> SUFFICES ASSUME s = <<>> PROVE FALSE
    OBVIOUS
  <1>1. ToSet(<<>>) \subseteq {"s"}
    BY DEF ToSet
  <1>2. TrimSpace(s) = <<>>
    BY <1>1 DEF TrimSpace
  <1> QED
    BY <1>2

\* Decimal text is accepted, and the amount is what it says: ParseMoney's
\* padding, its widths and its two's complement arithmetic lose nothing.
THEOREM DecimalTextIsExact == Spec => []DecimalsAreExact
  <1>1. IInv => DecimalsAreExact
    <2> SUFFICES ASSUME IInv, TrimSpace(text) \in DecimalTexts
                 PROVE  /\ pc # "refused"
                        /\ pc # "received" => <<TrimSpace(text), amount>> \in Meanings
      BY DEF DecimalsAreExact
    <2>1. PICK g, M, P, m :
              /\ Reads(TrimSpace(text), g, M, P, m)
              /\ <<TrimSpace(text), Value(g, M, m)>> \in Meanings
      BY MeaningIsRead
    <2>2. IsMoney(text) /\ ParseMoney(text) = Value(g, M, m)
      BY <2>1, Accepted DEF Value
    <2>3. text # <<>>
      BY <2>1, SpacesAreNoText DEF Reads
    <2>4. pc # "refused"
      BY <2>2 DEF IInv, VerdictInv
    <2>5. ASSUME pc # "received" PROVE <<TrimSpace(text), amount>> \in Meanings
      BY <2>1, <2>2, <2>3, <2>4, <2>5 DEF IInv, VerdictInv
    <2> QED
      BY <2>4, <2>5
  <1> QED
    BY <1>1, Invariance, PTL

\* What is accepted without being decimal text is a sign or a point alone, and
\* zero, or decimal text behind "+-", whose minus is not heeded.
THEOREM AcceptedIsNearlyDecimal == Spec => []NothingIsRounded
  <1>1. IInv => NothingIsRounded
    <2> DEFINE t == TrimSpace(text)
    <2> SUFFICES ASSUME IInv, pc \notin {"received", "refused"}, text # <<>>
                 PROVE  \/ t \in DecimalTexts
                        \/ ToSet(text) \cap ToSet(Digits) = {} /\ amount = 0
                        \/ /\ SubSeq(t, 1, 2) = <<"+", "-">>
                           /\ <<Tail(Tail(t)), amount>> \in Meanings
      BY DEF NothingIsRounded
    <2>1. text \in Seq(Characters) /\ IsMoney(text) /\ amount = ParseMoney(text)
      BY TextIsText DEF IInv, VerdictInv
    <2>2. PICK g, M, P, m : Reads(t, g, M, P, m)
      BY <2>1, AcceptedOnly
    <2>3. amount = Value(g, M, m)
      BY <2>1, <2>2, Accepted DEF Value
    <2> DEFINE u == M \o P \o m
    <2>4. /\ t # <<>> /\ g \in Signs /\ P \in {<<>>, <<".">>}
          /\ Numeral(M) /\ Numeral(m)
          /\ m # <<>> => P # <<>>
          /\ t = g \o u
      BY <2>2 DEF Reads
    <2>5. /\ M \in Seq(Characters) /\ m \in Seq(Characters)
          /\ P \in Seq(Characters) /\ g \in Seq(Characters)
          /\ ToSet(P) \cap ToSet(Digits) = {} /\ ToSet(g) \cap ToSet(Digits) = {}
      BY <2>4, NumeralIsText, SignsAndPoints
    <2>6. u \in Seq(Characters)
          /\ ToSet(t) = ToSet(g) \cup ToSet(M) \cup ToSet(P) \cup ToSet(m)
      <3> DEFINE MP == M \o P
      <3>1. MP \in Seq(Characters) /\ ToSet(MP) = ToSet(M) \cup ToSet(P)
        BY <2>5, Joined, ElementsOfJoined
      <3> HIDE DEF MP
      <3>2. MP \o m \in Seq(Characters) /\ ToSet(MP \o m) = ToSet(MP) \cup ToSet(m)
        BY <2>5, <3>1, Joined, ElementsOfJoined
      <3>3. u \in Seq(Characters) /\ ToSet(u) = ToSet(M) \cup ToSet(P) \cup ToSet(m)
        BY <3>1, <3>2 DEF MP
      <3> HIDE DEF u
      <3>4. ToSet(g \o u) = ToSet(g) \cup ToSet(u)
        BY <2>5, <3>3, ElementsOfJoined
      <3> QED
        BY <2>4, <3>3, <3>4
    <2>7. /\ ToSet(t) \subseteq ToSet(text)
          /\ ToSet(text) \subseteq ToSet(t) \cup {"s"}
      BY <2>1, TrimKeepsText
    <2>8. text \in Texts
      BY DEF IInv, RangeInv
    <2>9. ToSet(M) \subseteq UsedDigits /\ ToSet(m) \subseteq UsedDigits
      <3>1. ToSet(M) \subseteq ToSet(Digits) /\ ToSet(m) \subseteq ToSet(Digits)
        BY <2>4, <2>5, NumeralDigits, ElementsOfSeq
      <3>2. ToSet(text) \cap ToSet(Digits) \subseteq UsedDigits
        BY <2>8 DEF UsedDigits
      <3> HIDE DEF t
      <3> QED
        BY <2>6, <2>7, <3>1, <3>2
    <2> HIDE DEF t, u
    <2>10. CASE M = <<>> /\ m = <<>>
      <3>1. ToSet(text) \cap ToSet(Digits) = {}
        <4>1. ToSet(<<>>) = {}
          BY DEF ToSet
        <4>2. "s" \notin ToSet(Digits)
          BY DigitValues
        <4> QED
          BY <2>5, <2>6, <2>7, <2>10, <4>1, <4>2
      <3>2. Worth(<<>>, <<>>) = 0
        <4>1. Len(<<>>) = 0 /\ 2 - 0 = 2
          OBVIOUS
        <4>2. Worth(<<>>, <<>>) = 0 * 100 + 0 * Power10[2]
          BY <4>1, NoDigits DEF Worth
        <4> QED
          BY <4>2, SmallPowers
      <3>3. amount = 0
        BY <2>3, <2>10, <3>2 DEF Value
      <3> QED
        BY <3>1, <3>3
    <2>11. CASE (M # <<>> \/ m # <<>>) /\ g # <<"+", "-">>
      <3>1. g \in {<<>>, <<"+">>, <<"-">>}
        BY <2>4, <2>11 DEF Signs
      <3>2. <<t, Value(g, M, m)>> \in Meanings
        BY <2>2, <2>9, <2>11, <3>1, Meant
      <3>3. t \in DecimalTexts
        <4>1. <<t, Value(g, M, m)>>[1] = t
          OBVIOUS
        <4> QED
          BY <3>2, <4>1 DEF DecimalTexts
      <3> QED
        BY <3>3
    <2>12. CASE (M # <<>> \/ m # <<>>) /\ g = <<"+", "-">>
      <3>1. u # <<>>
        BY <2>4, <2>12, SomeDigit DEF u
      <3>2. u = <<>> \o u /\ <<>> \in Signs
        BY <2>6, ConcatEmptySeq DEF Signs
      <3>3. Reads(u, <<>>, M, P, m)
        BY <2>2, <3>1, <3>2 DEF Reads, u
      <3>4. <<u, Value(<<>>, M, m)>> \in Meanings
        <4>1. <<>> \in {<<>>, <<"+">>, <<"-">>}
          OBVIOUS
        <4> QED
          BY <2>9, <2>12, <3>3, <4>1, Meant
      <3>5. Value(<<>>, M, m) = amount
        <4>1. <<>> # <<"-">> /\ <<"+", "-">> # <<"-">>
          OBVIOUS
        <4> QED
          BY <2>3, <2>12, <4>1 DEF Value
      <3>6. SubSeq(t, 1, 2) = <<"+", "-">>
        <4> DEFINE pm == <<"+", "-">>
                   one == 1
                   two == 2
        <4>1. /\ pm \in Seq(Characters) /\ Len(pm) = two
              /\ one \in 1..Len(pm) /\ two \in 1..Len(pm)
              /\ t = pm \o u
          BY <2>4, <2>5, <2>12
        <4> HIDE DEF pm, one, two
        <4>2. SubSeq(pm \o u, one, two) = SubSeq(pm, one, two)
          BY <2>6, <4>1, SubSeqOfConcat1
        <4>3. SubSeq(pm, one, two) = pm
          BY <4>1, SubSeqFull DEF one
        <4> QED
          BY <4>1, <4>2, <4>3 DEF pm, one, two
      <3>7. Tail(Tail(t)) = u
        <4> DEFINE mu == <<"-">> \o u
        <4>1. "+" \in Characters /\ "-" \in Characters
          BY DEF Characters
        <4>2. mu \in Seq(Characters) /\ Tail(mu) = u
          BY <2>6, <4>1, Prefixed
        <4>3. t = <<"+">> \o mu
          <5>1. <<"+">> \in Seq(Characters) /\ <<"-">> \in Seq(Characters)
            BY <4>1
          <5>2. <<"+", "-">> = <<"+">> \o <<"-">>
            OBVIOUS
          <5>3. (<<"+">> \o <<"-">>) \o u = <<"+">> \o (<<"-">> \o u)
            BY <2>6, <5>1, ConcatAssociative
          <5> QED
            BY <2>4, <2>12, <5>2, <5>3
        <4> HIDE DEF mu
        <4>4. Tail(<<"+">> \o mu) = mu
          BY <4>1, <4>2, Prefixed
        <4> QED
          BY <4>2, <4>3, <4>4
      <3> QED
        BY <3>4, <3>5, <3>6, <3>7
    <2> QED
      BY <2>10, <2>11, <2>12 DEF t
  <1> QED
    BY <1>1, Invariance, PTL

\* Every amount is written in canonical form, and its text weighs the amount,
\* at both ends of the range too.
THEOREM WrittenIsExact == Spec => []StringIsExact
  <1>1. IInv => StringIsExact
    BY StringIsCanonical DEF IInv, RangeInv, WireInv, StringIsExact
  <1> QED
    BY <1>1, Invariance, PTL

\* A stored amount is read back, and unchanged.
THEOREM ColumnsReadBack == Spec => ReadsBack
  <1>1. IInv /\ [Next]_vars =>
            [pc = "written" => pc' = "readBack" /\ amount' = amount]_vars
    <2> SUFFICES ASSUME IInv, Next, pc = "written"
                 PROVE  \/ pc' = "readBack" /\ amount' = amount
                        \/ UNCHANGED vars
      OBVIOUS
    <2>1. CASE ReadBack
      BY <2>1, ReadBackUnchanged
    <2>2. CASE ~ReadBack
      BY <2>2 DEF Next, Unmarshal, Write, Done
    <2> QED
      BY <2>1, <2>2
  <1> QED
    BY <1>1, Invariance, PTL DEF Spec, ReadsBack
=============================================================================
