-------------------------- MODULE OrderTotalProofs --------------------------
(***************************************************************************)
(* For every width, every bound on the inputs and every request: what      *)
(* NewOrder accepts satisfies the CHECKs of the schema, what is refused is *)
(* refused for a reason, and a sum that fits an int64 is the exact one.    *)
(***************************************************************************)
EXTENDS OrderTotal, Induction, TLAPS

\* The loop has seen only sane lines, and its total is the wrapped sum of them.
LoopInv ==
    /\ items \in Seq(Lines)
    /\ next \in 1..(Len(items) + 1)
    /\ total = Wrap(Cost[next - 1])
    /\ \A i \in 1..(next - 1) : Sane(items[i])

\* What the tests NewOrder and the columns have passed says of the request.
PassedInv ==
    /\ pc \in {"inserting", "insertingItems", "failed", "stored"} =>
           next = Len(items) + 1 /\ total > 0
    /\ pc \in {"insertingItems", "stored"} => total <= DecimalMax

\* What the test that was failed says of it.
RefusedInv ==
    /\ pc = "rejected" =>
           \/ items = <<>>
           \/ next \in DOMAIN items /\ ~Sane(items[next])
           \/ next = Len(items) + 1 /\ total <= 0
    /\ pc = "failed" =>
           \/ total > DecimalMax
           \/ \E i \in DOMAIN items :
                  items[i].quantity > IntMax \/ items[i].price > DecimalMax

IInv == LoopInv /\ PassedInv /\ RefusedInv

-----------------------------------------------------------------------------
(***************************************************************************)
(* Arithmetic that wraps.                                                  *)
(***************************************************************************)
\* Wrapping yields an int64, whatever is wrapped.
LEMMA WrapInRange ==
    ASSUME NEW x \in Int
    PROVE  Wrap(x) \in -Half..(Half - 1)
  <1>1. Half \in Nat \ {0}
    BY WidthAssumption
  <1>2. (x + Half) % (2 * Half) \in 0..(2 * Half - 1)
    BY <1>1, Z3
  <1> QED
    BY <1>1, <1>2 DEF Wrap

\* It is off by a multiple of 2 * Half ...
LEMMA WrapShifts ==
    ASSUME NEW x \in Int
    PROVE  \E k \in Int : Wrap(x) = x + k * (2 * Half)
  <1> DEFINE m == 2 * Half
             k == -((x + Half) \div m)
  <1>1. m \in Nat \ {0} /\ Half \in Nat
    BY WidthAssumption
  <1>2. k \in Int /\ x + Half = (-k) * m + ((x + Half) % m)
    <2>1. x + Half \in Int
      BY <1>1
    <2> HIDE DEF m
    <2> QED
      BY <1>1, <2>1, Division
  <1>3. (-k) * m = -(k * m) /\ k * m \in Int /\ (x + Half) % m \in Int
    <2> HIDE DEF m
    <2>1. x + Half \in Int
      BY <1>1
    <2> QED
      BY <1>1, <1>2, <2>1, Division
  <1>4. Wrap(x) = ((x + Half) % m) - Half
    BY DEF Wrap
  <1>5. Wrap(x) = x + k * m
    BY <1>1, <1>2, <1>3, <1>4
  <1> QED
    BY <1>2, <1>5

\* ... and blind to one, so that wrapping can be put off to the end of a sum ...
LEMMA WrapIsBlind ==
    ASSUME NEW x \in Int, NEW k \in Int
    PROVE  Wrap(x + k * (2 * Half)) = Wrap(x)
  <1> DEFINE m == 2 * Half
             q == (x + Half) \div m
             r == (x + Half) % m
  <1>1. m \in Nat \ {0} /\ Half \in Nat
    BY WidthAssumption
  <1>2. q \in Int /\ r \in 0..(m - 1) /\ x + Half = q * m + r
    <2>1. x + Half \in Int
      BY <1>1
    <2> HIDE DEF m
    <2> QED
      BY <1>1, <2>1, Division
  <1>3. x + k * m + Half = (q + k) * m + r
    <2> HIDE DEF m, q, r
    <2>1. (q + k) * m = q * m + k * m /\ k * m \in Int /\ q * m \in Int
      BY <1>1, <1>2
    <2> QED
      BY <1>1, <1>2, <2>1
  <1>4. ((q + k) * m + r) % m = r
    <2> HIDE DEF m, q, r
    <2> QED
      BY <1>1, <1>2, Remainder
  <1> QED
    BY <1>3, <1>4 DEF Wrap

\* ... of two terms that are wrapped themselves ...
LEMMA WrapOfSum ==
    ASSUME NEW x \in Int, NEW y \in Int
    PROVE  Wrap(Wrap(x) + Wrap(y)) = Wrap(x + y)
  <1>1. PICK j \in Int : Wrap(x) = x + j * (2 * Half)
    BY WrapShifts
  <1>2. PICK k \in Int : Wrap(y) = y + k * (2 * Half)
    BY WrapShifts
  <1>3. Wrap(x) + Wrap(y) = (x + y) + (j + k) * (2 * Half)
    <2> DEFINE m == 2 * Half
    <2>1. m \in Int
      BY WidthAssumption
    <2>2. j * m \in Int /\ k * m \in Int /\ (j + k) * m = j * m + k * m
      BY <2>1 
    <2> HIDE DEF m
    <2>3. Wrap(x) = x + j * m /\ Wrap(y) = y + k * m
      BY <1>1, <1>2 DEF m
    <2>4. Wrap(x) + Wrap(y) = (x + y) + (j + k) * m
      BY <2>2, <2>3
    <2> QED
      BY <2>4 DEF m
  <1> QED
    BY <1>3, WrapIsBlind

\* ... and has no effect on an int64.
LEMMA WrapOfFit ==
    ASSUME NEW x \in -Half..(Half - 1)
    PROVE  Wrap(x) = x
  <1> DEFINE m == 2 * Half
  <1>1. m \in Nat \ {0} /\ Half \in Nat \ {0} /\ x + Half \in 0..(m - 1)
    BY WidthAssumption
  <1>2. (0 * m + (x + Half)) % m = x + Half
    BY <1>1, Remainder
  <1>3. 0 * m + (x + Half) = x + Half
    BY <1>1
  <1> QED
    BY <1>1, <1>2, <1>3 DEF Wrap

-----------------------------------------------------------------------------
(***************************************************************************)
(* The exact cost.                                                         *)
(***************************************************************************)
\* The recursion that defines Cost has a solution, so Cost obeys it.
LEMMA CostRecursion ==
    ASSUME items \in Seq(Lines)
    PROVE  /\ Cost \in [0..Len(items) -> Int]
           /\ Cost[0] = 0
           /\ \A n \in 1..Len(items) :
                  Cost[n] = Cost[n - 1] + items[n].price * items[n].quantity
  <1> DEFINE N == Len(items)
             worth == [i \in 1..N |-> items[i].price * items[i].quantity]
             Solves(f) ==
                 f = [n \in 0..N |->
                        IF n = 0 THEN 0
                        ELSE f[n - 1] + items[n].price * items[n].quantity]
  <1>1. N \in Nat
    OBVIOUS
  <1>2. worth \in [1..N -> Int]
    <2>1. ASSUME NEW i \in 1..N PROVE items[i].price * items[i].quantity \in Int
      <3>1. items[i] \in Lines
        OBVIOUS
      <3>2. items[i].price \in Int /\ items[i].quantity \in Int
        BY <3>1, WidthAssumption DEF Lines
      <3> QED
        BY <3>2
    <2> QED
      BY <2>1
  <1>3. PICK p \in [0..N -> Int] :
            p[0] = 0 /\ \A n \in 1..N : p[n] = p[n - 1] + worth[n]
    <2> HIDE DEF worth, N
    <2> QED
      BY <1>1, <1>2, SumRecursion
  <1>4. Solves(p)
    <2>1. ASSUME NEW n \in 1..N
          PROVE  p[n] = p[n - 1] + items[n].price * items[n].quantity
      <3>1. p[n - 1] \in Int
        BY <1>1
      <3> QED
        BY <1>3, <3>1
    <2> QED
      BY <1>1, <1>3, <2>1
  <1>5. Solves(Cost)
    <2>1. Cost = CHOOSE f : Solves(f)
      BY DEF Cost
    <2> HIDE DEF Solves
    <2> QED
      BY <1>4, <2>1
  <1>6. Cost[0] = 0 /\ \A n \in 1..N :
            Cost[n] = Cost[n - 1] + items[n].price * items[n].quantity
    BY <1>1, <1>5
  <1>7. Cost \in [0..N -> Int]
    <2>1. \A n \in 1..N : Cost[n] = Cost[n - 1] + worth[n]
      BY <1>6
    <2>2. \A n \in 0..N : Cost[n] \in Int
      <3> HIDE DEF worth, N
      <3> QED
        BY <1>1, <1>2, <1>6, <2>1, SumIsInteger
    <2> QED
      BY <1>5, <2>2
  <1> QED
    BY <1>6, <1>7

\* Lines that are sane cost nothing or more.
LEMMA SaneCost ==
    ASSUME items \in Seq(Lines), AllSane
    PROVE  ExactTotal \in Nat
  <1> DEFINE S == {n \in Nat : n <= Len(items) => Cost[n] \in Nat}
  <1>1. 0 \in S
    BY CostRecursion
  <1>2. ASSUME NEW n \in Nat, n \in S PROVE n + 1 \in S
    <2> SUFFICES ASSUME n + 1 <= Len(items) PROVE Cost[n + 1] \in Nat
      OBVIOUS
    <2>1. items[n + 1].price \in Nat /\ items[n + 1].quantity \in Nat
      <3>1. items[n + 1] \in Lines /\ Sane(items[n + 1])
        BY DEF AllSane
      <3> QED
        BY <3>1, WidthAssumption DEF Lines, Sane
    <2>2. items[n + 1].price * items[n + 1].quantity \in Nat
      BY <2>1
    <2>3. Cost[n + 1] = Cost[n] + items[n + 1].price * items[n + 1].quantity
      BY CostRecursion
    <2> QED
      BY <1>2, <2>2, <2>3
  <1>3. Len(items) \in S
    <2> HIDE DEF S
    <2> QED
      BY <1>1, <1>2, Induction
  <1> QED
    BY <1>3 DEF ExactTotal

-----------------------------------------------------------------------------
(***************************************************************************)
(* The invariant.                                                          *)
(***************************************************************************)
LEMMA InitInv == Init => IInv
  <1> SUFFICES ASSUME Init PROVE IInv
    OBVIOUS
  <1>1. items \in Seq(Lines)
    <2>1. PICK m \in 0..LinesMax : items \in [1..m -> Lines]
      BY DEF Init, BoundedSeq, SeqOf
    <2> QED
      BY <2>1, WidthAssumption
  <1>2. Wrap(Cost[0]) = 0
    <2>1. 0 \in -Half..(Half - 1)
      BY WidthAssumption
    <2> QED
      BY <1>1, <2>1, CostRecursion, WrapOfFit
  <1> QED
    BY <1>1, <1>2 DEF Init, IInv, LoopInv, PassedInv, RefusedInv

\* While the request stays, so does what it costs.
LEMMA SameCost == UNCHANGED items => Cost' = Cost /\ ExactTotal' = ExactTotal
  BY DEF Cost, ExactTotal

\* Every step keeps what is said of the loop ...
LEMMA LoopStep == IInv /\ [Next]_vars => LoopInv'
  <1> SUFFICES ASSUME IInv, [Next]_vars PROVE LoopInv'
    OBVIOUS
  <1>1. CASE AddLine
    <2> DEFINE line == items[next]
    <2>1. line \in Lines /\ next \in 1..Len(items) /\ UNCHANGED items
      BY <1>1 DEF IInv, LoopInv, AddLine
    <2>2. total' = Wrap(Cost'[next' - 1])
      <3>1. Cost[next - 1] \in Int
        BY <2>1, CostRecursion DEF IInv, LoopInv
      <3>2. line.price * line.quantity \in Int
        <4>1. line.price \in Int /\ line.quantity \in Int
          BY <2>1, WidthAssumption DEF Lines
        <4> QED
          BY <4>1
      <3>3. total' = Wrap(Cost[next - 1] + line.price * line.quantity)
        BY <1>1, <3>1, <3>2, WrapOfSum DEF AddLine, Subtotal, IInv, LoopInv
      <3>4. Cost[next] = Cost[next - 1] + line.price * line.quantity
        BY <2>1, CostRecursion DEF IInv, LoopInv
      <3>5. Cost' = Cost /\ next' - 1 = next
        BY <1>1, <2>1, SameCost DEF AddLine
      <3> QED
        BY <3>3, <3>4, <3>5
    <2>3. \A i \in 1..(next' - 1) : Sane(items'[i])
      BY <1>1, <2>1 DEF AddLine, IInv, LoopInv
    <2> QED
      BY <1>1, <2>1, <2>2, <2>3 DEF AddLine, IInv, LoopInv
  <1>2. CASE ~AddLine
    <2>1. UNCHANGED <<items, next, total>>
      BY <1>2 DEF Next, Reject, Accept, InsertOrder, InsertItems, Statement,
                  Done, vars
    <2> QED
      BY <2>1, SameCost DEF IInv, LoopInv
  <1> QED
    BY <1>1, <1>2

\* ... and of the tests.
LEMMA OutcomeStep == IInv /\ [Next]_vars => PassedInv' /\ RefusedInv'
  <1> SUFFICES ASSUME IInv, [Next]_vars PROVE PassedInv' /\ RefusedInv'
    OBVIOUS
  <1> USE DEF IInv, LoopInv, PassedInv, RefusedInv
  <1>1. CASE AddLine
    BY <1>1 DEF AddLine
  <1>2. CASE Reject
    BY <1>2 DEF Reject
  <1>3. CASE Accept
    BY <1>3 DEF Accept
  <1>4. CASE InsertOrder
    <2>1. total \in Int /\ DecimalMax \in Int
      <3>1. Cost[next - 1] \in Int
        <4>1. next - 1 \in 0..Len(items)
          OBVIOUS
        <4> QED
          BY <4>1, CostRecursion
      <3>2. total \in -Half..(Half - 1)
        BY <3>1, WrapInRange
      <3> QED
        BY <3>2, WidthAssumption
    <2> QED
      BY <1>4, <2>1 DEF InsertOrder, Statement
  <1>5. CASE InsertItems
    <2>1. \A i \in DOMAIN items :
             items[i].quantity \in Int /\ items[i].price \in Int
      <3> SUFFICES ASSUME NEW i \in DOMAIN items
                   PROVE  items[i].quantity \in Int /\ items[i].price \in Int
        OBVIOUS
      <3>1. items[i] \in Lines
        OBVIOUS
      <3> QED
        BY <3>1, WidthAssumption DEF Lines
    <2>2. IntMax \in Int /\ DecimalMax \in Int
      BY WidthAssumption
    <2> QED
      BY <1>5, <2>1, <2>2 DEF InsertItems, Statement
  <1>6. CASE Done \/ UNCHANGED vars
    BY <1>6 DEF Done, vars
  <1> QED
    BY <1>1, <1>2, <1>3, <1>4, <1>5, <1>6 DEF Next

\* Every reachable state satisfies the inductive invariant.
LEMMA Invariance == Spec => []IInv
  <1>1. IInv /\ [Next]_vars => IInv'
    BY LoopStep, OutcomeStep DEF IInv
  <1> QED
    BY <1>1, InitInv, PTL DEF Spec

-----------------------------------------------------------------------------
\* Past the loop every line was sane, there was one, and the total is the
\* wrapped cost of all.
LEMMA PastTheLoop ==
    ASSUME IInv, next = Len(items) + 1, items # <<>>
    PROVE  AllSane /\ total = Wrap(ExactTotal) /\ ExactTotal \in Nat
  <1>1. AllSane
    BY DEF IInv, LoopInv, AllSane
  <1>2. total = Wrap(ExactTotal)
    BY DEF IInv, LoopInv, ExactTotal
  <1> QED
    BY <1>1, <1>2, SaneCost DEF IInv, LoopInv

\* An empty request has a total of zero, so it does not get past the loop.
LEMMA PositiveHasLines ==
    ASSUME IInv, total > 0
    PROVE  items # <<>>
  <1> SUFFICES ASSUME items = <<>> PROVE FALSE
    OBVIOUS
  <1>1. next = 1 /\ Cost[0] = 0
    BY CostRecursion DEF IInv, LoopInv
  <1>2. total = 0
    <2>1. 0 \in -Half..(Half - 1)
      BY WidthAssumption
    <2> QED
      BY <1>1, <2>1, WrapOfFit DEF IInv, LoopInv
  <1> QED
    BY <1>2

\* Nothing NewOrder accepts trips a CHECK of the schema (order.go:56-58).
THEOREM ChecksHold == Spec => []ChecksNeverTrip
  <1>1. IInv => ChecksNeverTrip
    BY PastTheLoop, PositiveHasLines DEF IInv, PassedInv, ChecksNeverTrip
  <1> QED
    BY <1>1, Invariance, PTL

\* An order the schema can hold is never refused: wrapping cannot make a sum
\* that fits its column look like one that does not.
THEOREM RefusalsAreJustified == Spec => []RefusedForAReason
  <1>1. ASSUME IInv PROVE RefusedForAReason
    <2> SUFFICES ASSUME pc \in {"rejected", "failed"}, AllSane,
                        ExactTotal \in 1..DecimalMax
                 PROVE  \E i \in DOMAIN items :
                            items[i].quantity > IntMax \/ items[i].price > DecimalMax
      BY DEF RefusedForAReason
    <2>1. Wrap(ExactTotal) = ExactTotal
      BY WrapOfFit, WidthAssumption
    <2>2. next = Len(items) + 1 => total = ExactTotal
      BY <1>1, <2>1, PastTheLoop DEF AllSane
    <2>3. CASE pc = "rejected"
      BY <1>1, <2>2, <2>3 DEF IInv, RefusedInv, AllSane
    <2>4. CASE pc = "failed"
      <3>1. total = ExactTotal
        BY <1>1, <2>2, <2>4 DEF IInv, PassedInv
      <3>2. ~(total > DecimalMax)
        BY <3>1, WidthAssumption
      <3> QED
        BY <1>1, <2>4, <3>2 DEF IInv, RefusedInv
    <2> QED
      BY <2>3, <2>4
  <1> QED
    BY <1>1, Invariance, PTL

\* A sum that fits an int64 is stored as it is (money.go:13-15).
THEOREM FittingTotalsAreExact == Spec => []ExactWithinWidth
  <1>1. ASSUME IInv PROVE ExactWithinWidth
    <2> SUFFICES ASSUME pc = "stored", ExactTotal < Half
                 PROVE  total = ExactTotal
      BY DEF ExactWithinWidth
    <2>1. total = Wrap(ExactTotal) /\ ExactTotal \in Nat
      BY <1>1, PastTheLoop, PositiveHasLines DEF IInv, PassedInv
    <2>2. ExactTotal \in -Half..(Half - 1)
      BY <2>1, WidthAssumption
    <2> QED
      BY <2>1, <2>2, WrapOfFit
  <1> QED
    BY <1>1, Invariance, PTL
=============================================================================
