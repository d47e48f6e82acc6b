----------------------------- MODULE OrderTotal -----------------------------
(***************************************************************************)
(* The numbers of one order: entity.NewOrder sums the lines in int64 minor *)
(* units, and the columns of orders and order_items accept or refuse them. *)
(*                                                                         *)
(* The widths are constants so that a scaled-down instance keeps their     *)
(* proportions.  The service has Half = 2^63 (Money is an int64), DECIMAL  *)
(* (10,2) for prices and totals, and INT for quantities; there as here     *)
(* DecimalMax * IntMax exceeds 2 * Half.                                   *)
(***************************************************************************)
EXTENDS Integers, Sequences, SequencesExt

CONSTANTS
    Half,           \* Money holds -Half .. Half - 1
    DecimalMax,     \* the largest DECIMAL(10,2), in minor units
    IntMax,         \* the largest INT
    Quantities,     \* quantities a request may state
    Prices,         \* prices a request may state, parsed
    LinesMax        \* bound on the lines of a request

ASSUME WidthAssumption ==
    /\ {Half, DecimalMax, IntMax, LinesMax} \subseteq Nat \ {0}
    /\ DecimalMax < Half
    /\ Quantities \cup Prices \subseteq -Half..(Half - 1)

VARIABLES
    items,      \* the lines of the request
    next,       \* the line NewOrder's loop is at
    total,      \* its running total
    pc          \* "summing", "inserting", "insertingItems", or the outcome

vars == <<items, next, total, pc>>

Lines == [quantity : Quantities, price : Prices]

\* int64 arithmetic.
Wrap(x) == ((x + Half) % (2 * Half)) - Half
Subtotal(line) == Wrap(line.price * line.quantity)

Sane(line) == line.quantity > 0 /\ line.price >= 0

Init ==
    /\ items \in BoundedSeq(Lines, LinesMax)
    /\ next = 1
    /\ total = 0
    /\ pc = "summing"

\* Mutant: the quantity is forgotten.
AddPrice ==
    /\ pc = "summing" /\ next \in DOMAIN items /\ Sane(items[next])
    /\ total' = Wrap(total + items[next].price)
    /\ next' = next + 1
    /\ UNCHANGED <<items, pc>>

AddLine ==
    /\ pc = "summing" /\ next \in DOMAIN items /\ Sane(items[next])
    /\ total' = Wrap(total + Subtotal(items[next]))
    /\ next' = next + 1
    /\ UNCHANGED <<items, pc>>

\* ErrInvalidOrder, answered 400: no line, a line that is not sane, or a total
\* that is not positive.
Reject ==
    /\ pc = "summing"
    /\ \/ items = <<>>
       \/ next \in DOMAIN items /\ ~Sane(items[next])
       \/ next = Len(items) + 1 /\ total <= 0
    /\ pc' = "rejected"
    /\ UNCHANGED <<items, next, total>>

\* Mutant: a total of zero passes.
AcceptZero ==
    /\ pc = "summing" /\ next = Len(items) + 1 /\ items # <<>>
    /\ total >= 0
    /\ pc' = "inserting"
    /\ UNCHANGED <<items, next, total>>

Accept ==
    /\ pc = "summing" /\ next = Len(items) + 1
    /\ total > 0
    /\ pc' = "inserting"
    /\ UNCHANGED <<items, next, total>>

\* A statement fails with numeric overflow and the request is answered 500.
Statement(from, fits, to) ==
    /\ pc = from
    /\ pc' = IF fits THEN to ELSE "failed"
    /\ UNCHANGED <<items, next, total>>

\* Mutant: the largest value of the column is taken for the first beyond it.
InsertOrderNarrow == Statement("inserting", total < DecimalMax, "insertingItems")

InsertOrder == Statement("inserting", total <= DecimalMax, "insertingItems")

InsertItems ==
    Statement("insertingItems",
              \A i \in DOMAIN items :
                  items[i].quantity <= IntMax /\ items[i].price <= DecimalMax,
              "stored")

Done == pc \in {"rejected", "failed", "stored"} /\ UNCHANGED vars

Next == AddLine \/ Reject \/ Accept \/ InsertOrder \/ InsertItems \/ Done

Spec == Init /\ [][Next]_vars

-----------------------------------------------------------------------------
\* What the first n lines cost, computed without a width.
Cost[n \in 0..Len(items)] ==
    IF n = 0 THEN 0 ELSE Cost[n - 1] + items[n].price * items[n].quantity

ExactTotal == Cost[Len(items)]

AllSane == items # <<>> /\ \A i \in DOMAIN items : Sane(items[i])

\* Nothing NewOrder accepts can trip a CHECK of the schema, which would turn a
\* 400 into a 500 (order.go:56-58, 000001_orders.up.sql:19,44-45).
ChecksNeverTrip ==
    pc \in {"inserting", "insertingItems"} => AllSane /\ total > 0

\* An order is refused only if a line is not sane or a number does not fit its
\* column: no order the schema can hold is lost to rounding or bounds.
RefusedForAReason ==
    pc \in {"rejected", "failed"} =>
        \/ ~AllSane
        \/ ExactTotal \notin 1..DecimalMax
        \/ \E i \in DOMAIN items :
               items[i].quantity > IntMax \/ items[i].price > DecimalMax

\* While the sum fits an int64 the stored total is the sum (money.go:13-15).
ExactWithinWidth ==
    pc = "stored" /\ ExactTotal < Half => total = ExactTotal

\* order.go:37: "price x quantity, exact in minor units", for the total of
\* every order that is stored.
StoredTotalIsExact == pc = "stored" => total = ExactTotal
=============================================================================
