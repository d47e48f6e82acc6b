------------------------------- MODULE Money -------------------------------
(***************************************************************************)
(* Amounts and their text: entity.ParseMoney and Money.String, on the way  *)
(* of an amount from a request body to an int64, to the DECIMAL(10,2)      *)
(* column as text, and back (order-scan.go).                               *)
(*                                                                         *)
(* Text is a sequence of characters; "s" stands for white space and "x"    *)
(* for every character without a meaning.  The widths are constants, as in *)
(* OrderTotal.                                                             *)
(***************************************************************************)
EXTENDS Integers, Sequences, SequencesExt

CONSTANTS
    Half,               \* Money holds -Half .. Half - 1
    MaxMajorDigits,     \* _maxMajorDigits
    DecimalMax,         \* the largest amount a column holds, in minor units
    Texts,              \* the JSON texts a request may state as a price
    Computed            \* amounts that were not parsed: subtotals and totals

Digits == <<"0", "1", "2", "3", "4", "5", "6", "7", "8", "9">>
Characters == ToSet(Digits) \cup {".", "-", "+", "s", "x"}

\* 10^n.
Power10[n \in Nat] == IF n = 0 THEN 1 ELSE 10 * Power10[n - 1]

ASSUME MoneyAssumption ==
    /\ {Half, MaxMajorDigits, DecimalMax} \subseteq Nat \ {0}
    /\ Power10[MaxMajorDigits + 2] <= Half
    /\ DecimalMax < Power10[MaxMajorDigits + 2]
    /\ Texts \subseteq Seq(Characters)
    /\ Computed \subseteq -Half..(Half - 1)

VARIABLES
    text,       \* what the client wrote, <<>> for a computed amount
    amount,     \* the Money
    wire,       \* its text, sent to PostgreSQL and to clients
    pc          \* "received", "refused", "held", "written", "readBack", "unreadable"

vars == <<text, amount, wire, pc>>

DigitValue == [d \in ToSet(Digits) |-> CHOOSE n \in 0..9 : Digits[n + 1] = d]

Wrap(x) == ((x + Half) % (2 * Half)) - Half

(***************************************************************************)
(* ParseMoney.                                                             *)
(***************************************************************************)
TrimSpace(s) ==
    LET Solid(c) == c # "s"
    IN  IF ToSet(s) \subseteq {"s"} THEN <<>>
        ELSE SubSeq(s, SelectInSeq(s, Solid), SelectLastInSeq(s, Solid))

TrimPrefix(s, c) == IF s # <<>> /\ Head(s) = c THEN Tail(s) ELSE s

Unsigned(s) == TrimPrefix(TrimPrefix(TrimSpace(s), "+"), "-")

\* strings.Cut at the first dot.
Dot(s) == SelectInSeq(s, LAMBDA c : c = ".")
Before(s) == IF Dot(s) = 0 THEN s ELSE SubSeq(s, 1, Dot(s) - 1)
After(s) == IF Dot(s) = 0 THEN <<>> ELSE SubSeq(s, Dot(s) + 1, Len(s))

MajorPart(s) == IF Before(s) = <<>> THEN <<"0">> ELSE Before(s)

\* Mutant: zeros are put in front.
MinorPartPaddedLeft(s) == [i \in 1..(2 - Len(After(s))) |-> "0"] \o After(s)

MinorPart(s) == After(s) \o [i \in 1..(2 - Len(After(s))) |-> "0"]

IsDigits(s) == ToSet(s) \subseteq DOMAIN DigitValue

\* Mutant: no bound on the digits before the dot.
IsMoneyOfAnyLength(s) ==
    /\ TrimSpace(s) # <<>>
    /\ Len(After(Unsigned(s))) <= 2
    /\ IsDigits(MajorPart(Unsigned(s)) \o MinorPart(Unsigned(s)))

IsMoney(s) ==
    /\ TrimSpace(s) # <<>>
    /\ Len(MajorPart(Unsigned(s))) <= MaxMajorDigits
    /\ Len(After(Unsigned(s))) <= 2
    /\ IsDigits(MajorPart(Unsigned(s)) \o MinorPart(Unsigned(s)))

ParseInt(s) ==
    LET value[i \in 0..Len(s)] ==
            IF i = 0 THEN 0 ELSE 10 * value[i - 1] + DigitValue[s[i]]
    IN  value[Len(s)]

ParseMoney(s) ==
    LET total == Wrap(ParseInt(MajorPart(Unsigned(s))) * 100
                          + ParseInt(MinorPart(Unsigned(s))))
    IN  IF Head(TrimSpace(s)) = "-" THEN -total ELSE total

(***************************************************************************)
(* String.                                                                 *)
(***************************************************************************)
\* A natural number in at least width digits.
Decimal(n, width) ==
    LET length == CHOOSE w \in width..(width + n) :
                      n < Power10[w] /\ (w = width \/ n >= Power10[w - 1])
    IN  [i \in 1..length |->
            Digits[1 + ((n \div Power10[length - i]) % 10)]]

\* Mutant: %d for the minor units.
FormatUnpadded(n) == Decimal(n \div 100, 1) \o <<".">> \o Decimal(n % 100, 1)

Format(n) == Decimal(n \div 100, 1) \o <<".">> \o Decimal(n % 100, 2)

\* Mutant: the smallest int64 is negated like any other: it stays negative and
\* so do its quotient and its remainder.
StringUnguarded(m) ==
    IF m = -Half
    THEN <<"-", "-">> \o Decimal(Half \div 100, 1) \o <<".", "-">> \o Decimal(Half % 100, 2)
    ELSE IF m < 0 THEN <<"-">> \o Format(-m) ELSE Format(m)

\* The literal "-92233720368547758.08": the smallest int64 cannot be negated.
SmallestText == <<"-">> \o Format(Half)

String(m) ==
    IF m = -Half THEN SmallestText
    ELSE IF m < 0 THEN <<"-">> \o Format(-m) ELSE Format(m)

-----------------------------------------------------------------------------
Init ==
    /\ wire = <<>>
    /\ \/ text \in Texts /\ amount = 0 /\ pc = "received"
       \/ text = <<>> /\ amount \in Computed /\ pc = "held"

\* Money.UnmarshalJSON, after it has taken off the quotes; null is refused.
Unmarshal ==
    /\ pc = "received"
    /\ IF IsMoney(text)
       THEN amount' = ParseMoney(text) /\ pc' = "held"
       ELSE pc' = "refused" /\ UNCHANGED amount
    /\ UNCHANGED <<text, wire>>

Write ==
    /\ pc = "held"
    /\ wire' = String(amount)
    /\ pc' = "written"
    /\ UNCHANGED <<text, amount>>

\* scanOrder and attachItems parse what a DECIMAL(10,2) column prints: the text
\* it was given, which has two decimals already.
ReadBack ==
    /\ pc = "written"
    /\ amount \in -DecimalMax..DecimalMax
    /\ IF IsMoney(wire)
       THEN amount' = ParseMoney(wire) /\ pc' = "readBack"
       ELSE pc' = "unreadable" /\ UNCHANGED amount
    /\ UNCHANGED <<text, wire>>

\* An amount no column holds is at its end once it is written.
Done ==
    /\ \/ pc \in {"refused", "readBack", "unreadable"}
       \/ pc = "written" /\ amount \notin -DecimalMax..DecimalMax
    /\ UNCHANGED vars

Next == Unmarshal \/ Write \/ ReadBack \/ Done

Spec == Init /\ [][Next]_vars

-----------------------------------------------------------------------------
(***************************************************************************)
(* What decimal text means, from its grammar and the weight of each digit. *)
(***************************************************************************)
Weigh(s) ==
    LET weight[i \in 0..Len(s)] ==
            IF i = 0 THEN 0
            ELSE weight[i - 1] + DigitValue[s[i]] * Power10[Len(s) - i]
    IN  weight[Len(s)]

UsedDigits == (UNION {ToSet(t) : t \in Texts}) \cap ToSet(Digits)

Numerals ==
    {n \in [sign : {<<>>, <<"+">>, <<"-">>},
            major : BoundedSeq(UsedDigits, MaxMajorDigits),
            point : {<<>>, <<".">>},
            minor : BoundedSeq(UsedDigits, 2)] :
        /\ n.major # <<>> \/ n.minor # <<>>
        /\ n.minor # <<>> => n.point # <<>>}

Magnitude(n) == Weigh(n.major) * 100 + Weigh(n.minor) * Power10[2 - Len(n.minor)]

Meanings ==
    {<<n.sign \o n.major \o n.point \o n.minor,
       IF n.sign = <<"-">> THEN -Magnitude(n) ELSE Magnitude(n)>> : n \in Numerals}

DecimalTexts == {meaning[1] : meaning \in Meanings}

\* Decimal text with at most two decimals and MaxMajorDigits digits before the
\* dot is accepted and means exactly what it says (money.go:25-27).
DecimalsAreExact ==
    TrimSpace(text) \in DecimalTexts =>
        /\ pc # "refused"
        /\ pc # "received" => <<TrimSpace(text), amount>> \in Meanings

\* Nothing is rounded, cut off or wrapped to make it fit: what is accepted
\* without being decimal text has no digit and is zero, or has "+-" in front of
\* decimal text (money.go:22-23,44-52).
NothingIsRounded ==
    pc \notin {"received", "refused"} /\ text # <<>> =>
        \/ TrimSpace(text) \in DecimalTexts
        \/ ToSet(text) \cap ToSet(Digits) = {} /\ amount = 0
        \/ LET trimmed == TrimSpace(text)
           IN  /\ SubSeq(trimmed, 1, 2) = <<"+", "-">>
               /\ <<Tail(Tail(trimmed)), amount>> \in Meanings

\* Every int64 is written in canonical form, two decimals and no superfluous
\* zero, and its text weighs what it is worth (money.go:71-87).
StringIsExact ==
    pc \in {"written", "readBack"} =>
        LET body == IF amount < 0 THEN Tail(wire) ELSE wire
            dot == Len(body) - 2
        IN  /\ amount < 0 => Head(wire) = "-"
            /\ dot > 1 /\ body[dot] = "."
            /\ \A i \in DOMAIN body \ {dot} : body[i] \in ToSet(Digits)
            /\ dot = 2 \/ Head(body) # "0"
            /\ Weigh(SubSeq(body, 1, dot - 1)) * 100
                 + Weigh(SubSeq(body, dot + 1, dot + 2))
               = IF amount < 0 THEN -amount ELSE amount

\* What is stored in a column is read back unchanged (order-scan.go:43-45).
ReadsBack ==
    [][pc = "written" => pc' = "readBack" /\ amount' = amount]_vars

\* errors.go:18: ErrInvalidMoney if "money text was not exact decimal".
OnlyDecimalText ==
    pc \notin {"received", "refused"} /\ text # <<>> =>
        TrimSpace(text) \in DecimalTexts
=============================================================================
