------------------------------ MODULE Decimal ------------------------------
(***************************************************************************)
(* SDecimal (decimal.h): a price as an unsigned long and the number of its *)
(* decimal places, an unsigned short.  The integer types are kept with     *)
(* their ends: value is modulo ValueRange, base modulo BaseRange, and      *)
(* CALC_BASE is an int, which holds the powers of ten up to IntDigits and  *)
(* is IntMin for those beyond, the outcome of the conversion on the        *)
(* machines this is built for.                                             *)
(*                                                                         *)
(* Products with a double are truncated, and one that is a whole number    *)
(* may come out just short of it, so that one unit is lost.                *)
(***************************************************************************)
EXTENDS Integers

CONSTANTS
    ValueRange,     \* 2^64
    BaseRange,      \* 2^16
    IntDigits,      \* 9: the largest power of ten an int holds
    IntMin,         \* -2^31
    Tolerance,      \* 10^7: the inverse of the default bias of from(double)
    InitTolerance,  \* 10^5: the same of the constructor, SDecimal(double)
    Limit           \* 100: what from(double) counts up to

Power[n \in Nat] == IF n = 0 THEN 1 ELSE 10 * Power[n - 1]

ASSUME DecimalAssumption ==
    /\ ValueRange \in Nat /\ IntDigits \in Nat /\ Power[IntDigits] < ValueRange
    /\ IntMin \in Int /\ IntMin < 0 /\ -IntMin < ValueRange
    /\ BaseRange \in Nat /\ IntDigits < BaseRange
    /\ Tolerance \in Nat \ {0, 1} /\ InitTolerance \in Nat \ {0, 1}
    /\ Limit \in Nat /\ IntDigits <= Limit

SDecimal == [value: 0..ValueRange - 1, base: 0..BaseRange - 1]
Zero == [value |-> 0, base |-> 0]

CALC_BASE(x) == IF x <= IntDigits THEN Power[x] ELSE IntMin

\* unsigned long * int: both are unsigned long first.
Times(value, factor) == (value * (factor % ValueRange)) % ValueRange

\* mutant: it is the finer of the two that is rescaled.
RescaledFiner(a, d) ==
    IF a.base > d.base THEN <<Times(a.value, CALC_BASE(a.base - d.base)), d.value>>
    ELSE <<a.value, Times(d.value, CALC_BASE(d.base - a.base))>>
\* The operands of every comparison and sum: the coarser one is rescaled.
Rescaled(a, d) ==
    IF a.base > d.base THEN <<a.value, Times(d.value, CALC_BASE(a.base - d.base))>>
    ELSE <<Times(a.value, CALC_BASE(d.base - a.base)), d.value>>

Coarse(a, d) == IF a.base > d.base THEN d.base ELSE a.base
Fine(a, d) == IF a.base > d.base THEN a.base ELSE d.base

\* operator <, of which the others differ in the comparison only.
Less(a, d) == Rescaled(a, d)[1] < Rescaled(a, d)[2]
Equals(a, d) == Rescaled(a, d)[1] = Rescaled(a, d)[2]

Plus(a, d) ==
    [value |-> (Rescaled(a, d)[1] + Rescaled(a, d)[2]) % ValueRange, base |-> Fine(a, d)]
Minus(a, d) ==
    [value |-> (Rescaled(a, d)[1] - Rescaled(a, d)[2]) % ValueRange, base |-> Fine(a, d)]

\* mutant: the value is divided once too often.
RoundedTwice(a, precise) ==
    IF a.base <= precise THEN a
    ELSE [value |-> a.value \div (CALC_BASE(a.base - precise + 1) % ValueRange), base |-> precise]
\* from(SDecimal, precise, ceiling): the integers are divided before either
\* floor or ceil sees them, so ceiling makes no difference.
Rounded(a, precise) ==
    IF a.base <= precise THEN a
    ELSE [value |-> a.value \div (CALC_BASE(a.base - precise) % ValueRange), base |-> precise]

-----------------------------------------------------------------------------
(* A text: its digits as a number, how many there are, and how many of     *)
(* them come after the point, or NoPoint.                                  *)

NoPoint == -1
Text == [digits: Nat, length: 0..BaseRange - 1, places: (0..BaseRange - 1) \cup {NoPoint}]
Places(text) == IF text.places = NoPoint THEN 0 ELSE text.places

\* What truncating the product of a double and CALC_BASE(base) may give.
\* The double is the number digits over 10^places.
Product(digits, places, base) ==
    LET scaled == digits * CALC_BASE(base)
        sign  == IF scaled < 0 THEN -1 ELSE 1
        whole == (sign * scaled) \div Power[places]
        short == (sign * scaled) % Power[places] = 0 /\ places > 0 /\ whole > 0
    IN  {(sign * v) % ValueRange : v \in {whole} \cup (IF short THEN {whole - 1} ELSE {})}

\* from(string, precise, ceiling).  Without a point the number of places
\* is the length of the text, and a precision below it cuts the text itself.
FromText(text, precise, ceiling) ==
    LET base == IF text.places = NoPoint THEN text.length ELSE text.places
        kept == IF text.places = NoPoint THEN text.digits \div Power[text.length - precise]
                ELSE text.digits \div Power[text.places - precise]
        keptPlaces == IF text.places = NoPoint THEN 0 ELSE precise
        up == IF ceiling THEN 1 ELSE 0
    IN  IF precise >= 0 /\ precise < base
        THEN {[value |-> (v + up) % ValueRange, base |-> precise] : v \in Product(kept, keptPlaces, precise)}
        ELSE {[value |-> v, base |-> base] : v \in Product(text.digits, Places(text), base)}

\* mutant: the error is not related to the price.
FarAbsolute(a, digits, places, tolerance) ==
    LET off == a.value * Power[places] - digits * CALC_BASE(a.base)
    IN  digits >= 0 /\ \/ a.base > IntDigits
                       \/ (IF off < 0 THEN -off ELSE off) * tolerance > Power[places] * CALC_BASE(a.base)
\* abs(get_value() - v) / v > bias, for v the number digits over 10^places.
\* The quotient is never above the bias if v is negative; if v is zero, it
\* is infinite or, for a decimal that is zero, not a number.
Far(a, digits, places, tolerance) ==
    LET off == a.value * Power[places] - digits * CALC_BASE(a.base)
    IN  \/ digits = 0 /\ a.value # 0
        \/ digits > 0 /\ \/ a.base > IntDigits
                         \/ (IF off < 0 THEN -off ELSE off) * tolerance > digits * CALC_BASE(a.base)

\* from(double): places are added to those of the decimal it is called for,
\* until the value is near enough or the limit is reached.  The constructor
\* calls it before value and base are initialised: start is then whatever
\* was in their storage.
FromDouble(start, digits, places, tolerance) ==
    LET TooFar(a) == Far(a, digits, places, tolerance)
        Base(k) == (start.base + k) % BaseRange
        Tried(k) == {[value |-> v, base |-> Base(k)] : v \in Product(digits, places, Base(k))}
        Reached(k) == TooFar(start) /\ \A j \in 1..k - 1 : \E a \in Tried(j) : TooFar(a)
        Ends(k) == {a \in Tried(k) : ~TooFar(a) \/ k = Limit + 1}
    IN  {a \in {start} : ~TooFar(a)} \cup UNION {Ends(k) : k \in {k \in 1..Limit + 1 : Reached(k)}}
=============================================================================
