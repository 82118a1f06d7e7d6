---------------------------- MODULE DepthProofs ----------------------------
(***************************************************************************)
(* Theorems about Decimal and Depth, for every set of symbols, books and   *)
(* places, every number of levels, and every width of the integer types:   *)
(* the powers of ten, the worth of what the operators of SDecimal return,  *)
(* and the books that are computed with them.  The recursive functions are *)
(* shown to be what their definitions say by the first number for which    *)
(* they would not be.                                                      *)
(***************************************************************************)
EXTENDS Depth, WellFoundedInduction, TLAPS

-----------------------------------------------------------------------------
(* Natural numbers.                                                        *)

\* A set that has 0 and the successor of each of its elements has all.
LEMMA Induction ==
  ASSUME NEW T, 0 \in T, \A n \in Nat : n \in T => n + 1 \in T
  PROVE  Nat \subseteq T
<1> DEFINE R == OpToRel(<, Nat)
           Missing == Nat \ T
<1>1. \A x, y \in Nat : x < y => <<x, y>> \in R
  BY DEF OpToRel
<1> SUFFICES ASSUME Missing # {}
             PROVE  FALSE
  OBVIOUS
<1>2. IsWellFoundedOn(R, Nat)
  BY NatLessThanWellFounded
<1> HIDE DEF R
<1>3. PICK n \in Missing : \A m \in Missing : ~(<<m, n>> \in R)
  <2>1. Missing \subseteq Nat
    OBVIOUS
  <2> HIDE DEF Missing
  <2> QED BY <1>2, <2>1, WFMin
<1>4. n \in Nat /\ n # 0 /\ n - 1 \in Nat /\ n - 1 < n
  OBVIOUS
<1>5. n - 1 \in T
  BY <1>1, <1>3, <1>4
<1>6. n - 1 + 1 \in T /\ n - 1 + 1 = n
  BY <1>4, <1>5
<1> QED BY <1>6

\* f is what the recursion with this step makes of the base, up to n.
Recursion(f, n, base, step) ==
    f = [i \in 0..n |-> IF i = 0 THEN base ELSE step[<<i, f[i - 1]>>]]

\* The same on all natural numbers.
RecursionThroughout(f, base, step) ==
    f = [i \in Nat |-> IF i = 0 THEN base ELSE step[<<i, f[i - 1]>>]]

\* One value more.
LEMMA OneMore ==
  ASSUME NEW n \in Nat, NEW base, NEW step, NEW g, Recursion(g, n, base, step)
  PROVE  \E f : Recursion(f, n + 1, base, step)
<1> DEFINE f == [i \in 0..(n + 1) |-> IF i = n + 1 THEN step[<<i, g[n]>>] ELSE g[i]]
           h == [i \in 0..(n + 1) |-> IF i = 0 THEN base ELSE step[<<i, f[i - 1]>>]]
<1>1. ASSUME NEW i \in 0..(n + 1)
      PROVE  f[i] = h[i]
  <2>1. CASE i = n + 1
    <3>1. i # 0 /\ i - 1 = n /\ n \in 0..(n + 1) /\ n # n + 1
      BY <2>1
    <3>2. f[i - 1] = g[n]
      BY <3>1
    <3> QED BY <2>1, <3>1, <3>2
  <2>2. CASE i # n + 1
    <3>1. i \in 0..n /\ (i # 0 => i - 1 \in 0..(n + 1) /\ i - 1 # n + 1)
      BY <2>2
    <3>2. g[i] = IF i = 0 THEN base ELSE step[<<i, g[i - 1]>>]
      BY <3>1 DEF Recursion
    <3> QED BY <2>2, <3>1, <3>2
  <2> QED BY <2>1, <2>2
<1>2. f = h
  BY <1>1
<1> QED BY <1>2 DEF Recursion

\* Up to each number there is one.
LEMMA RecursionExists ==
  ASSUME NEW base, NEW step
  PROVE  \A n \in Nat : \E f : Recursion(f, n, base, step)
<1> DEFINE T == {n \in Nat : \E f : Recursion(f, n, base, step)}
<1>1. 0 \in T
  <2>1. Recursion([i \in 0..0 |-> base], 0, base, step)
    BY DEF Recursion
  <2> QED BY <2>1
<1>2. \A n \in Nat : n \in T => n + 1 \in T
  BY OneMore
<1> HIDE DEF T
<1>3. Nat \subseteq T
  BY <1>1, <1>2, Induction
<1> QED BY <1>3 DEF T

\* Two of them agree as far as both go.
LEMMA RecursionUnique ==
  ASSUME NEW base, NEW step, NEW m \in Nat, NEW n \in Nat,
         NEW f, Recursion(f, m, base, step), NEW g, Recursion(g, n, base, step)
  PROVE  \A i \in Nat : i <= m /\ i <= n => f[i] = g[i]
<1> DEFINE T == {i \in Nat : i <= m /\ i <= n => f[i] = g[i]}
<1>1. 0 \in T
  BY DEF Recursion
<1>2. ASSUME NEW i \in Nat, i \in T
      PROVE  i + 1 \in T
  <2> SUFFICES ASSUME i + 1 <= m, i + 1 <= n
               PROVE  f[i + 1] = g[i + 1]
    OBVIOUS
  <2>1. i + 1 \in 0..m /\ i + 1 \in 0..n /\ i + 1 # 0 /\ i + 1 - 1 = i
    OBVIOUS
  <2>2. f[i + 1] = step[<<i + 1, f[i]>>]
    BY <2>1 DEF Recursion
  <2>3. g[i + 1] = step[<<i + 1, g[i]>>]
    BY <2>1 DEF Recursion
  <2> QED BY <1>2, <2>2, <2>3
<1> HIDE DEF T
<1>3. Nat \subseteq T
  BY <1>1, <1>2, Induction
<1> QED BY <1>3 DEF T

\* So there is one on all natural numbers.
LEMMA RecursionOnNat ==
  ASSUME NEW base, NEW step
  PROVE  \E f : RecursionThroughout(f, base, step)
<1> DEFINE upTo(n) == CHOOSE f : Recursion(f, n, base, step)
           f == [i \in Nat |-> upTo(i)[i]]
           h == [i \in Nat |-> IF i = 0 THEN base ELSE step[<<i, f[i - 1]>>]]
<1>1. \A n \in Nat : Recursion(upTo(n), n, base, step)
  BY RecursionExists
<1> HIDE DEF upTo
<1>2. ASSUME NEW i \in Nat
      PROVE  f[i] = h[i]
  <2>1. upTo(i)[i] = IF i = 0 THEN base ELSE step[<<i, upTo(i)[i - 1]>>]
    BY <1>1 DEF Recursion
  <2>2. CASE i = 0
    BY <2>1, <2>2
  <2>3. CASE i # 0
    <3>1. i - 1 \in Nat /\ i - 1 <= i /\ i - 1 <= i - 1
      BY <2>3
    <3>2. upTo(i)[i - 1] = upTo(i - 1)[i - 1]
      BY <1>1, <3>1, RecursionUnique
    <3> QED BY <2>1, <2>3, <3>1, <3>2
  <2> QED BY <2>2, <2>3
<1>3. f = h
  BY <1>2
<1> QED BY <1>3 DEF RecursionThroughout

-----------------------------------------------------------------------------
(* Powers of ten.                                                          *)

\* Power is the function its definition describes.
LEMMA PowerRecursion ==
  Power = [n \in Nat |-> IF n = 0 THEN 1 ELSE 10 * Power[n - 1]]
<1> DEFINE step == [p \in Nat \X Nat |-> 10 * p[2]]
<1>0. PICK f : RecursionThroughout(f, 1, step)
  <2> HIDE DEF step
  <2> QED BY RecursionOnNat
<1>1. f = [n \in Nat |-> IF n = 0 THEN 1 ELSE step[<<n, f[n - 1]>>]]
  BY <1>0 DEF RecursionThroughout
<1> DEFINE T == {n \in Nat : f[n] \in Nat}
<1>2. Nat \subseteq T
  <2>1. 0 \in T
    BY <1>1
  <2>2. ASSUME NEW n \in Nat, n \in T
        PROVE  n + 1 \in T
    <3>1. n + 1 \in Nat /\ n + 1 # 0 /\ n + 1 - 1 = n
      OBVIOUS
    <3>2. f[n + 1] = step[<<n + 1, f[n]>>]
      BY <1>1, <3>1
    <3> QED BY <2>2, <3>1, <3>2
  <2> HIDE DEF T
  <2> QED BY <2>1, <2>2, Induction
<1>3. \A n \in Nat : n # 0 => step[<<n, f[n - 1]>>] = 10 * f[n - 1]
  BY <1>2
<1> HIDE DEF step
<1>4. f = [n \in Nat |-> IF n = 0 THEN 1 ELSE 10 * f[n - 1]]
  BY <1>1, <1>3
<1> QED BY <1>4 DEF Power

\* Each power of ten is positive, and ten times the one before it.
LEMMA PowerFacts ==
  /\ Power[0] = 1
  /\ \A n \in Nat : Power[n] \in Nat \ {0} /\ Power[n + 1] = 10 * Power[n]
<1>1. Power[0] = 1
  BY PowerRecursion
<1>2. \A n \in Nat : Power[n + 1] = 10 * Power[n]
  <2> TAKE n \in Nat
  <2>1. n + 1 \in Nat /\ n + 1 # 0 /\ n + 1 - 1 = n
    OBVIOUS
  <2> QED BY <2>1, PowerRecursion
<1> DEFINE T == {n \in Nat : Power[n] \in Nat \ {0}}
<1>3. 0 \in T
  BY <1>1
<1>4. \A n \in Nat : n \in T => n + 1 \in T
  BY <1>2
<1> HIDE DEF T
<1>5. Nat \subseteq T
  BY <1>3, <1>4, Induction
<1> QED BY <1>1, <1>2, <1>5 DEF T

\* The power of a sum.
LEMMA PowerOfSum ==
  ASSUME NEW m \in Nat, NEW n \in Nat
  PROVE  Power[m + n] = Power[m] * Power[n]
<1> DEFINE T == {k \in Nat : Power[m + k] = Power[m] * Power[k]}
<1>1. 0 \in T
  BY PowerFacts
<1>2. ASSUME NEW k \in Nat, k \in T
      PROVE  k + 1 \in T
  <2>1. Power[m + k + 1] = 10 * Power[m + k] /\ Power[k + 1] = 10 * Power[k]
    BY PowerFacts
  <2>2. Power[m + k] = Power[m] * Power[k]
    BY <1>2
  <2>3. 10 * (Power[m] * Power[k]) = Power[m] * (10 * Power[k])
    BY PowerFacts
  <2>4. m + (k + 1) = m + k + 1
    OBVIOUS
  <2> QED BY <2>1, <2>2, <2>3, <2>4
<1> HIDE DEF T
<1>3. Nat \subseteq T
  BY <1>1, <1>2, Induction
<1> QED BY <1>3 DEF T

\* A smaller exponent, a smaller power.
LEMMA PowerGrows ==
  ASSUME NEW m \in Nat, NEW n \in Nat, m <= n
  PROVE  Power[m] <= Power[n] /\ Power[n] = Power[n - m] * Power[m]
<1>1. n - m \in Nat /\ m + (n - m) = n
  OBVIOUS
<1>2. Power[n] = Power[m] * Power[n - m]
  BY <1>1, PowerOfSum
<1>3. Power[m] \in Nat \ {0} /\ Power[n - m] \in Nat \ {0}
  BY <1>1, PowerFacts
<1>4. \A a, b \in Nat \ {0} : a <= a * b /\ a * b = b * a
  OBVIOUS
<1> QED BY <1>2, <1>3, <1>4

-----------------------------------------------------------------------------
(* Products and quotients.                                                 *)

\* A common factor does not change how numbers compare.
LEMMA FactorCompares ==
  ASSUME NEW a \in Int, NEW b \in Int, NEW c \in Nat \ {0}
  PROVE  (a < b <=> a * c < b * c) /\ (a <= b <=> a * c <= b * c) /\ (a = b <=> a * c = b * c)
OBVIOUS

\* A quotient, multiplied again.
LEMMA QuotientFacts ==
  ASSUME NEW a \in Int, NEW b \in Nat \ {0}
  PROVE  /\ a \div b \in Int
         /\ b * (a \div b) <= a
         /\ a < b * (a \div b) + b
         /\ a % b = a - b * (a \div b)
         /\ a \in Nat => a \div b \in Nat
<1>1. a \div b \in Int /\ b * (a \div b) <= a /\ a < b * (a \div b) + b
  OBVIOUS
<1>2. a \in Nat => a \div b \in Nat
  OBVIOUS
<1>3. \A q \in Int, r \in 0..(b - 1) : a = b * q + r => a % b = r
  OBVIOUS
<1> DEFINE q == a \div b
<1>4. q \in Int /\ b * q \in Int /\ b * q <= a /\ a < b * q + b
  BY <1>1
<1> HIDE DEF q
<1>5. a - b * q \in 0..(b - 1) /\ a = b * q + (a - b * q)
  BY <1>4
<1>6. a % b = a - b * q
  BY <1>3, <1>4, <1>5
<1> QED BY <1>1, <1>2, <1>6 DEF q

-----------------------------------------------------------------------------
(* What the operators return is an SDecimal.                               *)

\* The powers an int holds, and the outcome of those it does not.
LEMMA CalcBaseFacts ==
  ASSUME NEW k \in Nat
  PROVE  /\ CALC_BASE(k) \in Int
         /\ k <= IntDigits => CALC_BASE(k) = Power[k] /\ Power[k] % ValueRange = Power[k]
         /\ CALC_BASE(k) % ValueRange \in 1..(ValueRange - 1)
<1>1. ASSUME k <= IntDigits
      PROVE  CALC_BASE(k) = Power[k] /\ Power[k] \in 1..(ValueRange - 1)
  <2>1. Power[k] <= Power[IntDigits]
    BY <1>1, PowerGrows, DecimalAssumption
  <2>2. Power[k] \in Nat \ {0} /\ Power[IntDigits] \in Nat \ {0}
    BY PowerFacts, DecimalAssumption
  <2> QED BY <1>1, <2>1, <2>2, DecimalAssumption DEF CALC_BASE
<1>2. \A x \in 1..(ValueRange - 1) : x % ValueRange = x
  BY DecimalAssumption
<1>3. IntMin \in Int /\ IntMin % ValueRange \in 1..(ValueRange - 1)
  <2>1. IntMin + ValueRange \in 0..(ValueRange - 1) /\ IntMin = ValueRange * (-1) + (IntMin + ValueRange)
    BY DecimalAssumption
  <2>2. \A a, q \in Int, b \in Nat \ {0} : \A r \in 0..(b - 1) : a = b * q + r => a % b = r
    OBVIOUS
  <2>3. IntMin % ValueRange = IntMin + ValueRange
    BY <2>1, <2>2, DecimalAssumption
  <2> QED BY <2>1, <2>3, DecimalAssumption
<1>4. k > IntDigits => CALC_BASE(k) = IntMin
  BY DecimalAssumption DEF CALC_BASE
<1> QED BY <1>1, <1>2, <1>3, <1>4, DecimalAssumption

\* What remains of a number modulo the range of value is in that range.
LEMMA RangeFacts ==
  /\ ValueRange \in Nat \ {0}
  /\ \A x \in Int : x % ValueRange \in 0..(ValueRange - 1)
<1>1. Power[IntDigits] \in Nat
  BY PowerFacts, DecimalAssumption
<1>2. ValueRange \in Nat \ {0}
  BY <1>1, PowerFacts, DecimalAssumption
<1>3. \A x \in Int, n \in Nat \ {0} : x % n \in 0..(n - 1)
  OBVIOUS
<1> QED BY <1>2, <1>3

\* And modulo the range of base in that.
LEMMA BaseFacts ==
  /\ BaseRange \in Nat \ {0}
  /\ \A x \in Int : x % BaseRange \in 0..(BaseRange - 1)
<1>1. BaseRange \in Nat \ {0}
  BY DecimalAssumption
<1>2. \A x \in Int, n \in Nat \ {0} : x % n \in 0..(n - 1)
  OBVIOUS
<1> QED BY <1>1, <1>2

\* The fields of a decimal.
LEMMA SDecimalFacts ==
  ASSUME NEW a \in SDecimal
  PROVE  /\ a.base \in Nat /\ a.base \in 0..(BaseRange - 1)
         /\ a.value \in Nat /\ a.value \in 0..(ValueRange - 1)
BY RangeFacts, BaseFacts DEF SDecimal

\* Rescaled decimals are in the range of value, and their places a number.
LEMMA RescaledType ==
  ASSUME NEW a \in SDecimal, NEW d \in SDecimal
  PROVE  /\ Rescaled(a, d)[1] \in 0..(ValueRange - 1)
         /\ Rescaled(a, d)[2] \in 0..(ValueRange - 1)
         /\ Fine(a, d) \in Nat /\ Fine(a, d) \in 0..(BaseRange - 1)
<1>1. /\ a.base \in Nat /\ a.value \in 0..(ValueRange - 1)
      /\ d.base \in Nat /\ d.value \in 0..(ValueRange - 1)
      /\ a.base \in 0..(BaseRange - 1) /\ d.base \in 0..(BaseRange - 1)
  BY SDecimalFacts
<1>2. ASSUME NEW v \in 0..(ValueRange - 1), NEW k \in Nat
      PROVE  Times(v, CALC_BASE(k)) \in 0..(ValueRange - 1)
  <2>1. CALC_BASE(k) % ValueRange \in Int
    BY CalcBaseFacts
  <2>2. \A x, y \in Int : x * y \in Int
    OBVIOUS
  <2> QED BY <2>1, <2>2, RangeFacts DEF Times
<1>3. CASE a.base > d.base
  <2>1. a.base - d.base \in Nat
    BY <1>1, <1>3
  <2>2. Rescaled(a, d) = <<a.value, Times(d.value, CALC_BASE(a.base - d.base))>>
    BY <1>3 DEF Rescaled
  <2>3. Times(d.value, CALC_BASE(a.base - d.base)) \in 0..(ValueRange - 1)
    BY <1>1, <1>2, <2>1
  <2> QED BY <1>1, <2>2, <2>3 DEF Fine
<1>4. CASE ~(a.base > d.base)
  <2>1. d.base - a.base \in Nat
    BY <1>1, <1>4
  <2>2. Rescaled(a, d) = <<Times(a.value, CALC_BASE(d.base - a.base)), d.value>>
    BY <1>4 DEF Rescaled
  <2>3. Times(a.value, CALC_BASE(d.base - a.base)) \in 0..(ValueRange - 1)
    BY <1>1, <1>2, <2>1
  <2> QED BY <1>1, <2>2, <2>3 DEF Fine
<1> QED BY <1>3, <1>4

\* A sum and a difference are decimals, whatever overflows.
LEMMA ArithmeticType ==
  ASSUME NEW a \in SDecimal, NEW d \in SDecimal
  PROVE  Plus(a, d) \in SDecimal /\ Minus(a, d) \in SDecimal
<1> DEFINE x == Rescaled(a, d)[1]
           y == Rescaled(a, d)[2]
<1>1. x \in Int /\ y \in Int /\ Fine(a, d) \in 0..(BaseRange - 1)
  BY RescaledType
<1>2. Plus(a, d) = [value |-> (x + y) % ValueRange, base |-> Fine(a, d)]
  BY DEF Plus
<1>3. Minus(a, d) = [value |-> (x - y) % ValueRange, base |-> Fine(a, d)]
  BY DEF Minus
<1> HIDE DEF x, y
<1>4. x + y \in Int /\ x - y \in Int
  BY <1>1
<1>5. (x + y) % ValueRange \in 0..(ValueRange - 1) /\ (x - y) % ValueRange \in 0..(ValueRange - 1)
  BY <1>4, RangeFacts
<1> QED BY <1>1, <1>2, <1>3, <1>5 DEF SDecimal

\* So is what is rounded, to any number of places.
LEMMA RoundedType ==
  ASSUME NEW a \in SDecimal, NEW precise \in Nat
  PROVE  Rounded(a, precise) \in SDecimal
<1>1. a.base \in 0..(BaseRange - 1) /\ a.base \in Nat /\ a.value \in 0..(ValueRange - 1)
  BY SDecimalFacts
<1>2. CASE a.base <= precise
  BY <1>2 DEF Rounded
<1>3. CASE ~(a.base <= precise)
  <2> DEFINE c == CALC_BASE(a.base - precise) % ValueRange
  <2>1. c \in Nat \ {0}
    BY <1>1, <1>3, CalcBaseFacts
  <2>2. a.value \div c \in 0..a.value
    <3> HIDE DEF c
    <3>1. a.value \in Nat
      BY <1>1
    <3>2. \A v \in Nat, b \in Nat \ {0} : v \div b \in 0..v
      OBVIOUS
    <3> QED BY <2>1, <3>1, <3>2
  <2>3. Rounded(a, precise) = [value |-> a.value \div c, base |-> precise]
    BY <1>3 DEF Rounded
  <2> HIDE DEF c
  <2>4. a.value \div c \in 0..(ValueRange - 1)
    BY <1>1, <2>2, RangeFacts
  <2>5. precise \in 0..(BaseRange - 1)
    BY <1>1, <1>3, BaseFacts
  <2> QED BY <2>3, <2>4, <2>5 DEF SDecimal
<1> QED BY <1>2, <1>3

\* A product is truncated to a number the value can have.
LEMMA ProductType ==
  ASSUME NEW digits \in Int, NEW places \in Nat, NEW base \in Nat
  PROVE  Product(digits, places, base) \subseteq 0..(ValueRange - 1)
<1> DEFINE scaled == digits * CALC_BASE(base)
           sign == IF scaled < 0 THEN -1 ELSE 1
           whole == (sign * scaled) \div Power[places]
<1>1. sign \in Int /\ sign * scaled \in Int
  <2>1. scaled \in Int
    BY CalcBaseFacts
  <2> HIDE DEF scaled
  <2> QED BY <2>1
<1>2. whole \in Int
  <2> DEFINE x == sign * scaled
  <2>1. x \in Int
    BY <1>1
  <2> HIDE DEF x
  <2>2. x \div Power[places] \in Int
    BY <2>1, QuotientFacts, PowerFacts
  <2> QED BY <2>2 DEF x
<1>3. Product(digits, places, base) \subseteq {(sign * whole) % ValueRange, (sign * (whole - 1)) % ValueRange}
  <2> DEFINE short == (sign * scaled) % Power[places] = 0 /\ places > 0 /\ whole > 0
  <2>1. Product(digits, places, base)
           = {(sign * v) % ValueRange : v \in {whole} \cup (IF short THEN {whole - 1} ELSE {})}
    BY DEF Product
  <2> HIDE DEF short, whole, sign, scaled
  <2> QED BY <2>1
<1> HIDE DEF whole, sign, scaled
<1>4. sign * whole \in Int /\ sign * (whole - 1) \in Int
  BY <1>1, <1>2
<1> QED BY <1>3, <1>4, RangeFacts

\* So is whatever a text may be converted to.
LEMMA FromTextType ==
  ASSUME NEW s \in Text, NEW precise \in Int, NEW ceiling \in BOOLEAN
  PROVE  FromText(s, precise, ceiling) \subseteq SDecimal
<1> DEFINE base == IF s.places = NoPoint THEN s.length ELSE s.places
           kept == IF s.places = NoPoint THEN s.digits \div Power[s.length - precise]
                   ELSE s.digits \div Power[s.places - precise]
           keptPlaces == IF s.places = NoPoint THEN 0 ELSE precise
           up == IF ceiling THEN 1 ELSE 0
           cut == {[value |-> (v + up) % ValueRange, base |-> precise] : v \in Product(kept, keptPlaces, precise)}
           uncut == {[value |-> v, base |-> base] : v \in Product(s.digits, Places(s), base)}
<1>1. /\ s.digits \in Nat /\ s.length \in Nat
      /\ s.places \in Nat \/ s.places = NoPoint
  BY BaseFacts DEF Text
<1>2. base \in Nat /\ base \in 0..(BaseRange - 1) /\ Places(s) \in Nat
  BY <1>1 DEF Places, Text
<1>3. FromText(s, precise, ceiling) = IF precise >= 0 /\ precise < base THEN cut ELSE uncut
  BY DEF FromText
<1>4. uncut \subseteq SDecimal
  <2>1. Product(s.digits, Places(s), base) \subseteq 0..(ValueRange - 1)
    BY <1>1, <1>2, ProductType
  <2> HIDE DEF base
  <2> QED BY <1>2, <2>1 DEF SDecimal
<1>5. ASSUME precise >= 0, precise < base
      PROVE  cut \subseteq SDecimal
  <2>1. base - precise \in Nat /\ precise \in Nat /\ keptPlaces \in Nat /\ precise \in 0..(BaseRange - 1)
    BY <1>2, <1>5, BaseFacts
  <2>2. kept \in Nat
    <3>1. Power[base - precise] \in Nat \ {0}
      BY <2>1, PowerFacts
    <3>2. kept = s.digits \div Power[base - precise]
      OBVIOUS
    <3> DEFINE power == Power[base - precise]
    <3>3. s.digits \div power \in Nat
      <4> HIDE DEF power
      <4>1. power \in Nat \ {0}
        BY <3>1 DEF power
      <4> QED BY <1>1, <4>1, QuotientFacts
    <3> QED BY <3>2, <3>3
  <2>3. Product(kept, keptPlaces, precise) \subseteq 0..(ValueRange - 1)
    <3> HIDE DEF kept, keptPlaces
    <3> QED BY <2>1, <2>2, ProductType
  <2>4. \A v \in 0..(ValueRange - 1) : v + up \in Int
    OBVIOUS
  <2>5. \A v \in 0..(ValueRange - 1) : (v + up) % ValueRange \in 0..(ValueRange - 1)
    BY <2>4, RangeFacts
  <2> HIDE DEF kept, keptPlaces, up
  <2> QED BY <2>1, <2>3, <2>5 DEF SDecimal
<1> HIDE DEF base, cut, uncut
<1> QED BY <1>3, <1>4, <1>5

\* So is whatever a double may be converted to, if the decimal was one.
LEMMA FromDoubleType ==
  ASSUME NEW start \in SDecimal, NEW digits \in Int, NEW places \in Nat, NEW tolerance
  PROVE  FromDouble(start, digits, places, tolerance) \subseteq SDecimal
<1> DEFINE Base(k) == (start.base + k) % BaseRange
           Tried(k) == {[value |-> v, base |-> Base(k)] : v \in Product(digits, places, Base(k))}
<1>1. ASSUME NEW k \in 1..Limit + 1
      PROVE  Tried(k) \subseteq SDecimal
  <2>1. start.base + k \in Int
    BY SDecimalFacts, DecimalAssumption
  <2>2. Base(k) \in 0..(BaseRange - 1)
    BY <2>1, BaseFacts
  <2> HIDE DEF Base
  <2>3. Product(digits, places, Base(k)) \subseteq 0..(ValueRange - 1)
    BY <2>2, ProductType, BaseFacts
  <2> QED BY <2>2, <2>3 DEF SDecimal
<1>2. \A a \in FromDouble(start, digits, places, tolerance) : a = start \/ \E k \in 1..Limit + 1 : a \in Tried(k)
  BY DEF FromDouble
<1> HIDE DEF Tried
<1> QED BY <1>1, <1>2

-----------------------------------------------------------------------------
(* What the operators return is worth.  A value with u places more than    *)
(* there are is the value times Power[u].                                  *)

\* Rescaling by k places is exact unless it overflows.
LEMMA RescaleExact ==
  ASSUME NEW v \in Nat, NEW k \in Nat, k <= IntDigits, NEW u \in Nat, k <= u,
         v * Power[u] < ValueRange * Power[u - k]
  PROVE  /\ Times(v, CALC_BASE(k)) \in 0..(ValueRange - 1)
         /\ Times(v, CALC_BASE(k)) * Power[u - k] = v * Power[u]
<1> DEFINE c == Power[u - k]
           r == Power[k]
<1>1. u - k \in Nat /\ u - k <= u /\ u - (u - k) = k
  OBVIOUS
<1>2. c \in Nat \ {0} /\ r \in Nat \ {0}
  BY <1>1, PowerFacts
<1>3. Power[u] = r * c
  BY <1>1, PowerGrows
<1>4. CALC_BASE(k) % ValueRange = r
  BY CalcBaseFacts
<1>5. v * (r * c) < ValueRange * c
  BY <1>3
<1> HIDE DEF c, r
<1>6. v * (r * c) = (v * r) * c /\ v * r \in Nat
  BY <1>2
<1>7. v * r < ValueRange
  BY <1>2, <1>5, <1>6, FactorCompares, RangeFacts
<1>8. (v * r) % ValueRange = v * r
  <2>1. \A x \in Nat, n \in Nat \ {0} : x < n => x % n = x
    OBVIOUS
  <2> QED BY <1>6, <1>7, <2>1, RangeFacts
<1>9. Times(v, CALC_BASE(k)) = v * r
  BY <1>4, <1>8 DEF Times
<1>10. v * r \in 0..(ValueRange - 1)
  BY <1>6, <1>7, RangeFacts
<1> QED BY <1>3, <1>6, <1>9, <1>10 DEF c

\* Both operands, when they are rescaled to the finer one's places.
LEMMA RescaledExact ==
  ASSUME NEW a \in SDecimal, NEW d \in SDecimal, NEW u \in Nat, a.base <= u, d.base <= u,
         Fine(a, d) - Coarse(a, d) <= IntDigits,
         a.value * Power[u - a.base] < ValueRange * Power[u - Fine(a, d)],
         d.value * Power[u - d.base] < ValueRange * Power[u - Fine(a, d)]
  PROVE  /\ Rescaled(a, d)[1] * Power[u - Fine(a, d)] = a.value * Power[u - a.base]
         /\ Rescaled(a, d)[2] * Power[u - Fine(a, d)] = d.value * Power[u - d.base]
<1>1. a.base \in Nat /\ a.value \in Nat /\ d.base \in Nat /\ d.value \in Nat
  BY SDecimalFacts
<1>2. CASE a.base > d.base
  <2> DEFINE k == a.base - d.base
             w == u - d.base
  <2>1. Fine(a, d) = a.base /\ Coarse(a, d) = d.base
    BY <1>2 DEF Fine, Coarse
  <2>2. k \in Nat /\ k <= IntDigits /\ w \in Nat /\ k <= w /\ w - k = u - a.base
    BY <1>1, <1>2, <2>1
  <2>3. Rescaled(a, d) = <<a.value, Times(d.value, CALC_BASE(k))>>
    BY <1>2 DEF Rescaled
  <2>4. Times(d.value, CALC_BASE(k)) * Power[w - k] = d.value * Power[w]
    BY <1>1, <2>1, <2>2, RescaleExact
  <2> QED BY <2>1, <2>2, <2>3, <2>4
<1>3. CASE ~(a.base > d.base)
  <2> DEFINE k == d.base - a.base
             w == u - a.base
  <2>1. Fine(a, d) = d.base /\ Coarse(a, d) = a.base
    BY <1>3 DEF Fine, Coarse
  <2>2. k \in Nat /\ k <= IntDigits /\ w \in Nat /\ k <= w /\ w - k = u - d.base
    BY <1>1, <1>3, <2>1
  <2>3. Rescaled(a, d) = <<Times(a.value, CALC_BASE(k)), d.value>>
    BY <1>3 DEF Rescaled
  <2>4. Times(a.value, CALC_BASE(k)) * Power[w - k] = a.value * Power[w]
    BY <1>1, <2>1, <2>2, RescaleExact
  <2> QED BY <2>1, <2>2, <2>3, <2>4
<1> QED BY <1>2, <1>3

\* Rounding takes less than one unit of the last place kept.
LEMMA RoundedWorth ==
  ASSUME NEW a \in SDecimal, NEW precise \in Nat, NEW u \in Nat, a.base <= u,
         a.base - precise <= IntDigits
  PROVE  LET out == Rounded(a, precise)
             worth == out.value * Power[u - out.base]
             was == a.value * Power[u - a.base]
         IN  worth <= was /\ was - worth < Power[u - out.base]
<1>1. a.base \in Nat /\ a.value \in Nat
  BY SDecimalFacts
<1>2. CASE a.base <= precise
  <2>1. u - a.base \in Nat
    BY <1>1
  <2>2. Power[u - a.base] \in Nat \ {0}
    BY <2>1, PowerFacts
  <2>3. Rounded(a, precise) = a
    BY <1>2 DEF Rounded
  <2>4. a.value * Power[u - a.base] \in Int
    BY <1>1, <2>2
  <2> QED BY <2>2, <2>3, <2>4
<1>3. CASE ~(a.base <= precise)
  <2> DEFINE k == a.base - precise
             c == Power[u - a.base]
             r == Power[k]
             q == a.value \div r
  <2>1. k \in Nat /\ k <= IntDigits /\ u - a.base \in Nat /\ u - precise \in Nat
        /\ u - a.base <= u - precise /\ (u - precise) - (u - a.base) = k
    BY <1>1, <1>3
  <2>2. r \in Nat \ {0} /\ c \in Nat \ {0}
    BY <2>1, PowerFacts
  <2>3. Power[u - precise] = r * c
    BY <2>1, PowerGrows
  <2>4. CALC_BASE(k) % ValueRange = r
    BY <2>1, CalcBaseFacts
  <2>5. Rounded(a, precise) = [value |-> q, base |-> precise]
    BY <1>3, <2>4 DEF Rounded
  <2>6. q \in Nat /\ r * q <= a.value /\ a.value < r * q + r
    <3> HIDE DEF r
    <3>1. \A v \in Nat, n \in Nat \ {0} :
             v \div n \in Nat /\ n * (v \div n) <= v /\ v < n * (v \div n) + n
      <4> TAKE v \in Nat, n \in Nat \ {0}
      <4>1. v \in Int
        OBVIOUS
      <4> QED BY <4>1, QuotientFacts
    <3> QED BY <1>1, <2>2, <3>1
  <2> HIDE DEF q, c, r
  <2>7. (r * q) * c <= a.value * c /\ a.value * c < (r * q + r) * c
    <3>1. r * q \in Nat /\ r * q + r \in Nat
      BY <2>2, <2>6
    <3> QED BY <1>1, <2>2, <2>6, <3>1, FactorCompares
  <2>8. /\ q * (r * c) = (r * q) * c
        /\ (r * q + r) * c = q * (r * c) + r * c
        /\ q * (r * c) \in Nat /\ r * c \in Nat /\ a.value * c \in Nat
    BY <1>1, <2>2, <2>6
  <2>9. q * (r * c) <= a.value * c /\ a.value * c - q * (r * c) < r * c
    BY <2>7, <2>8
  <2> QED BY <2>3, <2>5, <2>9 DEF c
<1> QED BY <1>2, <1>3

\* A truncated product is at most a unit below the exact one, and as far
\* as a unit that is lost below that.
LEMMA ProductWorth ==
  ASSUME NEW digits \in Nat, NEW places \in Nat, NEW base \in Nat, base <= IntDigits,
         NEW u \in Nat, base <= u, places <= u,
         digits * Power[u - places] < ValueRange * Power[u - base],
         NEW v \in Product(digits, places, base)
  PROVE  /\ v \in Nat
         /\ v * Power[u - base] <= digits * Power[u - places]
         /\ digits * Power[u - places] < v * Power[u - base] + 2 * Power[u - base]
<1> DEFINE p == Power[places]
           c == Power[u - base]
           b == Power[base]
           d == Power[u - places]
           scaled == digits * b
           whole == scaled \div p
<1>1. /\ u - base \in Nat /\ u - base <= u /\ u - (u - base) = base
      /\ u - places \in Nat /\ u - places <= u /\ u - (u - places) = places
  OBVIOUS
<1>2. p \in Nat \ {0} /\ c \in Nat \ {0} /\ b \in Nat \ {0} /\ d \in Nat \ {0}
  BY <1>1, PowerFacts
<1>3. b * c = p * d
  <2>1. Power[u] = Power[u - (u - base)] * Power[u - base]
    BY <1>1, PowerGrows
  <2>2. Power[u] = Power[u - (u - places)] * Power[u - places]
    BY <1>1, PowerGrows
  <2> QED BY <1>1, <2>1, <2>2
<1>4. CALC_BASE(base) = b
  BY CalcBaseFacts
<1>5. v = whole % ValueRange \/ (whole > 0 /\ v = (whole - 1) % ValueRange)
  <2>1. scaled \in Nat
    <3> HIDE DEF b
    <3> QED BY <1>2
  <2> HIDE DEF scaled
  <2>2. (IF scaled < 0 THEN -1 ELSE 1) = 1 /\ 1 * scaled = scaled
    BY <2>1
  <2> DEFINE short == scaled % p = 0 /\ places > 0 /\ whole > 0
  <2>3. PICK w \in {whole} \cup (IF short THEN {whole - 1} ELSE {}) : v = (1 * w) % ValueRange
    <3> HIDE DEF p
    <3> QED BY <1>4, <2>2 DEF Product, scaled, p
  <2>4. whole \in Int
    <3> HIDE DEF p
    <3>1. scaled \in Int
      BY <2>1
    <3> QED BY <1>2, <3>1, QuotientFacts
  <2> HIDE DEF whole
  <2>5. 1 * whole = whole /\ 1 * (whole - 1) = whole - 1
    BY <2>4
  <2> QED BY <2>3, <2>5
<1>6. digits * d < ValueRange * c
  OBVIOUS
<1> HIDE DEF p, c, b, d
<1>7. scaled \in Nat
  BY <1>2
<1> HIDE DEF scaled
<1>8. whole \in Nat /\ p * whole <= scaled /\ scaled < p * whole + p
  <2>1. scaled \in Int
    BY <1>7
  <2> QED BY <1>2, <1>7, <2>1, QuotientFacts
<1> HIDE DEF whole
<1>9. (digits * d) * p = scaled * c
  <2>1. (digits * d) * p = digits * (p * d)
    BY <1>2
  <2>2. (digits * b) * c = digits * (b * c)
    BY <1>2
  <2> QED BY <1>3, <2>1, <2>2 DEF scaled
<1>10. digits * d \in Nat /\ whole * c \in Nat /\ p * whole \in Nat /\ p * whole + p \in Nat /\ ValueRange * c \in Nat
  BY <1>2, <1>8, RangeFacts
<1>11. whole * c <= digits * d
  <2>1. (p * whole) * c <= scaled * c
    BY <1>2, <1>7, <1>8, <1>10, FactorCompares
  <2>2. (p * whole) * c = (whole * c) * p
    BY <1>2, <1>8
  <2> QED BY <1>2, <1>9, <1>10, <2>1, <2>2, FactorCompares
<1>12. digits * d < whole * c + c
  <2>1. scaled * c < (p * whole + p) * c
    BY <1>2, <1>7, <1>8, <1>10, FactorCompares
  <2>2. (p * whole + p) * c = (whole * c + c) * p
    BY <1>2, <1>8
  <2>3. whole * c + c \in Nat
    BY <1>2, <1>10
  <2> QED BY <1>2, <1>9, <1>10, <2>1, <2>2, <2>3, FactorCompares
<1>13. whole < ValueRange
  <2>1. whole * c < ValueRange * c
    BY <1>6, <1>10, <1>11
  <2> QED BY <1>2, <1>8, <2>1, FactorCompares, RangeFacts
<1>14. \A x \in Nat, n \in Nat \ {0} : x < n => x % n = x
  OBVIOUS
<1>15. whole % ValueRange = whole /\ (whole > 0 => (whole - 1) % ValueRange = whole - 1)
  <2>1. whole % ValueRange = whole
    BY <1>8, <1>13, <1>14, RangeFacts
  <2>2. ASSUME whole > 0
        PROVE  (whole - 1) % ValueRange = whole - 1
    <3>1. whole - 1 \in Nat /\ whole - 1 < ValueRange
      BY <1>8, <1>13, <2>2, RangeFacts
    <3> QED BY <1>14, <3>1, RangeFacts
  <2> QED BY <2>1, <2>2
<1>16. v = whole \/ (whole > 0 /\ v = whole - 1)
  BY <1>5, <1>15
<1>17. v \in Nat
  BY <1>8, <1>16
<1>18. v * c <= digits * d /\ digits * d < v * c + 2 * c
  <2>1. CASE v = whole
    BY <1>2, <1>10, <1>11, <1>12, <2>1
  <2>2. CASE v = whole - 1
    <3>1. v * c = whole * c - c
      BY <1>2, <1>8, <2>2
    <3> QED BY <1>2, <1>10, <1>11, <1>12, <3>1
  <2> QED BY <1>16, <2>1, <2>2
<1> QED BY <1>17, <1>18 DEF c, d

\* A text that is not cut, or has a point, is read to within two units.
LEMMA FromTextWorth ==
  ASSUME NEW s \in Text, NEW precise \in Int, NEW ceiling \in BOOLEAN,
         s.places # NoPoint \/ precise = -1,
         NEW a \in FromText(s, precise, ceiling),
         NEW u \in Nat, Places(s) <= u, a.base <= u, a.base <= IntDigits,
         s.digits * Power[u - Places(s)] < (ValueRange - 1) * Power[u - a.base]
  PROVE  LET off == a.value * Power[u - a.base] - s.digits * Power[u - Places(s)]
         IN  off <= 2 * Power[u - a.base] - 1 /\ -off <= 2 * Power[u - a.base] - 1
<1> DEFINE base == IF s.places = NoPoint THEN s.length ELSE s.places
           up == IF ceiling THEN 1 ELSE 0
           e == s.digits * Power[u - Places(s)]
           c == Power[u - a.base]
<1>1. /\ s.digits \in Nat /\ base \in Nat /\ Places(s) \in Nat
      /\ s.places # NoPoint => Places(s) = s.places /\ base = s.places
  BY BaseFacts DEF Text, Places
<1>2. a \in SDecimal
  BY FromTextType
<1>3. a.base \in Nat /\ a.value \in Nat /\ u - a.base \in Nat /\ u - Places(s) \in Nat
  <2>1. a.base \in Nat /\ a.value \in Nat
    BY <1>2, SDecimalFacts
  <2> QED BY <1>1, <2>1
<1>4. c \in Nat \ {0} /\ Power[u - Places(s)] \in Nat \ {0}
  BY <1>3, PowerFacts
<1>5. e \in Nat /\ e < (ValueRange - 1) * c
  BY <1>1, <1>4
<1>6. (ValueRange - 1) * c < ValueRange * c
  <2> HIDE DEF c
  <2> QED BY <1>4, RangeFacts
<1>7. CASE ~(precise >= 0 /\ precise < base)
  <2>1. a.base = base /\ a.value \in Product(s.digits, Places(s), base)
    BY <1>7 DEF FromText
  <2>2. e < ValueRange * c
    <3>1. (ValueRange - 1) * c \in Nat /\ ValueRange * c \in Nat
      BY <1>4, RangeFacts
    <3> HIDE DEF e, c
    <3> QED BY <1>5, <1>6, <3>1
  <2>3. a.value * c <= e /\ e < a.value * c + 2 * c
    <3> HIDE DEF base
    <3> QED BY <1>1, <1>3, <2>1, <2>2, ProductWorth
  <2>4. a.value * c \in Nat
    BY <1>3, <1>4
  <2> HIDE DEF e, c
  <2>5. \A x \in Nat : x <= e /\ e < x + 2 * c => x - e <= 2 * c - 1 /\ -(x - e) <= 2 * c - 1
    BY <1>4, <1>5
  <2>6. a.value * c - e <= 2 * c - 1 /\ -(a.value * c - e) <= 2 * c - 1
    BY <2>3, <2>4, <2>5
  <2> QED BY <2>6 DEF e, c
<1>8. CASE precise >= 0 /\ precise < base
  <2> DEFINE r == Power[base - precise]
             d == Power[u - base]
             kept == s.digits \div r
  <2>1. s.places # NoPoint /\ Places(s) = base /\ s.places = base
    BY <1>1, <1>8
  <2>2. /\ precise \in Nat /\ base - precise \in Nat /\ base <= u /\ u - base \in Nat
        /\ u - precise \in Nat /\ u - base <= u - precise /\ (u - precise) - (u - base) = base - precise
        /\ precise <= u
    BY <1>1, <1>8, <2>1
  <2>3. r \in Nat \ {0} /\ d \in Nat \ {0}
    BY <2>2, PowerFacts
  <2>4. PICK v \in Product(kept, precise, precise) : a = [value |-> (v + up) % ValueRange, base |-> precise]
    BY <1>8, <2>1 DEF FromText
  <2>5. a.base = precise /\ c = r * d
    <3>1. Power[u - precise] = r * d
      BY <2>2, PowerGrows
    <3> QED BY <2>4, <3>1
  <2>6. kept \in Nat /\ r * kept <= s.digits /\ s.digits < r * kept + r
    <3> HIDE DEF r
    <3>1. \A x \in Nat, n \in Nat \ {0} :
             x \div n \in Nat /\ n * (x \div n) <= x /\ x < n * (x \div n) + n
      <4> TAKE x \in Nat, n \in Nat \ {0}
      <4>1. x \in Int
        OBVIOUS
      <4> QED BY <4>1, QuotientFacts
    <3> QED BY <1>1, <2>3, <3>1
  <2>7. e = s.digits * d
    BY <2>1
  <2> HIDE DEF kept, e, c, d, r
  <2>8. kept * c <= e /\ e < kept * c + c
    <3>1. r * kept \in Nat /\ r * kept + r \in Nat /\ d \in Nat \ {0}
      BY <2>3, <2>6
    <3>2. (r * kept) * d <= s.digits * d /\ s.digits * d < (r * kept + r) * d
      BY <1>1, <2>6, <3>1, FactorCompares
    <3>3. (r * kept) * d = kept * (r * d) /\ (r * kept + r) * d = kept * (r * d) + r * d
      BY <2>3, <2>6
    <3> QED BY <2>5, <2>7, <3>2, <3>3
  <2>9. kept < ValueRange - 1
    <3>1. kept * c \in Nat /\ (ValueRange - 1) * c \in Nat /\ ValueRange - 1 \in Nat
      BY <1>4, <2>6, RangeFacts
    <3>2. kept * c < (ValueRange - 1) * c
      BY <1>5, <2>8, <3>1
    <3> QED BY <1>4, <2>6, <3>1, <3>2, FactorCompares
  <2>10. v \in Nat /\ v <= kept /\ kept < v + 2
    <3>1. kept * c < ValueRange * c
      <4>1. kept \in Int /\ ValueRange \in Int /\ kept < ValueRange
        BY <2>6, <2>9, RangeFacts
      <4> QED BY <1>4, <4>1, FactorCompares
    <3>2. v \in Nat /\ v * Power[u - precise] <= kept * Power[u - precise]
            /\ kept * Power[u - precise] < v * Power[u - precise] + 2 * Power[u - precise]
      BY <1>3, <2>2, <2>4, <2>5, <2>6, <3>1, ProductWorth DEF c
    <3>3. v \in Nat /\ v * c <= kept * c /\ kept * c < v * c + 2 * c
      BY <2>5, <3>2 DEF c
    <3>4. v * c + 2 * c = (v + 2) * c /\ v + 2 \in Int
      BY <1>4, <3>3
    <3> QED BY <1>4, <2>6, <3>3, <3>4, FactorCompares
  <2>11. a.value = v + up /\ up \in 0..1
    <3>1. v + up \in Nat /\ v + up < ValueRange /\ up \in 0..1
      BY <2>6, <2>9, <2>10, RangeFacts
    <3>2. \A x \in Nat, n \in Nat \ {0} : x < n => x % n = x
      OBVIOUS
    <3>3. (v + up) % ValueRange = v + up
      <4> HIDE DEF up
      <4> QED BY <3>1, <3>2, RangeFacts
    <3> QED BY <2>4, <3>1, <3>3
  <2> HIDE DEF up
  <2>12. a.value - 1 <= kept /\ kept <= a.value + 1
    BY <2>6, <2>10, <2>11
  <2>13. (a.value - 1) * c <= kept * c /\ kept * c <= (a.value + 1) * c
    <3>1. a.value - 1 \in Int /\ a.value + 1 \in Int /\ kept \in Int
      BY <1>3, <2>6
    <3> QED BY <1>4, <2>12, <3>1, FactorCompares
  <2>14. (a.value - 1) * c = a.value * c - c /\ (a.value + 1) * c = a.value * c + c
    BY <1>3, <1>4
  <2>15. \A x, y \in Nat : x - c <= y /\ y <= x + c /\ y <= e /\ e < y + c
                              => x - e <= 2 * c - 1 /\ -(x - e) <= 2 * c - 1
    BY <1>4, <1>5
  <2>16. a.value * c \in Nat /\ kept * c \in Nat
    BY <1>3, <1>4, <2>6
  <2>17. a.value * c - e <= 2 * c - 1 /\ -(a.value * c - e) <= 2 * c - 1
    BY <2>8, <2>13, <2>14, <2>15, <2>16
  <2> QED BY <2>17 DEF e, c
<1> QED BY <1>7, <1>8

\* A decimal that is not far from a positive double is within the bias of
\* it, in units that are fine enough.
LEMMA NotFar ==
  ASSUME NEW digits \in Nat \ {0}, NEW places \in Nat, NEW tolerance \in Nat \ {0}, NEW a \in SDecimal,
         ~Far(a, digits, places, tolerance), NEW u \in Nat, IntDigits <= u, places <= u
  PROVE  /\ a.base <= IntDigits
         /\ LET exact == digits * Power[u - places]
                off == (a.value * Power[u - a.base] - exact) * tolerance
            IN  off <= exact /\ -off <= exact
<1> DEFINE p == Power[places]
           d == Power[u - places]
           b == Power[a.base]
           c == Power[u - a.base]
           o == a.value * p - digits * b
<1>1. a.base \in Nat /\ a.value \in Nat /\ digits > 0
  BY SDecimalFacts
<1>2. a.base <= IntDigits /\ a.base <= u
  BY <1>1, DecimalAssumption DEF Far
<1>3. /\ u - a.base \in Nat /\ u - a.base <= u /\ u - (u - a.base) = a.base
      /\ u - places \in Nat /\ u - places <= u /\ u - (u - places) = places
  BY <1>1, <1>2
<1>4. p \in Nat \ {0} /\ d \in Nat \ {0} /\ b \in Nat \ {0} /\ c \in Nat \ {0}
  BY <1>1, <1>3, PowerFacts
<1>5. b * c = p * d
  <2>1. Power[u] = Power[u - (u - a.base)] * Power[u - a.base]
    BY <1>3, PowerGrows
  <2>2. Power[u] = Power[u - (u - places)] * Power[u - places]
    BY <1>3, PowerGrows
  <2> QED BY <1>3, <2>1, <2>2
<1>6. CALC_BASE(a.base) = b
  BY <1>1, <1>2, CalcBaseFacts
<1>7. ~((IF o < 0 THEN -o ELSE o) * tolerance > digits * b)
  BY <1>1, <1>6 DEF Far
<1>8. a.value * p \in Nat /\ digits * b \in Nat /\ o \in Int
  BY <1>1, <1>4
<1>9. o * tolerance <= digits * b /\ (-o) * tolerance <= digits * b
  <2> HIDE DEF o, p, b
  <2>1. CASE o < 0
    <3>1. (-o) * tolerance \in Nat /\ (-o) * tolerance <= digits * b
      BY <1>7, <1>8, <2>1
    <3>2. o * tolerance = -((-o) * tolerance)
      BY <1>8
    <3> QED BY <1>8, <3>1, <3>2
  <2>2. CASE ~(o < 0)
    <3>1. o * tolerance \in Nat /\ o * tolerance <= digits * b
      BY <1>7, <1>8, <2>2
    <3>2. (-o) * tolerance = -(o * tolerance)
      BY <1>8
    <3> QED BY <1>8, <3>1, <3>2
  <2> QED BY <1>8, <2>1, <2>2
<1> HIDE DEF p, b, c, d
<1> DEFINE e == digits * d
           w == a.value * c - e
<1>10. e \in Nat /\ w \in Int
  BY <1>1, <1>4
<1>11. w * (p * b) = o * (p * d)
  <2>1. (a.value * c) * (p * b) = (a.value * p) * (b * c)
    BY <1>1, <1>4
  <2>2. (digits * d) * (p * b) = (digits * b) * (p * d)
    BY <1>4
  <2>3. a.value * c \in Int /\ digits * d \in Int /\ p * b \in Int /\ p * d \in Int
    BY <1>1, <1>4
  <2>4. \A x, y, z \in Int : (x - y) * z = x * z - y * z
    OBVIOUS
  <2>5. w * (p * b) = (a.value * c) * (p * b) - (digits * d) * (p * b)
    BY <2>3, <2>4
  <2>6. o * (p * d) = (a.value * p) * (p * d) - (digits * b) * (p * d)
    BY <1>8, <2>3, <2>4
  <2> QED BY <1>5, <2>1, <2>2, <2>5, <2>6
<1>12. e * (p * b) = (digits * b) * (p * d)
  BY <1>4
<1> HIDE DEF o, e, w
<1>13. p * b \in Nat \ {0} /\ p * d \in Nat \ {0}
  BY <1>4
<1>14. w * tolerance <= e
  <2>1. (o * tolerance) * (p * d) <= (digits * b) * (p * d)
    <3>1. o * tolerance \in Int
      BY <1>8
    <3> QED BY <1>8, <1>9, <1>13, <3>1, FactorCompares
  <2>2. (o * tolerance) * (p * d) = (o * (p * d)) * tolerance
    BY <1>8, <1>13
  <2>3. (w * (p * b)) * tolerance = (w * tolerance) * (p * b)
    BY <1>10, <1>13
  <2>4. (w * tolerance) * (p * b) <= e * (p * b)
    BY <1>11, <1>12, <2>1, <2>2, <2>3
  <2>5. w * tolerance \in Int
    BY <1>10
  <2> QED BY <1>10, <1>13, <2>4, <2>5, FactorCompares
<1>15. -(w * tolerance) <= e
  <2>1. ((-o) * tolerance) * (p * d) <= (digits * b) * (p * d)
    <3>1. (-o) * tolerance \in Int
      BY <1>8
    <3> QED BY <1>8, <1>9, <1>13, <3>1, FactorCompares
  <2>2. ((-o) * tolerance) * (p * d) = -((o * (p * d)) * tolerance)
    BY <1>8, <1>13
  <2>3. -((w * (p * b)) * tolerance) = (-(w * tolerance)) * (p * b)
    BY <1>10, <1>13
  <2>4. (-(w * tolerance)) * (p * b) <= e * (p * b)
    BY <1>11, <1>12, <2>1, <2>2, <2>3
  <2>5. -(w * tolerance) \in Int
    BY <1>10
  <2> QED BY <1>10, <1>13, <2>4, <2>5, FactorCompares
<1> QED BY <1>2, <1>14, <1>15 DEF w, e, c, d

\* With as many places as an int has digits a positive double is not far,
\* if it has no more places itself and is neither too large nor too small.
LEMMA AllPlacesSuffice ==
  ASSUME NEW digits \in Nat \ {0}, NEW places \in Nat, places <= IntDigits, NEW tolerance \in Nat \ {0},
         digits * Power[IntDigits - places] \in tolerance..ValueRange - 1,
         NEW v \in Product(digits, places, IntDigits)
  PROVE  ~Far([value |-> v, base |-> IntDigits], digits, places, tolerance)
<1> DEFINE p == Power[places]
           d == Power[IntDigits - places]
           b == Power[IntDigits]
           e == digits * d
           o == v * p - digits * b
<1>1. IntDigits \in Nat /\ IntDigits - IntDigits = 0 /\ IntDigits - places \in Nat /\ IntDigits <= IntDigits
      /\ ValueRange \in Nat \ {0}
  BY DecimalAssumption, RangeFacts
<1>2. p \in Nat \ {0} /\ d \in Nat \ {0} /\ b \in Nat \ {0}
  BY <1>1, PowerFacts
<1>3. b = d * p
  BY <1>1, PowerGrows
<1>4. e \in Nat /\ tolerance <= e /\ e < ValueRange
  <2>1. e \in tolerance..ValueRange - 1
    OBVIOUS
  <2> HIDE DEF e
  <2> QED BY <1>1, <2>1
<1>5. v \in Nat /\ v <= e /\ e < v + 2
  <2>1. Power[IntDigits - IntDigits] = 1
    BY <1>1, PowerFacts
  <2>2. digits * Power[IntDigits - places] < ValueRange * Power[IntDigits - IntDigits]
    BY <1>1, <1>4, <2>1
  <2>3. /\ v \in Nat
        /\ v * Power[IntDigits - IntDigits] <= digits * Power[IntDigits - places]
        /\ digits * Power[IntDigits - places] < v * Power[IntDigits - IntDigits] + 2 * Power[IntDigits - IntDigits]
    BY <1>1, <2>2, ProductWorth
  <2> QED BY <1>4, <2>1, <2>3
<1>6. CALC_BASE(IntDigits) = b
  BY <1>1, CalcBaseFacts
<1> HIDE DEF p, d, b
<1>7. digits * b = e * p
  BY <1>2, <1>3
<1> HIDE DEF e
<1>8. o \in Int /\ o <= 0 /\ -o <= p
  <2>1. v * p <= e * p /\ e * p <= (v + 1) * p
    <3>1. v \in Int /\ e \in Int /\ v + 1 \in Int /\ e <= v + 1
      BY <1>4, <1>5
    <3> QED BY <1>2, <1>5, <3>1, FactorCompares
  <2>2. (v + 1) * p = v * p + p /\ v * p \in Nat /\ e * p \in Nat
    BY <1>2, <1>4, <1>5
  <2> QED BY <1>2, <1>7, <2>1, <2>2
<1>9. ~((IF o < 0 THEN -o ELSE o) * tolerance > digits * b)
  <2> DEFINE q == IF o < 0 THEN -o ELSE o
  <2>1. q \in Nat /\ q <= p
    BY <1>2, <1>8
  <2> HIDE DEF q, o
  <2>2. q * tolerance <= p * tolerance
    BY <1>2, <2>1, FactorCompares
  <2>3. tolerance * p <= e * p
    BY <1>2, <1>4, FactorCompares
  <2>4. p * tolerance = tolerance * p /\ q * tolerance \in Nat /\ p * tolerance \in Nat /\ e * p \in Nat
    BY <1>2, <1>4, <2>1
  <2>5. ~(q * tolerance > digits * b)
    BY <1>7, <2>2, <2>3, <2>4
  <2> QED BY <2>5 DEF q
<1> QED BY <1>1, <1>6, <1>9 DEF Far, p

\* What the conversion of a positive double ends with is not far, unless it
\* gave up, which it does not where enough places can be reached.
LEMMA FromDoubleEnds ==
  ASSUME NEW start \in SDecimal, NEW digits \in Nat \ {0}, NEW places \in Nat, NEW tolerance \in Nat \ {0},
         NEW a \in FromDouble(start, digits, places, tolerance)
  PROVE  /\ ~Far(a, digits, places, tolerance) \/ a.base = (start.base + Limit + 1) % BaseRange
         /\ start.base < IntDigits /\ places <= IntDigits
              /\ digits * Power[IntDigits - places] \in tolerance..ValueRange - 1
              => ~Far(a, digits, places, tolerance)
<1> DEFINE TooFar(x) == Far(x, digits, places, tolerance)
           Base(k) == (start.base + k) % BaseRange
           Tried(k) == {[value |-> v, base |-> Base(k)] : v \in Product(digits, places, Base(k))}
           Missed(k) == \E x \in Tried(k) : TooFar(x)
           K == IntDigits - start.base
<1>0. (a = start /\ ~TooFar(a)) \/ \E k \in 1..Limit + 1 :
           /\ a \in Tried(k) /\ (~TooFar(a) \/ k = Limit + 1)
           /\ \A j \in 1..k - 1 : Missed(j)
  <2> DEFINE Reached(k) == TooFar(start) /\ \A j \in 1..k - 1 : Missed(j)
             Ends(k) == {x \in Tried(k) : ~TooFar(x) \/ k = Limit + 1}
             Tries == {k \in 1..Limit + 1 : Reached(k)}
  <2>1. a \in {x \in {start} : ~TooFar(x)} \/ \E k \in Tries : a \in Ends(k)
    <3> HIDE DEF Far
    <3> QED BY DEF FromDouble
  <2> HIDE DEF Tried, TooFar, Missed
  <2> QED BY <2>1
<1>1. ~TooFar(a) \/ (a \in Tried(Limit + 1) /\ \A j \in 1..Limit : Missed(j))
  <2> HIDE DEF Tried, TooFar, Missed
  <2>1. CASE a = start /\ ~TooFar(a)
    BY <2>1
  <2>2. ASSUME NEW k \in 1..Limit + 1, a \in Tried(k), ~TooFar(a) \/ k = Limit + 1,
               \A j \in 1..k - 1 : Missed(j)
        PROVE  ~TooFar(a) \/ (a \in Tried(Limit + 1) /\ \A j \in 1..Limit : Missed(j))
    <3>1. CASE ~TooFar(a)
      BY <3>1
    <3>2. CASE k = Limit + 1
      <4>1. Limit \in Nat /\ k - 1 = Limit
        BY <3>2, DecimalAssumption
      <4> QED BY <2>2, <3>2, <4>1
    <3> QED BY <2>2, <3>1, <3>2
  <2> QED BY <1>0, <2>1, <2>2
<1>2. \A x \in Tried(Limit + 1) : x.base = Base(Limit + 1)
  OBVIOUS
<1>3. start.base \in Nat /\ Limit \in Nat /\ IntDigits \in Nat /\ IntDigits <= Limit /\ IntDigits < BaseRange
      /\ BaseRange \in Nat
  BY SDecimalFacts, DecimalAssumption
<1>4. Base(Limit + 1) = (start.base + Limit + 1) % BaseRange
  <2>1. start.base + (Limit + 1) = start.base + Limit + 1
    BY <1>3
  <2> QED BY <2>1
<1>5. ASSUME start.base < IntDigits, places <= IntDigits,
             digits * Power[IntDigits - places] \in tolerance..ValueRange - 1
      PROVE  \E j \in 1..Limit : ~Missed(j)
  <2>1. K \in 1..Limit /\ start.base + K = IntDigits
    BY <1>3, <1>5
  <2>2. Base(K) = IntDigits
    <3>1. \A x \in Nat, n \in Nat \ {0} : x < n => x % n = x
      OBVIOUS
    <3> QED BY <1>3, <2>1, <3>1
  <2>3. ~Missed(K)
    <3> HIDE DEF Base, K
    <3> QED BY <1>5, <2>2, AllPlacesSuffice
  <2> HIDE DEF Missed, K
  <2> QED BY <2>1, <2>3
<1>6. /\ ~TooFar(a) \/ a.base = (start.base + Limit + 1) % BaseRange
      /\ start.base < IntDigits /\ places <= IntDigits
           /\ digits * Power[IntDigits - places] \in tolerance..ValueRange - 1
           => ~TooFar(a)
  <2> HIDE DEF TooFar, Tried, Missed, Base
  <2> QED BY <1>1, <1>2, <1>4, <1>5
<1> QED BY <1>6

\* A price made of nothing is zero.
LEMMA FromNothing ==
  ASSUME NEW start \in SDecimal, NEW places \in Nat, NEW tolerance,
         NEW a \in FromDouble(start, 0, places, tolerance)
  PROVE  a.value = 0
<1> DEFINE Base(k) == (start.base + k) % BaseRange
           Tried(k) == {[value |-> v, base |-> Base(k)] : v \in Product(0, places, Base(k))}
<1>1. CASE a = start /\ ~Far(start, 0, places, tolerance)
  BY <1>1 DEF Far
<1>2. ASSUME NEW k \in 1..Limit + 1, a \in Tried(k)
      PROVE  a.value = 0
  <2>1. start.base + k \in Int
    BY SDecimalFacts, DecimalAssumption
  <2>2. Base(k) \in Nat
    BY <2>1, BaseFacts
  <2> HIDE DEF Base
  <2>3. 0 * CALC_BASE(Base(k)) = 0
    BY <2>2, CalcBaseFacts
  <2>4. Power[places] \in Nat \ {0} /\ 0 \div Power[places] = 0
    <3>1. \A n \in Nat \ {0} : 0 \div n = 0
      OBVIOUS
    <3> QED BY <3>1, PowerFacts
  <2>5. Product(0, places, Base(k)) = {0 % ValueRange}
    <3>1. 1 * 0 = 0 /\ ~(0 < 0) /\ ~(0 > 0)
      OBVIOUS
    <3> QED BY <2>3, <2>4, <3>1 DEF Product
  <2>6. 0 % ValueRange = 0
    <3>1. \A n \in Nat \ {0} : 0 % n = 0
      OBVIOUS
    <3> QED BY <3>1, RangeFacts
  <2> QED BY <1>2, <2>5, <2>6
<1>3. (a = start /\ ~Far(start, 0, places, tolerance)) \/ \E k \in 1..Limit + 1 : a \in Tried(k)
  BY DEF FromDouble
<1> HIDE DEF Tried
<1> QED BY <1>1, <1>2, <1>3

-----------------------------------------------------------------------------
(* Prices.                                                                 *)

\* Near decimals compare as their worth does.
LEMMA CompareRight ==
  ASSUME NEW a \in SDecimal, NEW d \in SDecimal, Near(a, d)
  PROVE  /\ Less(a, d) <=> Worth(a) < Worth(d)
         /\ Equals(a, d) <=> Worth(a) = Worth(d)
<1> DEFINE x == Rescaled(a, d)[1]
           y == Rescaled(a, d)[2]
           c == Power[Units - Fine(a, d)]
<1>1. Units \in Nat
  BY DepthAssumption
<1>2. x * c = Worth(a) /\ y * c = Worth(d)
  BY <1>1, RescaledExact DEF Near, Worth
<1>3. x \in Int /\ y \in Int
  BY RescaledType
<1>4. Fine(a, d) \in Nat /\ Fine(a, d) <= Units
  BY RescaledType DEF Near, Fine
<1>5. c \in Nat \ {0}
  <2>1. Units - Fine(a, d) \in Nat
    BY <1>1, <1>4
  <2> QED BY <2>1, PowerFacts
<1>6. (Less(a, d) <=> x < y) /\ (Equals(a, d) <=> x = y)
  BY DEF Less, Equals
<1> HIDE DEF x, y, c
<1> QED BY <1>2, <1>3, <1>5, <1>6, FactorCompares

\* Their sum and difference are exact if they are in the range of value.
LEMMA SumRight ==
  ASSUME NEW a \in SDecimal, NEW d \in SDecimal, Near(a, d)
  PROVE  LET inRange(w) == w \in 0..ValueRange * Power[Units - Fine(a, d)] - 1
         IN  /\ inRange(Worth(a) + Worth(d)) => Worth(Plus(a, d)) = Worth(a) + Worth(d)
             /\ inRange(Worth(a) - Worth(d)) => Worth(Minus(a, d)) = Worth(a) - Worth(d)
<1> DEFINE x == Rescaled(a, d)[1]
           y == Rescaled(a, d)[2]
           c == Power[Units - Fine(a, d)]
<1>1. Units \in Nat
  BY DepthAssumption
<1>2. x * c = Worth(a) /\ y * c = Worth(d)
  BY <1>1, RescaledExact DEF Near, Worth
<1>3. x \in Int /\ y \in Int
  BY RescaledType
<1>4. Fine(a, d) \in Nat /\ Fine(a, d) <= Units
  BY RescaledType DEF Near, Fine
<1>5. c \in Nat \ {0}
  <2>1. Units - Fine(a, d) \in Nat
    BY <1>1, <1>4
  <2> QED BY <2>1, PowerFacts
<1>6. /\ Worth(Plus(a, d)) = ((x + y) % ValueRange) * c
      /\ Worth(Minus(a, d)) = ((x - y) % ValueRange) * c
  BY DEF Plus, Minus, Worth
<1> HIDE DEF x, y, c
<1>7. ASSUME NEW z \in Int, z * c \in 0..ValueRange * c - 1
      PROVE  (z % ValueRange) * c = z * c
  <2>1. 0 * c = 0 /\ z * c \in Int /\ ValueRange * c \in Int
    BY <1>5, <1>7, RangeFacts
  <2>2. 0 * c <= z * c /\ z * c < ValueRange * c
    BY <1>7, <2>1
  <2>3. 0 <= z /\ z < ValueRange
    BY <1>5, <2>2, FactorCompares, RangeFacts
  <2>4. \A n \in Nat, r \in Nat \ {0} : n < r => n % r = n
    OBVIOUS
  <2>5. z % ValueRange = z
    BY <2>3, <2>4, RangeFacts
  <2> QED BY <2>5
<1>8. x * c + y * c = (x + y) * c /\ x * c - y * c = (x - y) * c /\ x + y \in Int /\ x - y \in Int
  BY <1>3, <1>5
<1> QED BY <1>2, <1>6, <1>7, <1>8 DEF c

\* A calculation with result out has just been made with these operands.
Made(op, left, right, out) ==
    calc' = [made |-> calc.made + 1, op |-> op, left |-> left, right |-> right, out |-> out]

PriceInv == Quote \in SDecimal /\ ArithmeticRight /\ RoundsDown /\ ConversionsNear

\* Zero compares as its worth does.
LEMMA ZeroCompares ==
  /\ Zero \in SDecimal
  /\ \A e \in Decimals : Near(Zero, e) => (Less(Zero, e) <=> Worth(Zero) < Worth(e))
                                          /\ (Equals(Zero, e) <=> Worth(Zero) = Worth(e))
<1>1. Zero \in SDecimal
  BY RangeFacts, BaseFacts DEF Zero, SDecimal
<1>2. \A e \in Decimals : e \in SDecimal
  BY DepthAssumption
<1> QED BY <1>1, <1>2, CompareRight

\* Nothing was calculated yet.
LEMMA NothingMade == calc = NoCalculation => PriceInv
<1> SUFFICES ASSUME calc = NoCalculation
             PROVE  PriceInv
  OBVIOUS
<1>1. calc.op = "none" /\ Quote = Zero
  BY DEF NoCalculation, Quote
<1>2. ArithmeticRight
  BY <1>1, ZeroCompares DEF ArithmeticRight
<1>3. RoundsDown /\ ConversionsNear
  BY <1>1 DEF RoundsDown, ConversionsNear, TextsNear, DoublesNear
<1> QED BY <1>1, <1>2, <1>3, ZeroCompares DEF PriceInv

\* The price is not calculated on with when a book is pushed.
LEMMA CalculationOver == calc' = NoCalculation => PriceInv'
<1> SUFFICES ASSUME calc' = NoCalculation
             PROVE  PriceInv'
  OBVIOUS
<1>1. calc'.op = "none" /\ Quote' = Zero
  BY DEF NoCalculation, Quote
<1>2. ArithmeticRight'
  BY <1>1, ZeroCompares DEF ArithmeticRight
<1>3. RoundsDown' /\ ConversionsNear'
  BY <1>1 DEF RoundsDown, ConversionsNear, TextsNear, DoublesNear
<1> QED BY <1>1, <1>2, <1>3, ZeroCompares DEF PriceInv

\* A calculation whose result is right keeps the invariant.
LEMMA PriceMade ==
  ASSUME NEW op, NEW left, NEW right, NEW out \in SDecimal, Made(op, left, right, out),
         op \in {"plus", "minus", "round", "text", "construct", "from"},
         op \in {"plus", "minus"} =>
            LET exact == IF op = "plus" THEN Worth(left) + Worth(right) ELSE Worth(left) - Worth(right)
            IN  Near(left, right) /\ exact \in 0..ValueRange * Power[Units - Fine(left, right)] - 1
                   => Worth(out) = exact,
         op = "round" => (left.base <= Units /\ left.base - right <= IntDigits =>
            Worth(out) <= Worth(left) /\ Worth(left) - Worth(out) < Power[Units - out.base]),
         op = "text" => TextsNear',
         op \in {"construct", "from"} => DoublesNear'
  PROVE  PriceInv'
<1>1. calc'.op = op /\ calc'.left = left /\ calc'.right = right /\ calc'.out = out /\ Quote' = out
  BY DEF Made, Quote
<1>2. \A e \in Decimals : Near(out, e) => (Less(out, e) <=> Worth(out) < Worth(e))
                                          /\ (Equals(out, e) <=> Worth(out) = Worth(e))
  <2>1. \A e \in Decimals : e \in SDecimal
    BY DepthAssumption
  <2> QED BY <2>1, CompareRight
<1>3. ArithmeticRight'
  BY <1>1, <1>2 DEF ArithmeticRight
<1>4. RoundsDown'
  BY <1>1 DEF RoundsDown
<1>5. ConversionsNear'
  <2>1. CASE op = "text"
    <3>1. DoublesNear'
      BY <1>1, <2>1 DEF DoublesNear
    <3> QED BY <2>1, <3>1 DEF ConversionsNear
  <2>2. CASE op \in {"construct", "from"}
    <3>1. TextsNear'
      BY <1>1, <2>2 DEF TextsNear
    <3> QED BY <2>2, <3>1 DEF ConversionsNear
  <2>3. CASE op \notin {"text", "construct", "from"}
    BY <1>1, <2>3 DEF ConversionsNear, TextsNear, DoublesNear
  <2> QED BY <2>1, <2>2, <2>3
<1> QED BY <1>1, <1>3, <1>4, <1>5 DEF PriceInv

\* A price made of a text is near it.
LEMMA TextMade ==
  ASSUME NEW t \in Texts, NEW precise \in {-1, 1}, NEW ceiling \in BOOLEAN,
         NEW a \in FromText(t, precise, ceiling), Made("text", t, precise, a)
  PROVE  PriceInv'
<1>1. t \in Text /\ precise \in Int /\ Units \in Nat /\ IntDigits <= Units /\ IntDigits \in Nat
  BY DepthAssumption, DecimalAssumption
<1>2. a \in SDecimal
  BY <1>1, FromTextType
<1>3. calc'.op = "text" /\ calc'.left = t /\ calc'.right = precise /\ Quote' = a
  BY DEF Made, Quote
<1>4. ASSUME Places(t) <= Units, a.base <= IntDigits, t.places # NoPoint \/ precise = -1,
             t.digits * Power[Units - Places(t)] < (ValueRange - 1) * Power[Units - a.base]
      PROVE  LET off == a.value * Power[Units - a.base] - t.digits * Power[Units - Places(t)]
             IN  off <= 2 * Power[Units - a.base] - 1 /\ -off <= 2 * Power[Units - a.base] - 1
  <2>1. a.base <= Units
    BY <1>1, <1>2, <1>4, SDecimalFacts
  <2> QED BY <1>1, <1>4, <2>1, FromTextWorth
<1>5. TextsNear'
  BY <1>3, <1>4 DEF TextsNear, Worth, Within
<1> QED BY <1>2, <1>5, PriceMade

\* A price made of a double is near it, or adding places was given up.
LEMMA DoubleMade ==
  ASSUME NEW d \in Doubles, NEW start \in SDecimal, NEW op \in {"construct", "from"}, NEW tolerance,
         tolerance = IF op = "construct" THEN InitTolerance ELSE Tolerance,
         NEW a \in FromDouble(start, d.digits, d.places, tolerance), Made(op, d, start, a)
  PROVE  PriceInv'
<1> DEFINE exact == d.digits * Power[Units - d.places]
           near == a.base <= IntDigits
                     /\ Within((Worth(a) - exact) * tolerance, exact)
           gaveUp == a.base = (start.base + Limit + 1) % BaseRange
           suffices == /\ start.base < IntDigits /\ d.places <= IntDigits
                       /\ d.digits * Power[IntDigits - d.places] \in tolerance..ValueRange - 1
<1>1. /\ d.digits \in Int /\ d.places \in Nat /\ Units \in Nat /\ IntDigits <= Units
      /\ tolerance \in Nat \ {0}
  BY DepthAssumption, DecimalAssumption
<1>2. a \in SDecimal
  BY <1>1, FromDoubleType
<1>3. calc'.op = op /\ calc'.left = d /\ calc'.right = start /\ Quote' = a
  BY DEF Made, Quote
<1>4. ASSUME d.places <= Units, d.digits > 0
      PROVE  (near \/ gaveUp) /\ (suffices => near)
  <2>1. d.digits \in Nat \ {0}
    BY <1>1, <1>4
  <2>2. ~Far(a, d.digits, d.places, tolerance) => near
    <3> SUFFICES ASSUME ~Far(a, d.digits, d.places, tolerance)
                 PROVE  near
      OBVIOUS
    <3>1. /\ a.base <= IntDigits
          /\ LET off == (a.value * Power[Units - a.base] - exact) * tolerance
             IN  off <= exact /\ -off <= exact
      BY <1>1, <1>2, <1>4, <2>1, NotFar
    <3> QED BY <3>1 DEF Within, Worth
  <2> HIDE DEF near
  <2>3. ~Far(a, d.digits, d.places, tolerance) \/ gaveUp
    BY <1>1, <2>1, FromDoubleEnds
  <2>4. suffices => ~Far(a, d.digits, d.places, tolerance)
    BY <1>1, <2>1, FromDoubleEnds
  <2> QED BY <2>2, <2>3, <2>4
<1>5. d.digits = 0 => a.value = 0
  BY <1>1, FromNothing
<1>6. DoublesNear'
  <2>1. d.places <= Units => /\ d.digits > 0 => (near \/ gaveUp) /\ (suffices => near)
                             /\ d.digits = 0 => a.value = 0
    BY <1>4, <1>5
  <2>2. Worth(Quote)' = Worth(a)
    BY <1>3 DEF Worth
  <2> QED BY <1>3, <2>1, <2>2 DEF DoublesNear
<1> QED BY <1>2, <1>6, PriceMade

\* Whatever the hub calculates with the price keeps the invariant.
LEMMA HubPriceRight == PriceInv /\ HubPrice => PriceInv'
<1> SUFFICES ASSUME PriceInv, HubPrice
             PROVE  PriceInv'
  OBVIOUS
<1>0. Quote \in SDecimal /\ Decimals \subseteq SDecimal /\ Leftovers \subseteq SDecimal /\ Units \in Nat
  BY DepthAssumption DEF PriceInv
<1>1. ASSUME NEW d \in Decimals, Calculate("plus", Quote, d, Plus(Quote, d))
      PROVE  PriceInv'
  <2>1. Made("plus", Quote, d, Plus(Quote, d))
    BY <1>1 DEF Calculate, Made
  <2>2. Plus(Quote, d) \in SDecimal
    BY <1>0, ArithmeticType
  <2>3. Near(Quote, d) /\ Worth(Quote) + Worth(d) \in 0..ValueRange * Power[Units - Fine(Quote, d)] - 1
           => Worth(Plus(Quote, d)) = Worth(Quote) + Worth(d)
    BY <1>0, SumRight
  <2> HIDE DEF Quote
  <2> QED BY <2>1, <2>2, <2>3, PriceMade
<1>2. ASSUME NEW d \in Decimals, Calculate("minus", Quote, d, Minus(Quote, d))
      PROVE  PriceInv'
  <2>1. Made("minus", Quote, d, Minus(Quote, d))
    BY <1>2 DEF Calculate, Made
  <2>2. Minus(Quote, d) \in SDecimal
    BY <1>0, ArithmeticType
  <2>3. Near(Quote, d) /\ Worth(Quote) - Worth(d) \in 0..ValueRange * Power[Units - Fine(Quote, d)] - 1
           => Worth(Minus(Quote, d)) = Worth(Quote) - Worth(d)
    BY <1>0, SumRight
  <2> QED BY <2>1, <2>2, <2>3, PriceMade
<1>3. ASSUME NEW precise \in 0..2, Calculate("round", Quote, precise, Rounded(Quote, precise))
      PROVE  PriceInv'
  <2>1. Made("round", Quote, precise, Rounded(Quote, precise))
    BY <1>3 DEF Calculate, Made
  <2>2. Rounded(Quote, precise) \in SDecimal
    BY <1>0, RoundedType
  <2>3. Quote.base <= Units /\ Quote.base - precise <= IntDigits =>
           /\ Worth(Rounded(Quote, precise)) <= Worth(Quote)
           /\ Worth(Quote) - Worth(Rounded(Quote, precise)) < Power[Units - Rounded(Quote, precise).base]
    BY <1>0, RoundedWorth DEF Worth
  <2> QED BY <2>1, <2>2, <2>3, PriceMade
<1>4. ASSUME NEW t \in Texts, NEW precise \in {-1, 1}, NEW ceiling \in BOOLEAN,
             NEW a \in FromText(t, precise, ceiling), Calculate("text", t, precise, a)
      PROVE  PriceInv'
  BY <1>4, TextMade DEF Calculate, Made
<1>5. ASSUME NEW d \in Doubles, NEW start \in Leftovers,
             NEW a \in FromDouble(start, d.digits, d.places, InitTolerance), Calculate("construct", d, start, a)
      PROVE  PriceInv'
  <2>1. Made("construct", d, start, a)
    BY <1>5 DEF Calculate, Made
  <2> QED BY <1>0, <2>1, DoubleMade
<1>6. ASSUME NEW d \in Doubles, NEW a \in FromDouble(Quote, d.digits, d.places, Tolerance),
             Calculate("from", d, Quote, a)
      PROVE  PriceInv'
  <2>1. Made("from", d, Quote, a)
    BY <1>6 DEF Calculate, Made
  <2> HIDE DEF Quote
  <2> QED BY <1>0, <2>1, DoubleMade
<1> QED BY <1>1, <1>2, <1>3, <1>4, <1>5, <1>6 DEF HubPrice

\* The rest of the hub, and the stations, calculate nothing.
LEMMA PricesInductive == PriceInv /\ [Next]_vars => PriceInv'
<1>1. ASSUME PriceInv, UNCHANGED calc
      PROVE  PriceInv'
  BY <1>1 DEF PriceInv, ArithmeticRight, RoundsDown, ConversionsNear, TextsNear, DoublesNear, Quote
<1>2. ASSUME NEW symbol, NEW book, NEW slot, OnDepth(symbol, book, slot)
      PROVE  PriceInv'
  BY <1>2, CalculationOver DEF OnDepth
<1>3. ASSUME [Next]_vars, ~HubPrice, \A symbol, book, slot : ~OnDepth(symbol, book, slot)
      PROVE  UNCHANGED calc
  BY <1>3 DEF Next, Hub, Overwrite, DataReceiveStep, HandleDepthData, ReturnDepthData, DataProcessStep,
     MakeEnhanced, StoreObject, DeliverEnhanced, ReturnEnhanced, Broadcast, DestroyDataProcess, vars
<1> QED BY <1>1, <1>2, <1>3, HubPriceRight

\* The last calculation of the hub is right, and its result a decimal with
\* which it can calculate on (the operators and conversions of SDecimal).
THEOREM PriceInvariant == Spec => []PriceInv
<1>1. Init => PriceInv
  BY NothingMade DEF Init
<1> QED BY <1>1, PricesInductive, PTL DEF Spec

\* Prices compare, add and subtract as their worth does (decimal.h, the
\* operators of SDecimal).
THEOREM ArithmeticCorrect == Spec => []ArithmeticRight
<1>1. PriceInv => ArithmeticRight
  BY DEF PriceInv
<1> QED BY <1>1, PriceInvariant, PTL

\* Rounding never raises a price, and lowers it by less than a unit of the
\* last place kept (SDecimal::from of a decimal).
THEOREM RoundingCorrect == Spec => []RoundsDown
<1>1. PriceInv => RoundsDown
  BY DEF PriceInv
<1> QED BY <1>1, PriceInvariant, PTL

\* What a text is converted to is near it, and what a positive double is
\* converted to, whatever the decimal was before, unless the conversion gave
\* up; it does not if as many places as an int has digits suffice and fewer
\* were there already (SDecimal::from of a string and of a double, and the
\* constructor that calls it).
THEOREM ConversionsCorrect == Spec => []ConversionsNear
<1>1. PriceInv => ConversionsNear
  BY DEF PriceInv
<1> QED BY <1>1, PriceInvariant, PTL

-----------------------------------------------------------------------------
(* The inductive invariant of the updates on their way.                    *)

Elements(q) == {q[i] : i \in DOMAIN q}
Increasing(q) == \A i, j \in DOMAIN q : i < j => q[i] < q[j]

Handled == {process.handler.n} \ {NoUpdate}
OnTheWay == Elements(receive.tasks) \cup Elements(process.tasks) \cup Handled \cup Elements(fsQueue)

Stages == {"idle", "fault", "store", "deliver", "return", "destroyed"}
Handlers == [at: Stages, n: Updates \cup {NoUpdate}, sought: Symbols \cup {Other}]
Push == [symbol: Symbols, book: Books, slot: Slots]
Object == [sums: {<<>>} \cup {Accumulate(book) : book \in Books}, spoilt: BOOLEAN, refs: Int,
           freed: SUBSET {"package", "entry"}]

\* Every variable has its type, and whatever is on its way was pushed.
DepthTypeOK ==
    /\ pushed \in Seq(Push) /\ Len(pushed) <= MaxPushes
    /\ text \in [Slots -> Symbols \cup {Other}]
    /\ receive \in [tasks: Seq(Updates), delivered: BOOLEAN]
    /\ receive.delivered => receive.tasks # <<>>
    /\ process \in [tasks: Seq(Updates), handler: Handlers]
    /\ process.handler.at = "idle" => process.handler.n = NoUpdate
    /\ process.handler.n = NoUpdate => process.handler.at \in {"idle", "destroyed"}
    /\ object \in [Updates -> Object]
    /\ fsQueue \in Seq(Updates)
    /\ OnTheWay \subseteq DOMAIN pushed
    /\ \A key \in DOMAIN depth_data_ : depth_data_[key] \in DOMAIN pushed
    /\ \A x \in sent : x.n \in DOMAIN pushed

\* Updates do not overtake each other, and none is in two places except
\* while it is passed on.
InLine ==
    /\ Increasing(receive.tasks) /\ Increasing(process.tasks) /\ Increasing(fsQueue)
    /\ \A n \in Elements(receive.tasks), m \in Elements(process.tasks) \cup Handled \cup Elements(fsQueue) :
          m <= n /\ (~receive.delivered => m < n)
    /\ \A n \in Elements(process.tasks), m \in Handled \cup Elements(fsQueue) : m < n
    /\ \A n \in Handled, m \in Elements(fsQueue) :
          m <= n /\ (process.handler.at \notin {"return", "destroyed"} => m < n)

\* What the handler of DataProcess is about to insert has no entry under the
\* symbol it looked for.
Missing == process.handler.at = "store" => process.handler.sought \notin DOMAIN depth_data_

\* The packages that hold the enhanced data of an update are counted.
Counted ==
    \A n \in Updates :
        object[n].refs = (IF n \in Handled THEN 1 ELSE 0) + (IF n \in Elements(fsQueue) THEN 1 ELSE 0)

\* The two parts of EntriesFreeAtExit: why an entry freed what it owned, and
\* that packages free nothing while there is one.
EntriesKnown ==
    \A n \in Updates : "entry" \in object[n].freed =>
        \/ process.handler.at = "destroyed" /\ \E key \in DOMAIN depth_data_ : depth_data_[key] = n
        \/ \E key \in DOMAIN depth_data_ : depth_data_[key] \in torn
LastFrees == \A n \in Updates : object[n].refs > 0 => "package" \notin object[n].freed

\* The sums that are going to be printed are those of the update's book.
Summed == \A n \in Handled \cup Elements(fsQueue) : object[n].sums = Accumulate(pushed[n].book)

DepthInv ==
    /\ DepthTypeOK
    /\ InLine
    /\ Missing
    /\ EntriesKnown
    /\ Counted
    /\ LastFrees
    /\ Summed
    /\ SumsRight

-----------------------------------------------------------------------------
(* Queues.                                                                 *)

\* What is put into a queue and what is taken from it.
LEMMA QueueFacts ==
  ASSUME NEW q \in Seq(Updates)
  PROVE  /\ Elements(q) \subseteq Updates
         /\ \A n \in Updates : Append(q, n) \in Seq(Updates) /\ Elements(Append(q, n)) = Elements(q) \cup {n}
         /\ q # <<>> => /\ Head(q) \in Updates
                        /\ Tail(q) \in Seq(Updates)
                        /\ Elements(q) = Elements(Tail(q)) \cup {Head(q)}
<1>1. Elements(q) \subseteq Updates
  BY DEF Elements
<1>2. ASSUME NEW n \in Updates
      PROVE  Append(q, n) \in Seq(Updates) /\ Elements(Append(q, n)) = Elements(q) \cup {n}
  <2> DEFINE r == Append(q, n)
  <2>1. r \in Seq(Updates) /\ DOMAIN q = 1..Len(q) /\ DOMAIN r = 1..(Len(q) + 1) /\ Len(q) \in Nat
    OBVIOUS
  <2>2. r[Len(q) + 1] = n /\ \A i \in DOMAIN q : r[i] = q[i]
    OBVIOUS
  <2> HIDE DEF r
  <2>3. \A i \in DOMAIN r : i \in DOMAIN q \/ i = Len(q) + 1
    BY <2>1
  <2>4. \A i \in DOMAIN q : i \in DOMAIN r
    BY <2>1
  <2>5. Len(q) + 1 \in DOMAIN r
    BY <2>1
  <2> QED BY <2>1, <2>2, <2>3, <2>4, <2>5 DEF Elements, r
<1>3. ASSUME q # <<>>
      PROVE  /\ Head(q) \in Updates
             /\ Tail(q) \in Seq(Updates)
             /\ Elements(q) = Elements(Tail(q)) \cup {Head(q)}
  <2> DEFINE r == Tail(q)
  <2>1. Head(q) = q[1] /\ r \in Seq(Updates) /\ DOMAIN q = 1..Len(q) /\ DOMAIN r = 1..(Len(q) - 1)
        /\ Len(q) \in Nat \ {0}
    BY <1>3
  <2>2. \A i \in DOMAIN r : r[i] = q[i + 1]
    BY <1>3
  <2> HIDE DEF r
  <2>3. \A i \in DOMAIN r : i + 1 \in DOMAIN q
    BY <2>1
  <2>4. \A i \in DOMAIN q : i = 1 \/ (i - 1 \in DOMAIN r /\ i - 1 + 1 = i)
    BY <2>1
  <2>5. 1 \in DOMAIN q
    BY <2>1
  <2> QED BY <2>1, <2>2, <2>3, <2>4, <2>5 DEF Elements, r
<1> QED BY <1>1, <1>2, <1>3

\* An order is kept by them.
LEMMA OrderFacts ==
  ASSUME NEW q \in Seq(Updates), Increasing(q)
  PROVE  /\ \A n \in Updates : (\A m \in Elements(q) : m < n) => Increasing(Append(q, n))
         /\ q # <<>> => Increasing(Tail(q)) /\ \A m \in Elements(Tail(q)) : Head(q) < m
<1>1. ASSUME NEW n \in Updates, \A m \in Elements(q) : m < n
      PROVE  Increasing(Append(q, n))
  <2> DEFINE r == Append(q, n)
  <2>1. DOMAIN q = 1..Len(q) /\ DOMAIN r = 1..(Len(q) + 1) /\ Len(q) \in Nat
    OBVIOUS
  <2>2. r[Len(q) + 1] = n /\ \A i \in DOMAIN q : r[i] = q[i]
    OBVIOUS
  <2> HIDE DEF r
  <2>3. ASSUME NEW i \in DOMAIN r, NEW j \in DOMAIN r, i < j
        PROVE  r[i] < r[j]
    <3>1. i \in DOMAIN q /\ (j \in DOMAIN q \/ j = Len(q) + 1)
      BY <2>1, <2>3
    <3>2. q[i] \in Elements(q)
      BY <3>1 DEF Elements
    <3> QED BY <1>1, <2>2, <2>3, <3>1, <3>2 DEF Increasing
  <2> QED BY <2>3 DEF Increasing, r
<1>2. ASSUME q # <<>>
      PROVE  Increasing(Tail(q)) /\ \A m \in Elements(Tail(q)) : Head(q) < m
  <2> DEFINE r == Tail(q)
  <2>1. Head(q) = q[1] /\ DOMAIN q = 1..Len(q) /\ DOMAIN r = 1..(Len(q) - 1) /\ Len(q) \in Nat \ {0}
    BY <1>2
  <2>2. \A i \in DOMAIN r : r[i] = q[i + 1]
    BY <1>2
  <2> HIDE DEF r
  <2>3. \A i \in DOMAIN r : i + 1 \in DOMAIN q /\ 1 < i + 1
    BY <2>1
  <2>4. \A i, j \in DOMAIN r : i < j => i + 1 < j + 1
    BY <2>1
  <2>5. 1 \in DOMAIN q
    BY <2>1
  <2>6. Increasing(r)
    BY <2>2, <2>3, <2>4 DEF Increasing
  <2>7. \A m \in Elements(r) : q[1] < m
    BY <2>2, <2>3, <2>5 DEF Increasing, Elements
  <2> QED BY <2>1, <2>6, <2>7 DEF r
<1> QED BY <1>1, <1>2

-----------------------------------------------------------------------------
(* The types are kept.                                                     *)

\* The updates that were pushed are updates.
LEMMA PushedUpdates ==
  ASSUME DepthTypeOK
  PROVE  /\ MaxPushes \in Nat /\ Len(pushed) \in Nat
         /\ DOMAIN pushed = 1..Len(pushed)
         /\ DOMAIN pushed \subseteq Updates
         /\ NoUpdate \notin Updates
         /\ \A n \in DOMAIN pushed : pushed[n] \in Push
BY DepthAssumption DEF DepthTypeOK, Updates, NoUpdate

\* The steps of the hub push at most one update, behind the others.
LEMMA PushedKept ==
  ASSUME DepthTypeOK, Next
  PROVE  \A n \in DOMAIN pushed : n \in DOMAIN pushed' /\ pushed'[n] = pushed[n]
<1>1. ASSUME NEW symbol, NEW book, NEW slot, OnDepth(symbol, book, slot)
      PROVE  \A n \in DOMAIN pushed : n \in DOMAIN pushed' /\ pushed'[n] = pushed[n]
  <2>1. pushed' = Append(pushed, [symbol |-> symbol, book |-> book, slot |-> slot])
    BY <1>1 DEF OnDepth
  <2> QED BY <2>1 DEF DepthTypeOK
<1>2. ASSUME \A symbol, book, slot : ~OnDepth(symbol, book, slot)
      PROVE  pushed' = pushed
  BY <1>2 DEF Next, Hub, HubPrice, Calculate, Overwrite, DataReceiveStep, HandleDepthData, ReturnDepthData,
     DataProcessStep, MakeEnhanced, StoreObject, DeliverEnhanced, ReturnEnhanced, Broadcast, DestroyDataProcess
<1> QED BY <1>1, <1>2

\* Where the handler of DataProcess is after its steps.
LEMMA HandlerFacts ==
  ASSUME process \in [tasks: Seq(Updates), handler: Handlers]
  PROVE  /\ \A at, n : /\ Handler(at, n).tasks = process.tasks
                       /\ Handler(at, n).handler = [at |-> at, n |-> n, sought |-> Other]
                       /\ Handler(at, n).handler.at = at /\ Handler(at, n).handler.n = n
                       /\ at \in Stages /\ n \in Updates \cup {NoUpdate} =>
                             Handler(at, n) \in [tasks: Seq(Updates), handler: Handlers]
         /\ [process EXCEPT !.handler = Idle].tasks = process.tasks
         /\ [process EXCEPT !.handler = Idle].handler = [at |-> "idle", n |-> NoUpdate, sought |-> Other]
         /\ [process EXCEPT !.handler = Idle].handler.at = "idle"
         /\ [process EXCEPT !.handler = Idle].handler.n = NoUpdate
         /\ [process EXCEPT !.handler = Idle] \in [tasks: Seq(Updates), handler: Handlers]
BY DEF Handler, Handling, Idle, Handlers, Stages

\* What they do to its queue and its state.
LEMMA HandlerSteps ==
  ASSUME process \in [tasks: Seq(Updates), handler: Handlers],
         NEW n, n = process.handler.n
  PROVE  /\ StoreObject => process.handler.at = "store" /\ process'.tasks = process.tasks
                             /\ process'.handler.at = "deliver" /\ process'.handler.n = n
         /\ DeliverEnhanced => process.handler.at = "deliver" /\ process'.tasks = process.tasks
                                 /\ process'.handler.at = "return" /\ process'.handler.n = n
         /\ ReturnEnhanced => process.handler.at = "return" /\ process'.tasks = process.tasks
                                /\ process'.handler.at = "idle" /\ process'.handler.n = NoUpdate
         /\ DestroyDataProcess => process'.tasks = process.tasks
                                    /\ process'.handler.at = "destroyed" /\ process'.handler.n = n
<1>1. StoreObject => process.handler.at = "store" /\ process' = Handler("deliver", n)
  BY DEF StoreObject
<1>2. DeliverEnhanced => process.handler.at = "deliver" /\ process' = Handler("return", n)
  BY DEF DeliverEnhanced
<1>3. ReturnEnhanced => process.handler.at = "return" /\ process' = [process EXCEPT !.handler = Idle]
  BY DEF ReturnEnhanced
<1>4. DestroyDataProcess => process' = Handler("destroyed", n)
  BY DEF DestroyDataProcess
<1>5. \A at : Handler(at, n).tasks = process.tasks /\ Handler(at, n).handler.at = at /\ Handler(at, n).handler.n = n
  BY DEF Handler, Handling
<1>6. /\ [process EXCEPT !.handler = Idle].tasks = process.tasks
      /\ [process EXCEPT !.handler = Idle].handler.at = "idle"
      /\ [process EXCEPT !.handler = Idle].handler.n = NoUpdate
  BY HandlerFacts
<1>7. ReturnEnhanced => process.handler.at = "return" /\ process'.tasks = process.tasks
                          /\ process'.handler.at = "idle" /\ process'.handler.n = NoUpdate
  BY <1>3, <1>6
<1> HIDE DEF StoreObject, DeliverEnhanced, ReturnEnhanced, DestroyDataProcess, Handler
<1> QED BY <1>1, <1>2, <1>4, <1>5, <1>7

\* Where it goes on with an update it takes.
LEMMA FoundFacts ==
  ASSUME NEW n
  PROVE  /\ Found(n).n = n
         /\ Found(n).at \in {"fault", "deliver", "store"}
         /\ Found(n).at = "store" => Found(n).sought \notin DOMAIN depth_data_
         /\ n \in Updates /\ Read(n) \in Symbols \cup {Other} => Found(n) \in Handlers
BY DEF Found, Handling, Handlers, Stages

\* Objects with another count, and new ones, and those of entries.
LEMMA ObjectTypes ==
  ASSUME NEW objects \in [Updates -> Object], NEW n \in Updates
  PROVE  /\ \A book \in Books : [objects EXCEPT ![n] = Enhanced(book)] \in [Updates -> Object]
         /\ Dropped(objects, n) \in [Updates -> Object]
         /\ [objects EXCEPT ![n].refs = 2] \in [Updates -> Object]
<1>1. \A book \in Books : Enhanced(book) \in Object
  BY DEF Enhanced, Object
<1>2. objects[n] \in Object
  OBVIOUS
<1>3. \A o \in Object, r \in Int, f \in SUBSET {"package", "entry"} : [o EXCEPT !.refs = r, !.freed = f] \in Object
  BY DEF Object
<1>4. objects[n].refs \in Int /\ objects[n].freed \in SUBSET {"package", "entry"}
  BY <1>2 DEF Object
<1> DEFINE o == objects[n]
           r == o.refs - 1
           f == IF o.refs = 1 THEN o.freed \cup {"package"} ELSE o.freed
<1>5. [o EXCEPT !.refs = r, !.freed = f] \in Object
  <2>1. r \in Int /\ f \in SUBSET {"package", "entry"}
    BY <1>4
  <2> HIDE DEF r, f
  <2> QED BY <1>2, <1>3, <2>1
<1>6. Dropped(objects, n) = [objects EXCEPT ![n] = [o EXCEPT !.refs = r, !.freed = f]]
  BY <1>2 DEF Dropped, Object
<1> HIDE DEF o, r, f
<1>7. [objects EXCEPT ![n].refs = 2] \in [Updates -> Object]
  <2>1. [objects EXCEPT ![n].refs = 2] = [objects EXCEPT ![n] = [objects[n] EXCEPT !.refs = 2]]
    OBVIOUS
  <2>2. [objects[n] EXCEPT !.refs = 2] \in Object
    BY <1>2 DEF Object
  <2> QED BY <2>1, <2>2
<1> QED BY <1>1, <1>5, <1>6, <1>7

\* What entries that go do to the objects.
LEMMA OverthrownFacts ==
  ASSUME object \in [Updates -> Object], NEW keys
  PROVE  /\ Overthrown(keys) \in [Updates -> Object]
         /\ \A n \in Updates :
               /\ Overthrown(keys)[n].refs = object[n].refs /\ Overthrown(keys)[n].sums = object[n].sums
               /\ "package" \in Overthrown(keys)[n].freed => "package" \in object[n].freed
               /\ "entry" \in Overthrown(keys)[n].freed =>
                     \/ "entry" \in object[n].freed
                     \/ \E key \in keys \cap DOMAIN depth_data_ : depth_data_[key] = n
<1> DEFINE owned(n) == \E key \in keys \cap DOMAIN depth_data_ : depth_data_[key] = n
           released(n) == [object[n] EXCEPT !.freed = @ \cup {"entry"}]
<1>1. ASSUME NEW n \in Updates
      PROVE  /\ object[n] \in Object /\ released(n) \in Object
             /\ released(n).refs = object[n].refs /\ released(n).sums = object[n].sums
             /\ released(n).freed = object[n].freed \cup {"entry"}
  BY DEF Object
<1>2. Overthrown(keys) = [n \in Updates |-> IF owned(n) THEN released(n) ELSE object[n]]
  BY DEF Overthrown
<1> HIDE DEF released, owned
<1>3. Overthrown(keys) \in [Updates -> Object]
  BY <1>1, <1>2
<1>4. \A n \in Updates :
         /\ Overthrown(keys)[n].refs = object[n].refs /\ Overthrown(keys)[n].sums = object[n].sums
         /\ "package" \in Overthrown(keys)[n].freed => "package" \in object[n].freed
         /\ "entry" \in Overthrown(keys)[n].freed => "entry" \in object[n].freed \/ owned(n)
  BY <1>1, <1>2
<1> QED BY <1>3, <1>4 DEF owned

\* A new update is on its way to DataReceive, and pushed.
LEMMA OnDepthType ==
  ASSUME DepthTypeOK, NEW symbol \in Symbols, NEW book \in Books, NEW slot \in Slots, OnDepth(symbol, book, slot)
  PROVE  DepthTypeOK'
<1> DEFINE n == Len(pushed) + 1
           push == [symbol |-> symbol, book |-> book, slot |-> slot]
<1>1. push \in Push /\ pushed \in Seq(Push) /\ Len(pushed) < MaxPushes
  BY DEF Push, DepthTypeOK, OnDepth
<1>2. pushed' = Append(pushed, push)
  BY DEF OnDepth
<1>3. pushed' \in Seq(Push) /\ Len(pushed') = n /\ DOMAIN pushed' = DOMAIN pushed \cup {n}
  <2> HIDE DEF push
  <2> QED BY <1>1, <1>2
<1>4. n \in Updates
  BY <1>1, PushedUpdates DEF Updates
<1>5. /\ receive' = [receive EXCEPT !.tasks = Append(@, n)]
      /\ text' = [text EXCEPT ![slot] = symbol]
      /\ UNCHANGED <<process, object, depth_data_, fsQueue, sent>>
  BY <1>3 DEF OnDepth
<1> HIDE DEF n
<1>6. /\ receive'.tasks = Append(receive.tasks, n) /\ receive'.delivered = receive.delivered
      /\ receive' \in [tasks: Seq(Updates), delivered: BOOLEAN]
      /\ receive'.delivered => receive'.tasks # <<>>
      /\ Elements(receive'.tasks) = Elements(receive.tasks) \cup {n}
  <2>1. receive \in [tasks: Seq(Updates), delivered: BOOLEAN]
    BY DEF DepthTypeOK
  <2>2. receive'.tasks = Append(receive.tasks, n) /\ receive'.delivered = receive.delivered
    BY <1>5, <2>1
  <2>3. receive.tasks \in Seq(Updates)
    BY <2>1
  <2>4. receive'.tasks \in Seq(Updates) /\ Elements(receive'.tasks) = Elements(receive.tasks) \cup {n}
    BY <1>4, <2>2, <2>3, QueueFacts
  <2>5. receive'.tasks # <<>>
    BY <1>4, <2>2, <2>3
  <2> QED BY <1>5, <2>1, <2>2, <2>4, <2>5
<1>7. OnTheWay' = OnTheWay \cup {n}
  BY <1>5, <1>6 DEF OnTheWay, Elements, Handled
<1>8. text' \in [Slots -> Symbols \cup {Other}]
  BY <1>5 DEF DepthTypeOK
<1>9. Len(pushed') <= MaxPushes
  BY <1>1, <1>3, PushedUpdates DEF n
<1> QED BY <1>3, <1>5, <1>6, <1>7, <1>8, <1>9 DEF DepthTypeOK

\* Whoever takes an update over had it pushed.
LEMMA TypesKept ==
  ASSUME DepthTypeOK, [Next]_vars
  PROVE  DepthTypeOK'
<1> DEFINE R == Elements(receive.tasks)
           P == Elements(process.tasks)
           F == Elements(fsQueue)
<1>1. /\ receive \in [tasks: Seq(Updates), delivered: BOOLEAN]
      /\ process \in [tasks: Seq(Updates), handler: Handlers]
      /\ fsQueue \in Seq(Updates) /\ object \in [Updates -> Object]
  BY DEF DepthTypeOK
<1>2. /\ OnTheWay = R \cup P \cup Handled \cup F
      /\ OnTheWay' = Elements(receive'.tasks) \cup Elements(process'.tasks) \cup Handled' \cup Elements(fsQueue')
      /\ Handled' = {process'.handler.n} \ {NoUpdate}
  BY DEF OnTheWay, Elements, Handled
<1>3. process.handler.at \in Stages /\ process.handler.n \in Updates \cup {NoUpdate}
  BY <1>1 DEF Handlers
<1>4. CASE UNCHANGED vars \/ HubPrice
  <2>1. UNCHANGED <<pushed, text, receive, process, object, depth_data_, fsQueue, sent>>
    BY <1>4 DEF HubPrice, Calculate, vars
  <2>2. OnTheWay' = OnTheWay
    BY <1>2, <2>1 DEF Handled
  <2> QED BY <2>1, <2>2 DEF DepthTypeOK
<1>5. ASSUME NEW slot \in Slots, Overwrite(slot)
      PROVE  DepthTypeOK'
  <2>1. UNCHANGED <<pushed, receive, process, object, depth_data_, fsQueue, sent>>
    BY <1>5 DEF Overwrite
  <2>2. OnTheWay' = OnTheWay
    BY <1>2, <2>1 DEF Handled
  <2>3. text' \in [Slots -> Symbols \cup {Other}]
    BY <1>5 DEF Overwrite, DepthTypeOK
  <2> QED BY <2>1, <2>2, <2>3 DEF DepthTypeOK
<1>6. CASE HandleDepthData
  <2> DEFINE n == Head(receive.tasks)
  <2>1. /\ receive.tasks # <<>>
        /\ receive' = [receive EXCEPT !.delivered = TRUE]
        /\ process' = [process EXCEPT !.tasks = Append(@, n)]
        /\ UNCHANGED <<pushed, text, object, depth_data_, fsQueue, sent>>
    BY <1>6 DEF HandleDepthData
  <2>2. n \in Updates /\ n \in R
    BY <1>1, <2>1, QueueFacts
  <2> HIDE DEF n
  <2>3. receive'.tasks = receive.tasks /\ receive' \in [tasks: Seq(Updates), delivered: BOOLEAN]
    BY <1>1, <2>1
  <2>4. /\ process'.tasks = Append(process.tasks, n) /\ process'.handler = process.handler
        /\ process' \in [tasks: Seq(Updates), handler: Handlers]
        /\ Elements(process'.tasks) = P \cup {n}
    BY <1>1, <2>1, <2>2, QueueFacts
  <2>5. OnTheWay' = OnTheWay
    BY <1>2, <2>1, <2>2, <2>3, <2>4 DEF Handled
  <2> QED BY <2>1, <2>3, <2>4, <2>5 DEF DepthTypeOK
<1>7. CASE ReturnDepthData
  <2>1. /\ receive.delivered
        /\ receive' = [tasks |-> Tail(receive.tasks), delivered |-> FALSE]
        /\ UNCHANGED <<pushed, text, process, object, depth_data_, fsQueue, sent>>
    BY <1>7 DEF ReturnDepthData
  <2>2. Tail(receive.tasks) \in Seq(Updates) /\ Elements(Tail(receive.tasks)) \subseteq R
    BY <1>1, <2>1, QueueFacts DEF DepthTypeOK
  <2>3. OnTheWay' \subseteq OnTheWay
    BY <1>2, <2>1, <2>2 DEF Handled
  <2> QED BY <2>1, <2>2, <2>3 DEF DepthTypeOK
<1>8. CASE MakeEnhanced
  <2> DEFINE n == Head(process.tasks)
  <2>1. /\ process.tasks # <<>>
        /\ object' = [object EXCEPT ![n] = Enhanced(pushed[n].book)]
        /\ process' = [tasks |-> Tail(process.tasks), handler |-> Found(n)]
        /\ UNCHANGED <<pushed, text, receive, depth_data_, fsQueue, sent>>
    BY <1>8 DEF MakeEnhanced
  <2>2. /\ n \in Updates /\ Tail(process.tasks) \in Seq(Updates)
        /\ P = Elements(Tail(process.tasks)) \cup {n}
    BY <1>1, <2>1, QueueFacts
  <2>3. n \in DOMAIN pushed
    BY <1>2, <2>2 DEF DepthTypeOK
  <2>4. pushed[n].book \in Books /\ pushed[n].slot \in Slots
    BY <2>3, PushedUpdates DEF Push
  <2> HIDE DEF n
  <2>5. object' \in [Updates -> Object]
    BY <1>1, <2>1, <2>2, <2>4, ObjectTypes
  <2>6. Read(n) \in Symbols \cup {Other}
    BY <2>4 DEF Read, Slot, DepthTypeOK
  <2>7. process' \in [tasks: Seq(Updates), handler: Handlers]
    BY <2>1, <2>2, <2>6, FoundFacts
  <2>8. /\ process'.tasks = Tail(process.tasks) /\ process'.handler.n = n /\ n # NoUpdate
        /\ process'.handler.at # "idle"
    BY <2>1, <2>2, FoundFacts, PushedUpdates
  <2>9. OnTheWay' \subseteq OnTheWay
    BY <1>2, <2>1, <2>2, <2>8
  <2> QED BY <2>1, <2>5, <2>7, <2>8, <2>9 DEF DepthTypeOK
<1>9. ASSUME NEW at \in Stages \ {"idle"}, process.handler.n = NoUpdate => at = "destroyed",
             process' = Handler(at, process.handler.n),
             UNCHANGED <<pushed, text, receive>>,
             object' \in [Updates -> Object],
             fsQueue' \in Seq(Updates), Elements(fsQueue') \subseteq F \cup Handled,
             \A key \in DOMAIN depth_data_' : depth_data_'[key] \in DOMAIN pushed,
             UNCHANGED sent
      PROVE  DepthTypeOK'
  <2>1. /\ process'.tasks = process.tasks
        /\ process'.handler = [at |-> at, n |-> process.handler.n, sought |-> Other]
        /\ process' \in [tasks: Seq(Updates), handler: Handlers]
    BY <1>1, <1>3, <1>9, HandlerFacts
  <2>2. process'.handler.n = process.handler.n /\ process'.handler.at = at
    BY <2>1
  <2>3. OnTheWay' \subseteq OnTheWay
    BY <1>2, <1>9, <2>1, <2>2 DEF Handled
  <2> QED BY <1>9, <2>1, <2>2, <2>3 DEF DepthTypeOK
<1>10. CASE StoreObject
  <2> DEFINE n == process.handler.n
             key == Read(n)
  <2>1. /\ process.handler.at = "store" /\ process' = Handler("deliver", n)
        /\ object' = Overthrown({key})
        /\ depth_data_' = [k \in DOMAIN depth_data_ \cup {key} |-> IF k = key THEN n ELSE depth_data_[k]]
        /\ UNCHANGED <<pushed, text, receive, fsQueue, sent>>
    BY <1>10 DEF StoreObject
  <2>2. n # NoUpdate /\ n \in DOMAIN pushed
    BY <1>2, <2>1 DEF DepthTypeOK, Handled
  <2> HIDE DEF key, n
  <2>3. object' \in [Updates -> Object]
    BY <1>1, <2>1, OverthrownFacts
  <2>4. \A k \in DOMAIN depth_data_' : depth_data_'[k] \in DOMAIN pushed
    BY <2>1, <2>2 DEF DepthTypeOK
  <2> QED BY <1>1, <1>9, <2>1, <2>2, <2>3, <2>4 DEF Stages, n
<1>11. CASE DeliverEnhanced
  <2> DEFINE n == process.handler.n
  <2>1. /\ process.handler.at = "deliver" /\ process' = Handler("return", n)
        /\ object' = [object EXCEPT ![n].refs = 2]
        /\ fsQueue' = Append(fsQueue, n)
        /\ UNCHANGED <<pushed, text, receive, depth_data_, sent>>
    BY <1>11 DEF DeliverEnhanced
  <2>2. n # NoUpdate /\ n \in Updates /\ Handled = {n}
    BY <1>3, <2>1 DEF DepthTypeOK, Handled
  <2>3. object' \in [Updates -> Object]
    BY <1>1, <2>1, <2>2, ObjectTypes
  <2>4. fsQueue' \in Seq(Updates) /\ Elements(fsQueue') \subseteq F \cup Handled
    BY <1>1, <2>1, <2>2, QueueFacts
  <2> QED BY <1>9, <2>1, <2>2, <2>3, <2>4 DEF Stages, DepthTypeOK
<1>12. CASE ReturnEnhanced
  <2>1. /\ process.handler.at = "return"
        /\ object' = Dropped(object, process.handler.n)
        /\ process' = [process EXCEPT !.handler = Idle]
        /\ UNCHANGED <<pushed, text, receive, depth_data_, fsQueue, sent>>
    BY <1>12 DEF ReturnEnhanced
  <2>2. process.handler.n \in Updates
    BY <1>3, <2>1 DEF DepthTypeOK
  <2>3. object' \in [Updates -> Object]
    BY <1>1, <2>1, <2>2, ObjectTypes
  <2>4. /\ process'.tasks = process.tasks
        /\ process'.handler = [at |-> "idle", n |-> NoUpdate, sought |-> Other]
        /\ process' \in [tasks: Seq(Updates), handler: Handlers]
    BY <1>1, <2>1, HandlerFacts
  <2>5. OnTheWay' \subseteq OnTheWay
    BY <1>2, <2>1, <2>4
  <2> QED BY <2>1, <2>3, <2>4, <2>5 DEF DepthTypeOK
<1>13. CASE Broadcast
  <2> DEFINE n == Head(fsQueue)
             message == [n |-> n, levels |-> Printed(n)]
  <2>1. /\ fsQueue # <<>>
        /\ sent' \in {sent, sent \cup {message}}
        /\ object' = Dropped(object, n)
        /\ fsQueue' = Tail(fsQueue)
        /\ UNCHANGED <<pushed, text, receive, process, depth_data_>>
    BY <1>13 DEF Broadcast
  <2>2. n \in Updates /\ Tail(fsQueue) \in Seq(Updates) /\ F = Elements(Tail(fsQueue)) \cup {n}
    BY <1>1, <2>1, QueueFacts
  <2>3. message.n = n
    OBVIOUS
  <2>4. n \in DOMAIN pushed
    BY <1>2, <2>2 DEF DepthTypeOK
  <2> HIDE DEF n, message
  <2>5. object' \in [Updates -> Object]
    BY <1>1, <2>1, <2>2, ObjectTypes
  <2>6. OnTheWay' \subseteq OnTheWay
    BY <1>2, <2>1, <2>2 DEF Handled
  <2>7. \A x \in sent' : x.n \in DOMAIN pushed
    BY <2>1, <2>3, <2>4 DEF DepthTypeOK
  <2> QED BY <1>1, <2>1, <2>2, <2>5, <2>6, <2>7 DEF DepthTypeOK
<1>14. CASE DestroyDataProcess
  <2>1. /\ object' = Overthrown(DOMAIN depth_data_)
        /\ process' = Handler("destroyed", process.handler.n)
        /\ UNCHANGED <<pushed, text, receive, depth_data_, fsQueue, sent>>
    BY <1>14 DEF DestroyDataProcess
  <2>2. object' \in [Updates -> Object]
    BY <1>1, <2>1, OverthrownFacts
  <2> QED BY <1>1, <1>9, <2>1, <2>2 DEF Stages, DepthTypeOK
<1> QED BY <1>4, <1>5, <1>6, <1>7, <1>8, <1>10, <1>11, <1>12, <1>13, <1>14, OnDepthType
        DEF Next, Hub, DataReceiveStep, DataProcessStep

-----------------------------------------------------------------------------
(* The order is kept.                                                      *)

\* The steps that leave the queues and the handler alone, or only let the
\* handler go on with its update.
LEMMA StaysInLine ==
  ASSUME InLine, UNCHANGED <<receive, fsQueue>>, process'.tasks = process.tasks,
         Handled' \subseteq Handled,
         process'.handler.at \in {"return", "destroyed"} \/ process.handler.at \notin {"return", "destroyed"}
  PROVE  InLine'
BY DEF InLine

\* Updates are passed on in their order.
LEMMA OrderKept ==
  ASSUME DepthTypeOK, InLine, [Next]_vars
  PROVE  InLine'
<1> DEFINE R == Elements(receive.tasks)
           P == Elements(process.tasks)
           F == Elements(fsQueue)
<1>1. /\ receive \in [tasks: Seq(Updates), delivered: BOOLEAN]
      /\ process \in [tasks: Seq(Updates), handler: Handlers]
      /\ fsQueue \in Seq(Updates)
      /\ receive.tasks \in Seq(Updates) /\ process.tasks \in Seq(Updates)
  BY DEF DepthTypeOK
<1>2. R \subseteq Updates /\ P \subseteq Updates /\ F \subseteq Updates /\ Handled \subseteq Updates
  BY <1>1, QueueFacts DEF Handled, Handlers
<1>3. \A n \in Updates : n \in Nat
  BY DEF Updates
<1>4. CASE UNCHANGED vars \/ HubPrice \/ \E slot \in Slots : Overwrite(slot)
  <2>1. UNCHANGED <<receive, process, fsQueue>>
    BY <1>4 DEF HubPrice, Calculate, Overwrite, vars
  <2> QED BY <2>1 DEF InLine, Handled
<1>5. ASSUME NEW symbol \in Symbols, NEW book \in Books, NEW slot \in Slots, OnDepth(symbol, book, slot)
      PROVE  InLine'
  <2> DEFINE n == Len(pushed) + 1
             push == [symbol |-> symbol, book |-> book, slot |-> slot]
  <2>1. /\ Len(pushed) < MaxPushes
        /\ pushed' = Append(pushed, push)
        /\ UNCHANGED <<process, fsQueue>>
    BY <1>5 DEF OnDepth
  <2>2. Len(pushed') = n
    <3> HIDE DEF push
    <3> QED BY <2>1 DEF DepthTypeOK
  <2>3. receive' = [receive EXCEPT !.tasks = Append(@, n)]
    BY <1>5, <2>2 DEF OnDepth
  <2>4. n \in Updates /\ \A m \in DOMAIN pushed : m < n
    BY <2>1, PushedUpdates DEF Updates
  <2> HIDE DEF n
  <2>5. receive'.tasks = Append(receive.tasks, n) /\ receive'.delivered = receive.delivered
    BY <1>1, <2>3
  <2>6. Elements(receive'.tasks) = R \cup {n}
    BY <1>1, <2>4, <2>5, QueueFacts
  <2>7. \A m \in R \cup P \cup Handled \cup F : m < n
    BY <2>4, PushedUpdates DEF DepthTypeOK, OnTheWay
  <2>8. Increasing(receive'.tasks)
    BY <1>1, <2>4, <2>5, <2>7, OrderFacts DEF InLine
  <2>9. Handled' = Handled /\ Elements(process'.tasks) = P /\ Elements(fsQueue') = F
    BY <2>1 DEF Handled
  <2>10. \A m \in Updates : m < n => m <= n
    BY <1>3, <2>4
  <2> QED BY <1>2, <2>1, <2>5, <2>6, <2>7, <2>8, <2>9, <2>10 DEF InLine
<1>6. CASE HandleDepthData
  <2> DEFINE n == Head(receive.tasks)
  <2>1. /\ receive.tasks # <<>> /\ ~receive.delivered
        /\ receive' = [receive EXCEPT !.delivered = TRUE]
        /\ process' = [process EXCEPT !.tasks = Append(@, n)]
        /\ fsQueue' = fsQueue
    BY <1>6 DEF HandleDepthData
  <2>2. n \in Updates /\ R = Elements(Tail(receive.tasks)) \cup {n}
        /\ \A m \in Elements(Tail(receive.tasks)) : n < m
    BY <1>1, <2>1, QueueFacts, OrderFacts DEF InLine
  <2> HIDE DEF n
  <2>3. receive'.tasks = receive.tasks /\ receive'.delivered
    BY <1>1, <2>1
  <2>4. process'.tasks = Append(process.tasks, n) /\ process'.handler = process.handler
    BY <1>1, <2>1
  <2>5. Elements(process'.tasks) = P \cup {n}
    BY <1>1, <2>2, <2>4, QueueFacts
  <2>6. Handled' = Handled
    BY <2>4 DEF Handled
  <2>7. \A m \in P \cup Handled \cup F : m < n
    BY <2>1, <2>2 DEF InLine
  <2>8. Increasing(process'.tasks)
    BY <1>1, <2>2, <2>4, <2>7, OrderFacts DEF InLine
  <2>9. \A m \in R : n <= m
    BY <1>2, <1>3, <2>2
  <2> QED BY <2>1, <2>3, <2>4, <2>5, <2>6, <2>7, <2>8, <2>9 DEF InLine
<1>7. CASE ReturnDepthData
  <2> DEFINE n == Head(receive.tasks)
  <2>1. /\ receive.delivered /\ receive.tasks # <<>>
        /\ receive' = [tasks |-> Tail(receive.tasks), delivered |-> FALSE]
        /\ UNCHANGED <<process, fsQueue>>
    BY <1>7 DEF ReturnDepthData, DepthTypeOK
  <2>2. n \in Updates /\ R = Elements(Tail(receive.tasks)) \cup {n}
        /\ Increasing(Tail(receive.tasks)) /\ \A m \in Elements(Tail(receive.tasks)) : n < m
    BY <1>1, <2>1, QueueFacts, OrderFacts DEF InLine
  <2> HIDE DEF n
  <2>3. \A m \in P \cup Handled \cup F : m <= n
    BY <2>2 DEF InLine
  <2>4. \A m \in P \cup Handled \cup F, k \in Elements(Tail(receive.tasks)) : m < k /\ m <= k
    BY <1>2, <1>3, <2>2, <2>3
  <2>5. Handled' = Handled
    BY <2>1 DEF Handled
  <2> QED BY <2>1, <2>2, <2>4, <2>5 DEF InLine
<1>8. CASE MakeEnhanced
  <2> DEFINE n == Head(process.tasks)
  <2>1. /\ process.handler = Idle /\ process.tasks # <<>>
        /\ process' = [tasks |-> Tail(process.tasks), handler |-> Found(n)]
        /\ UNCHANGED <<receive, fsQueue>>
    BY <1>8 DEF MakeEnhanced
  <2>2. n \in Updates /\ P = Elements(Tail(process.tasks)) \cup {n}
        /\ Increasing(Tail(process.tasks)) /\ \A m \in Elements(Tail(process.tasks)) : n < m
    BY <1>1, <2>1, QueueFacts, OrderFacts DEF InLine
  <2>3. n # NoUpdate
    BY <2>2, PushedUpdates
  <2> HIDE DEF n
  <2>4. Handled' = {n} /\ process'.tasks = Tail(process.tasks)
    BY <2>1, <2>3, FoundFacts DEF Handled
  <2>5. \A m \in F : m < n /\ m <= n
    BY <1>2, <1>3, <2>2 DEF InLine
  <2>6. \A m \in F, k \in P : m < k
    BY DEF InLine
  <2>7. \A k \in R, m \in P \cup F : m <= k /\ (~receive.delivered => m < k)
    BY DEF InLine
  <2> QED BY <2>1, <2>2, <2>4, <2>5, <2>6, <2>7 DEF InLine
<1>9. CASE StoreObject \/ DestroyDataProcess
  <2>1. /\ process'.tasks = process.tasks /\ process'.handler.n = process.handler.n
        /\ process.handler.at = "store" \/ process'.handler.at = "destroyed"
    BY <1>1, <1>9, HandlerSteps
  <2>0. UNCHANGED <<receive, fsQueue>>
    BY <1>9 DEF StoreObject, DestroyDataProcess
  <2>2. Handled' = Handled
    BY <2>1 DEF Handled
  <2> QED BY <2>0, <2>1, <2>2, StaysInLine
<1>10. CASE DeliverEnhanced
  <2> DEFINE n == process.handler.n
  <2>1. /\ process.handler.at = "deliver"
        /\ fsQueue' = Append(fsQueue, n)
        /\ receive' = receive
    BY <1>10 DEF DeliverEnhanced
  <2>2. Handled = {n} /\ n \in Updates
    BY <1>1, <2>1 DEF Handled, Handlers, DepthTypeOK
  <2>3. process'.tasks = process.tasks /\ process'.handler.n = n /\ process'.handler.at = "return"
    BY <1>1, <1>10, HandlerSteps
  <2>4. Handled' = Handled
    BY <2>2, <2>3 DEF Handled
  <2> HIDE DEF n
  <2>5. \A m \in F : m < n
    BY <2>1, <2>2 DEF InLine
  <2>6. Elements(fsQueue') = F \cup {n} /\ Increasing(fsQueue')
    BY <1>1, <2>1, <2>2, <2>5, QueueFacts, OrderFacts DEF InLine
  <2>7. \A m \in F \cup {n} : m <= n
    BY <1>2, <1>3, <2>2, <2>5
  <2> QED BY <2>1, <2>2, <2>3, <2>4, <2>6, <2>7 DEF InLine
<1>11. CASE ReturnEnhanced
  <2>1. /\ process' = [process EXCEPT !.handler = Idle]
        /\ UNCHANGED <<receive, fsQueue>>
    BY <1>11 DEF ReturnEnhanced
  <2>2. process'.tasks = process.tasks /\ Handled' = {}
    BY <1>1, <2>1, HandlerFacts DEF Handled
  <2> QED BY <2>1, <2>2 DEF InLine
<1>12. CASE Broadcast
  <2>1. fsQueue # <<>> /\ fsQueue' = Tail(fsQueue) /\ UNCHANGED <<receive, process>>
    BY <1>12 DEF Broadcast
  <2>2. Elements(fsQueue') \subseteq F /\ Increasing(fsQueue')
    BY <1>1, <2>1, QueueFacts, OrderFacts DEF InLine
  <2>3. Handled' = Handled
    BY <2>1 DEF Handled
  <2> QED BY <2>1, <2>2, <2>3 DEF InLine
<1> QED BY <1>4, <1>5, <1>6, <1>7, <1>8, <1>9, <1>10, <1>11, <1>12
        DEF Next, Hub, DataReceiveStep, DataProcessStep

-----------------------------------------------------------------------------
(* The entries of depth_data_.                                             *)

\* What a step does to the enhanced data of an update, and what it leaves.
LEMMA ObjectFacts ==
  ASSUME NEW objects \in [Updates -> Object], NEW n \in Updates
  PROVE  /\ \A m \in Updates \ {n} :
               /\ Dropped(objects, n)[m] = objects[m]
               /\ [objects EXCEPT ![n].refs = 2][m] = objects[m]
         /\ Dropped(objects, n)[n].refs = objects[n].refs - 1
         /\ Dropped(objects, n)[n].freed = IF objects[n].refs = 1 THEN objects[n].freed \cup {"package"} ELSE objects[n].freed
         /\ Dropped(objects, n)[n].sums = objects[n].sums
         /\ [objects EXCEPT ![n].refs = 2][n].refs = 2
         /\ [objects EXCEPT ![n].refs = 2][n].freed = objects[n].freed
         /\ [objects EXCEPT ![n].refs = 2][n].sums = objects[n].sums
BY DEF Dropped, Object

\* No entry is replaced, unless the symbol changed since it was looked for.
LEMMA MissingKept ==
  ASSUME DepthTypeOK, Missing, [Next]_vars
  PROVE  Missing'
<1>1. process \in [tasks: Seq(Updates), handler: Handlers]
  BY DEF DepthTypeOK
<1>2. CASE UNCHANGED vars \/ Hub \/ ReturnDepthData \/ Broadcast
  <2>1. UNCHANGED <<process, depth_data_>>
    BY <1>2 DEF vars, Hub, HubPrice, Calculate, OnDepth, Overwrite, ReturnDepthData, Broadcast
  <2> QED BY <2>1 DEF Missing
<1>3. CASE HandleDepthData
  <2>1. process'.handler = process.handler /\ depth_data_' = depth_data_
    BY <1>1, <1>3 DEF HandleDepthData
  <2> QED BY <2>1 DEF Missing
<1>4. CASE MakeEnhanced
  <2>1. process'.handler = Found(Head(process.tasks)) /\ depth_data_' = depth_data_
    BY <1>4 DEF MakeEnhanced
  <2> QED BY <2>1, FoundFacts DEF Missing
<1>5. CASE StoreObject \/ DeliverEnhanced \/ ReturnEnhanced \/ DestroyDataProcess
  <2>1. process'.handler.at # "store"
    BY <1>1, <1>5, HandlerSteps
  <2> QED BY <2>1 DEF Missing
<1> QED BY <1>2, <1>3, <1>4, <1>5 DEF Next, DataReceiveStep, DataProcessStep

\* What is freed by an entry is known to be: an entry was replaced by that of
\* an update whose symbol changed, or all entries went with DataProcess.
LEMMA EntriesKept ==
  ASSUME DepthTypeOK, Missing, EntriesKnown, [Next]_vars
  PROVE  EntriesKnown'
<1>1. process \in [tasks: Seq(Updates), handler: Handlers] /\ object \in [Updates -> Object]
      /\ fsQueue \in Seq(Updates)
  BY DEF DepthTypeOK
<1>2. CASE UNCHANGED vars
  BY <1>2 DEF vars, EntriesKnown
<1>3. ASSUME UNCHANGED <<depth_data_, torn>>, Alive,
             \A n \in Updates : "entry" \in object'[n].freed => "entry" \in object[n].freed
      PROVE  EntriesKnown'
  BY <1>3 DEF EntriesKnown, Alive
<1>4. CASE Alive /\ (Hub \/ DataReceiveStep)
  <2>1. UNCHANGED <<object, depth_data_, torn>>
    BY <1>4 DEF Hub, HubPrice, Calculate, OnDepth, Overwrite, DataReceiveStep, HandleDepthData, ReturnDepthData
  <2> QED BY <1>3, <1>4, <2>1
<1>5. CASE Alive /\ MakeEnhanced
  <2> DEFINE n == Head(process.tasks)
  <2>1. /\ process.tasks # <<>> /\ object' = [object EXCEPT ![n] = Enhanced(pushed[n].book)]
        /\ UNCHANGED <<depth_data_, torn>>
    BY <1>5 DEF MakeEnhanced
  <2>2. Enhanced(pushed[n].book).freed = {}
    BY DEF Enhanced
  <2> HIDE DEF n
  <2>3. \A m \in Updates : "entry" \in object'[m].freed => "entry" \in object[m].freed
    BY <1>1, <2>1, <2>2
  <2> QED BY <1>3, <1>5, <2>1, <2>3
<1>6. CASE Alive /\ StoreObject
  <2> DEFINE n == process.handler.n
             key == Read(n)
  <2>1. /\ process.handler.at = "store"
        /\ object' = Overthrown({key})
        /\ depth_data_' = [k \in DOMAIN depth_data_ \cup {key} |-> IF k = key THEN n ELSE depth_data_[k]]
        /\ torn' = IF key # process.handler.sought THEN torn \cup {n} ELSE torn
    BY <1>6 DEF StoreObject
  <2> HIDE DEF n, key
  <2>2. CASE key \in DOMAIN depth_data_
    <3>1. key # process.handler.sought
      BY <2>1, <2>2 DEF Missing
    <3>2. key \in DOMAIN depth_data_' /\ depth_data_'[key] \in torn'
      BY <2>1, <3>1
    <3> QED BY <3>2 DEF EntriesKnown
  <2>3. CASE key \notin DOMAIN depth_data_
    <3>1. \A m \in Updates : "entry" \in object'[m].freed => "entry" \in object[m].freed
      BY <1>1, <2>1, <2>3, OverthrownFacts
    <3>2. \A k \in DOMAIN depth_data_ : k \in DOMAIN depth_data_' /\ depth_data_'[k] = depth_data_[k]
      BY <2>1, <2>3
    <3>3. torn \subseteq torn'
      BY <2>1
    <3> QED BY <1>6, <3>1, <3>2, <3>3 DEF EntriesKnown, Alive
  <2> QED BY <2>2, <2>3
<1>7. CASE Alive /\ DeliverEnhanced
  <2> DEFINE n == process.handler.n
  <2>1. object' = [object EXCEPT ![n].refs = 2] /\ UNCHANGED <<depth_data_, torn>>
        /\ process.handler.at = "deliver"
    BY <1>7 DEF DeliverEnhanced
  <2>2. n \in Updates
    BY <1>1, <2>1 DEF DepthTypeOK, Handlers
  <2> HIDE DEF n
  <2>3. \A m \in Updates : "entry" \in object'[m].freed => "entry" \in object[m].freed
    BY <1>1, <2>1, <2>2, ObjectFacts
  <2> QED BY <1>3, <1>7, <2>1, <2>3
<1>8. ASSUME NEW n \in Updates, object' = Dropped(object, n), UNCHANGED <<depth_data_, torn>>, Alive
      PROVE  EntriesKnown'
  <2>1. /\ \A m \in Updates \ {n} : object'[m] = object[m]
        /\ object'[n].freed = IF object[n].refs = 1 THEN object[n].freed \cup {"package"} ELSE object[n].freed
    BY <1>1, <1>8, ObjectFacts
  <2>2. \A m \in Updates : "entry" \in object'[m].freed => "entry" \in object[m].freed
    BY <2>1
  <2> QED BY <1>3, <1>8, <2>2
<1>9. CASE Alive /\ ReturnEnhanced
  <2>1. process.handler.n \in Updates
    BY <1>1, <1>9 DEF ReturnEnhanced, DepthTypeOK, Handlers
  <2> QED BY <1>8, <1>9, <2>1 DEF ReturnEnhanced
<1>10. CASE Alive /\ Broadcast
  <2>1. Head(fsQueue) \in Updates
    BY <1>1, <1>10, QueueFacts DEF Broadcast
  <2> QED BY <1>8, <1>10, <2>1 DEF Broadcast
<1>11. CASE Alive /\ DestroyDataProcess
  <2>1. /\ object' = Overthrown(DOMAIN depth_data_) /\ UNCHANGED <<depth_data_, torn>>
        /\ process'.handler.at = "destroyed"
    BY <1>1, <1>11, HandlerFacts DEF DestroyDataProcess
  <2>2. \A m \in Updates : "entry" \in object'[m].freed =>
           "entry" \in object[m].freed \/ \E k \in DOMAIN depth_data_ : depth_data_[k] = m
    BY <1>1, <2>1, OverthrownFacts
  <2> QED BY <1>11, <2>1, <2>2 DEF EntriesKnown, Alive
<1> QED BY <1>2, <1>4, <1>5, <1>6, <1>7, <1>9, <1>10, <1>11 DEF Next, DataProcessStep

-----------------------------------------------------------------------------
(* The packages are counted.                                               *)

\* A package that holds the enhanced data is counted, whoever holds it, and
\* frees them if it is the last.
LEMMA CountKept ==
  ASSUME DepthTypeOK, InLine, Counted, LastFrees, Summed, [Next]_vars
  PROVE  Counted' /\ LastFrees' /\ Summed'
<1> DEFINE P == Elements(process.tasks)
           F == Elements(fsQueue)
<1>1. /\ process \in [tasks: Seq(Updates), handler: Handlers]
      /\ fsQueue \in Seq(Updates) /\ process.tasks \in Seq(Updates)
      /\ object \in [Updates -> Object] /\ OnTheWay \subseteq DOMAIN pushed
      /\ process.handler.n \in Updates \cup {NoUpdate}
  BY DEF DepthTypeOK, Handlers
<1>2. /\ F \subseteq OnTheWay /\ P \subseteq OnTheWay /\ Handled \subseteq OnTheWay
      /\ OnTheWay \subseteq Updates
  BY <1>1, PushedUpdates DEF OnTheWay
<1>3. \A m \in OnTheWay : pushed'[m] = pushed[m]
  <2>1. CASE UNCHANGED vars
    BY <2>1 DEF vars
  <2>2. CASE Next
    BY <1>1, <2>2, PushedKept
  <2> QED BY <2>1, <2>2
<1>4. \A m \in Updates : m \in Nat /\ ~(m < m)
  BY DEF Updates
<1>5. ASSUME \A m \in Updates : object'[m].refs = object[m].refs /\ object'[m].sums = object[m].sums
                                  /\ ("package" \in object'[m].freed => "package" \in object[m].freed),
             Handled' = Handled, fsQueue' = fsQueue
      PROVE  Counted' /\ LastFrees' /\ Summed'
  <2>1. Elements(fsQueue') = F
    BY <1>5
  <2>2. Counted'
    BY <1>5, <2>1 DEF Counted
  <2>3. LastFrees'
    BY <1>5 DEF LastFrees
  <2>4. Summed'
    BY <1>2, <1>3, <1>5, <2>1 DEF Summed
  <2> QED BY <2>2, <2>3, <2>4
<1>6. CASE UNCHANGED vars \/ Hub \/ DataReceiveStep
  <2>1. object' = object /\ fsQueue' = fsQueue /\ process'.handler = process.handler
    BY <1>1, <1>6 DEF vars, Hub, HubPrice, Calculate, OnDepth, Overwrite,
       DataReceiveStep, HandleDepthData, ReturnDepthData
  <2>2. Handled' = Handled
    BY <2>1 DEF Handled
  <2> QED BY <1>5, <2>1, <2>2
<1>7. CASE MakeEnhanced
  <2> DEFINE n == Head(process.tasks)
  <2>1. /\ process.handler = Idle /\ process.tasks # <<>>
        /\ object' = [object EXCEPT ![n] = Enhanced(pushed[n].book)]
        /\ process'.handler = Found(n)
        /\ fsQueue' = fsQueue
    BY <1>7 DEF MakeEnhanced
  <2>2. n \in P /\ n \in Updates /\ n # NoUpdate
    BY <1>1, <2>1, QueueFacts, PushedUpdates
  <2> HIDE DEF n
  <2>3. Handled = {} /\ Handled' = {n}
    BY <2>1, <2>2, FoundFacts DEF Handled, Idle, Handling
  <2>4. n \notin F
    BY <1>4, <2>2 DEF InLine
  <2>5. /\ object'[n].refs = 1 /\ object'[n].freed = {} /\ object'[n].sums = Accumulate(pushed[n].book)
        /\ \A m \in Updates \ {n} : object'[m] = object[m]
    BY <1>1, <2>1, <2>2 DEF Enhanced
  <2>6. Counted'
    BY <2>1, <2>2, <2>3, <2>4, <2>5 DEF Counted
  <2>7. LastFrees'
    BY <2>2, <2>5 DEF LastFrees
  <2>8. Summed'
    BY <1>2, <1>3, <2>1, <2>2, <2>3, <2>5 DEF Summed
  <2> QED BY <2>6, <2>7, <2>8
<1>8. CASE StoreObject \/ DestroyDataProcess
  <2>1. PICK keys : object' = Overthrown(keys)
    BY <1>8 DEF StoreObject, DestroyDataProcess
  <2>2. fsQueue' = fsQueue
    BY <1>8 DEF StoreObject, DestroyDataProcess
  <2>3. Handled' = Handled
    BY <1>1, <1>8, HandlerSteps DEF Handled
  <2> QED BY <1>1, <1>5, <2>1, <2>2, <2>3, OverthrownFacts
<1>9. CASE DeliverEnhanced
  <2> DEFINE n == process.handler.n
  <2>0. process.handler.at = "deliver" /\ process'.handler.n = n
    BY <1>1, <1>9, HandlerSteps
  <2>1. /\ process.handler.at = "deliver"
        /\ object' = [object EXCEPT ![n].refs = 2]
        /\ fsQueue' = Append(fsQueue, n)
    BY <1>9 DEF DeliverEnhanced
  <2>2. Handled = {n} /\ Handled' = {n} /\ n \in Updates
    BY <1>1, <2>0 DEF DepthTypeOK, Handled
  <2>3. n \notin F
    BY <1>4, <2>1, <2>2 DEF InLine
  <2>4. Elements(fsQueue') = F \cup {n}
    BY <1>1, <2>1, <2>2, QueueFacts
  <2> HIDE DEF n
  <2>5. /\ object'[n].refs = 2 /\ object'[n].freed = object[n].freed /\ object'[n].sums = object[n].sums
        /\ \A m \in Updates \ {n} : object'[m] = object[m]
    BY <1>1, <2>1, <2>2, ObjectFacts
  <2>6. object[n].refs = 1
    BY <2>2, <2>3 DEF Counted
  <2>7. Counted'
    BY <2>2, <2>4, <2>5 DEF Counted
  <2>8. LastFrees'
    BY <2>2, <2>5, <2>6 DEF LastFrees
  <2>9. Summed'
    BY <1>2, <1>3, <2>2, <2>4, <2>5 DEF Summed
  <2> QED BY <2>7, <2>8, <2>9
<1>10. CASE ReturnEnhanced
  <2> DEFINE n == process.handler.n
  <2>1. /\ process.handler.at = "return" /\ process'.handler.n = NoUpdate
        /\ object' = Dropped(object, n)
        /\ fsQueue' = fsQueue
    BY <1>1, <1>10, HandlerFacts DEF ReturnEnhanced
  <2>2. Handled = {n} /\ Handled' = {} /\ n \in Updates
    BY <1>1, <2>1 DEF DepthTypeOK, Handled
  <2> HIDE DEF n
  <2>3. object[n].refs = 1 + (IF n \in F THEN 1 ELSE 0)
    BY <2>2 DEF Counted
  <2>4. /\ object'[n].refs = object[n].refs - 1 /\ object'[n].sums = object[n].sums
        /\ object'[n].freed = IF object[n].refs = 1 THEN object[n].freed \cup {"package"} ELSE object[n].freed
        /\ \A m \in Updates \ {n} : object'[m] = object[m]
    BY <1>1, <2>1, <2>2, ObjectFacts
  <2>5. Counted'
    BY <2>1, <2>2, <2>3, <2>4 DEF Counted
  <2>6. LastFrees'
    BY <2>2, <2>3, <2>4 DEF LastFrees
  <2>7. Summed'
    BY <1>2, <1>3, <2>1, <2>2, <2>4 DEF Summed
  <2> QED BY <2>5, <2>6, <2>7
<1>11. CASE Broadcast
  <2> DEFINE n == Head(fsQueue)
  <2>1. /\ fsQueue # <<>> /\ fsQueue' = Tail(fsQueue)
        /\ object' = Dropped(object, n)
        /\ process' = process
    BY <1>11 DEF Broadcast
  <2>2. n \in Updates /\ F = Elements(fsQueue') \cup {n} /\ \A m \in Elements(fsQueue') : n < m
    BY <1>1, <2>1, QueueFacts, OrderFacts DEF InLine
  <2> HIDE DEF n
  <2>3. n \notin Elements(fsQueue')
    BY <1>4, <2>2
  <2>4. Handled' = Handled
    BY <2>1 DEF Handled
  <2>5. object[n].refs = 1 + (IF n \in Handled THEN 1 ELSE 0)
    BY <2>2 DEF Counted
  <2>6. /\ object'[n].refs = object[n].refs - 1 /\ object'[n].sums = object[n].sums
        /\ object'[n].freed = IF object[n].refs = 1 THEN object[n].freed \cup {"package"} ELSE object[n].freed
        /\ \A m \in Updates \ {n} : object'[m] = object[m]
    BY <1>1, <2>1, <2>2, ObjectFacts
  <2>7. Counted'
    BY <2>2, <2>3, <2>4, <2>5, <2>6 DEF Counted
  <2>8. LastFrees'
    BY <2>2, <2>5, <2>6 DEF LastFrees
  <2>9. Summed'
    BY <1>2, <1>3, <2>2, <2>4, <2>6 DEF Summed
  <2> QED BY <2>7, <2>8, <2>9
<1> QED BY <1>6, <1>7, <1>8, <1>9, <1>10, <1>11 DEF Next, DataProcessStep

-----------------------------------------------------------------------------
(* The sums.                                                               *)

\* Sums is the function its definition describes.
LEMMA SumsRecursion ==
  ASSUME NEW volumes \in Seq(Nat)
  PROVE  Sums(volumes) = [i \in 0..Len(volumes) |-> IF i = 0 THEN 0 ELSE Sums(volumes)[i - 1] + volumes[i]]
<1> DEFINE n == Len(volumes)
           step == [p \in Nat \X Nat |-> p[2] + volumes[p[1]]]
<1>1. n \in Nat /\ \A i \in 0..n : i # 0 => volumes[i] \in Nat
  OBVIOUS
<1> HIDE DEF n
<1>2. PICK f : Recursion(f, n, 0, step)
  <2> HIDE DEF step
  <2> QED BY <1>1, RecursionExists
<1>3. f = [i \in 0..n |-> IF i = 0 THEN 0 ELSE step[<<i, f[i - 1]>>]]
  BY <1>2 DEF Recursion
<1> DEFINE T == {i \in Nat : i <= n => f[i] \in Nat}
<1>4. 0 \in T
  BY <1>1, <1>3
<1>5. ASSUME NEW i \in Nat, i \in T
      PROVE  i + 1 \in T
  <2> SUFFICES ASSUME i + 1 <= n
               PROVE  f[i + 1] \in Nat
    OBVIOUS
  <2>1. i + 1 \in 0..n /\ i + 1 # 0 /\ i + 1 - 1 = i /\ i + 1 \in Nat /\ i <= n
    BY <1>1
  <2>2. f[i + 1] = step[<<i + 1, f[i]>>]
    <3> HIDE DEF step
    <3> QED BY <1>3, <2>1
  <2>3. f[i] \in Nat
    BY <1>5, <2>1
  <2>4. step[<<i + 1, f[i]>>] = f[i] + volumes[i + 1]
    BY <2>1, <2>3
  <2> QED BY <1>1, <2>1, <2>2, <2>3, <2>4
<1> HIDE DEF T
<1>6. Nat \subseteq T
  BY <1>4, <1>5, Induction
<1>7. ASSUME NEW i \in 0..n, i # 0
      PROVE  step[<<i, f[i - 1]>>] = f[i - 1] + volumes[i]
  <2>1. i - 1 \in Nat /\ i - 1 <= n /\ i \in Nat
    BY <1>1, <1>7
  <2>2. f[i - 1] \in Nat
    BY <1>6, <2>1 DEF T
  <2> QED BY <2>1, <2>2
<1> HIDE DEF step
<1>8. f = [i \in 0..n |-> IF i = 0 THEN 0 ELSE f[i - 1] + volumes[i]]
  BY <1>3, <1>7
<1> QED BY <1>8 DEF Sums, n

\* sums are those of the volumes up to each level.
AddUp(sums, volumes) ==
    /\ DOMAIN sums = DOMAIN volumes
    /\ \A i \in DOMAIN sums : sums[i] = volumes[i] + IF i = 1 THEN 0 ELSE sums[i - 1]

\* The values of Sums do.
LEMMA SumsAddUp ==
  ASSUME NEW volumes \in Seq(Nat), NEW sums, sums = [i \in 1..Len(volumes) |-> Sums(volumes)[i]]
  PROVE  AddUp(sums, volumes)
<1>1. DOMAIN volumes = 1..Len(volumes) /\ Len(volumes) \in Nat /\ \A i \in DOMAIN volumes : volumes[i] \in Nat
  OBVIOUS
<1> DEFINE s == Sums(volumes)
<1>2. s = [i \in 0..Len(volumes) |-> IF i = 0 THEN 0 ELSE s[i - 1] + volumes[i]]
  BY SumsRecursion
<1>3. \A i \in 1..Len(volumes) : s[i] = s[i - 1] + volumes[i] /\ s[0] = 0
  BY <1>1, <1>2
<1>4. \A i \in Nat : i \in 0..Len(volumes) => s[i] \in Nat
  <2> DEFINE T == {i \in Nat : i \in 0..Len(volumes) => s[i] \in Nat}
  <2>1. 0 \in T
    BY <1>1, <1>2
  <2>2. ASSUME NEW i \in Nat, i \in T
        PROVE  i + 1 \in T
    <3> SUFFICES ASSUME i + 1 \in 0..Len(volumes)
                 PROVE  s[i + 1] \in Nat
      OBVIOUS
    <3>1. i + 1 \in 1..Len(volumes) /\ i + 1 - 1 = i /\ i \in 0..Len(volumes)
      BY <1>1
    <3>2. s[i + 1] = s[i] + volumes[i + 1] /\ s[i] \in Nat /\ volumes[i + 1] \in Nat
      BY <1>1, <1>3, <2>2, <3>1
    <3> QED BY <3>2
  <2> HIDE DEF T, s
  <2>3. Nat \subseteq T
    BY <2>1, <2>2, Induction
  <2> QED BY <2>3 DEF T
<1> HIDE DEF s
<1>5. ASSUME NEW i \in 1..Len(volumes)
      PROVE  sums[i] = volumes[i] + IF i = 1 THEN 0 ELSE sums[i - 1]
  <2>1. sums[i] = s[i] /\ (i # 1 => sums[i - 1] = s[i - 1])
    BY <1>1 DEF s
  <2>2. i - 1 \in Nat /\ i - 1 \in 0..Len(volumes)
    BY <1>1
  <2>3. s[i - 1] \in Nat /\ volumes[i] \in Nat /\ (i = 1 => s[i - 1] = 0)
    BY <1>1, <1>3, <1>4, <2>2
  <2>4. s[i] = s[i - 1] + volumes[i]
    BY <1>3
  <2> QED BY <2>1, <2>3, <2>4
<1>6. DOMAIN sums = 1..Len(volumes)
  OBVIOUS
<1> QED BY <1>1, <1>5, <1>6 DEF AddUp

\* What is printed of the sums of a book adds up, unless there are more asks
\* than their array has places: the bids begin behind it.
LEMMA PrintedAddUp ==
  ASSUME DepthTypeOK, NEW n \in DOMAIN pushed, object[n].sums = Accumulate(pushed[n].book)
  PROVE  /\ AddUp(Printed(n).bids, pushed[n].book.bids)
         /\ Len(pushed[n].book.asks) <= LevelCount => AddUp(Printed(n).asks, pushed[n].book.asks)
<1> DEFINE book == pushed[n].book
           A == 1..Len(book.asks)
           B == 1..Len(book.bids)
           sums == Accumulate(book)
<1>1. book.asks \in Seq(Nat) /\ book.bids \in Seq(Nat) /\ LevelCount \in Nat
  BY DepthAssumption, PushedUpdates DEF Push
<1>2. /\ Printed(n).bids = [i \in B |-> sums[LevelCount + i]]
      /\ Printed(n).asks = [i \in A |-> sums[i]]
  BY DEF Printed, AskIndex, BidIndex
<1>3. sums = [x \in {i : i \in A} \cup {LevelCount + i : i \in B} |->
                IF x \in {LevelCount + i : i \in B} THEN Sums(book.bids)[x - LevelCount] ELSE Sums(book.asks)[x]]
  BY DEF Accumulate, AskIndex, BidIndex
<1>4. Len(book.asks) \in Nat /\ Len(book.bids) \in Nat
  BY <1>1
<1> HIDE DEF book, sums
<1>5. \A i \in B : sums[LevelCount + i] = Sums(book.bids)[i]
  <2> TAKE i \in B
  <2> DEFINE x == LevelCount + i
  <2>1. x \in {LevelCount + j : j \in B} /\ x - LevelCount = i
    BY <1>1, <1>4
  <2> HIDE DEF x
  <2>2. sums[x] = Sums(book.bids)[x - LevelCount]
    BY <1>3, <2>1
  <2> QED BY <2>1, <2>2 DEF x
<1>6. ASSUME Len(book.asks) <= LevelCount, NEW i \in A
      PROVE  sums[i] = Sums(book.asks)[i]
  <2>1. \A j \in B : i # LevelCount + j
    BY <1>1, <1>4, <1>6
  <2> QED BY <1>3, <2>1
<1>7. Printed(n).bids = [i \in B |-> Sums(book.bids)[i]]
  BY <1>2, <1>5
<1>8. Len(book.asks) <= LevelCount => Printed(n).asks = [i \in A |-> Sums(book.asks)[i]]
  BY <1>2, <1>6
<1> QED BY <1>1, <1>7, <1>8, SumsAddUp DEF book

\* What was sent adds up.
LEMMA SumsKept ==
  ASSUME DepthTypeOK, Summed, SumsRight, [Next]_vars
  PROVE  SumsRight'
<1>1. \A x \in sent : x.n \in DOMAIN pushed
  BY DEF DepthTypeOK
<1>2. \A m \in DOMAIN pushed : pushed'[m] = pushed[m]
  <2>1. CASE UNCHANGED vars
    BY <2>1 DEF vars
  <2>2. CASE Next
    BY <2>2, PushedKept
  <2> QED BY <2>1, <2>2
<1>3. CASE sent' = sent
  BY <1>1, <1>2, <1>3 DEF SumsRight
<1>4. CASE Broadcast /\ sent' # sent
  <2> DEFINE n == Head(fsQueue)
             message == [n |-> n, levels |-> Printed(n)]
  <2>1. fsQueue # <<>> /\ sent' = sent \cup {message}
    BY <1>4 DEF Broadcast
  <2>2. n \in Elements(fsQueue)
    BY <2>1, QueueFacts DEF DepthTypeOK
  <2>3. message.n = n /\ message.levels = Printed(n)
    OBVIOUS
  <2> HIDE DEF n, message
  <2>4. n \in DOMAIN pushed /\ object[n].sums = Accumulate(pushed[n].book)
    BY <2>2 DEF DepthTypeOK, Summed, OnTheWay
  <2>5. \A side \in {"asks", "bids"} :
          Len(pushed[n].book[side]) <= LevelCount => AddUp(Printed(n)[side], pushed[n].book[side])
    BY <2>4, PrintedAddUp
  <2>6. ASSUME NEW side \in {"asks", "bids"}, Len(pushed'[message.n].book[side]) <= LevelCount
        PROVE  AddUp(message.levels[side], pushed'[message.n].book[side])
    BY <1>2, <2>3, <2>4, <2>5, <2>6
  <2>7. ASSUME NEW x \in sent, NEW side \in {"asks", "bids"}, Len(pushed'[x.n].book[side]) <= LevelCount
        PROVE  AddUp(x.levels[side], pushed'[x.n].book[side])
    BY <1>1, <1>2, <2>7 DEF SumsRight, AddUp
  <2> QED BY <2>1, <2>6, <2>7 DEF SumsRight, AddUp
<1> QED BY <1>3, <1>4 DEF Next, Hub, HubPrice, Calculate, OnDepth, Overwrite, DataReceiveStep, HandleDepthData,
        ReturnDepthData, DataProcessStep, MakeEnhanced, StoreObject, DeliverEnhanced, ReturnEnhanced,
        DestroyDataProcess, vars

-----------------------------------------------------------------------------

\* The inductive invariant: updates keep their order, no entry is replaced
\* under the symbol that was looked for, and every package that holds
\* enhanced data is counted (process_sdepth_package and its neighbours).
THEOREM DepthInvariant == Spec => []DepthInv
<1>1. Init => DepthInv
  <2> SUFFICES ASSUME Init
               PROVE  DepthInv
    OBVIOUS
  <2>1. /\ pushed = <<>> /\ receive = [tasks |-> <<>>, delivered |-> FALSE]
        /\ process = [tasks |-> <<>>, handler |-> Idle]
        /\ fsQueue = <<>> /\ sent = {} /\ depth_data_ = <<>>
        /\ object = [n \in Updates |-> Unmade]
        /\ text \in [Slots -> Symbols \cup {Other}]
    BY DEF Init
  <2>2. receive.tasks = <<>> /\ process.tasks = <<>> /\ process.handler.n = NoUpdate /\ process.handler.at = "idle"
    BY <2>1 DEF Idle, Handling
  <2>3. /\ Elements(receive.tasks) = {} /\ Elements(process.tasks) = {} /\ Elements(fsQueue) = {}
        /\ Handled = {} /\ OnTheWay = {} /\ DOMAIN depth_data_ = {}
    BY <2>1, <2>2 DEF Elements, Handled, OnTheWay
  <2>4. \A n \in Updates : object[n].refs = 0 /\ object[n].freed = {}
    BY <2>1 DEF Unmade
  <2>5. DepthTypeOK
    <3>1. Unmade \in Object
      BY DEF Unmade, Object
    <3>2. pushed \in Seq(Push) /\ Len(pushed) <= MaxPushes
      BY <2>1, DepthAssumption
    <3>3. /\ receive \in [tasks: Seq(Updates), delivered: BOOLEAN] /\ ~receive.delivered
          /\ process \in [tasks: Seq(Updates), handler: Handlers]
          /\ fsQueue \in Seq(Updates)
      BY <2>1 DEF Idle, Handling, Handlers, Stages
    <3> QED BY <2>1, <2>2, <2>3, <3>1, <3>2, <3>3 DEF DepthTypeOK
  <2>6. InLine
    BY <2>1, <2>2, <2>3 DEF InLine, Increasing
  <2>7. Missing /\ EntriesKnown
    BY <2>2, <2>4 DEF Missing, EntriesKnown
  <2>8. Counted /\ LastFrees /\ Summed /\ SumsRight
    BY <2>1, <2>3, <2>4 DEF Counted, LastFrees, Summed, SumsRight
  <2> QED BY <2>5, <2>6, <2>7, <2>8 DEF DepthInv
<1>2. DepthInv /\ [Next]_vars => DepthInv'
  <2> SUFFICES ASSUME DepthInv, [Next]_vars
               PROVE  DepthInv'
    OBVIOUS
  <2>1. DepthTypeOK' /\ InLine' /\ Missing' /\ EntriesKnown'
    BY TypesKept, OrderKept, MissingKept, EntriesKept DEF DepthInv
  <2>2. Counted' /\ LastFrees' /\ Summed' /\ SumsRight'
    BY CountKept, SumsKept DEF DepthInv
  <2> QED BY <2>1, <2>2 DEF DepthInv
<1> QED BY <1>1, <1>2, PTL DEF Spec

\* As long as DataProcess is not destructed its entries free nothing, unless
\* a symbol changed between its lookup and its insertion, and packages free
\* nothing that another package holds (process_sdepth_package, depth_data_).
THEOREM EntriesCorrect == Spec => []EntriesFreeAtExit
<1>1. DepthInv => EntriesFreeAtExit
  BY DEF DepthInv, EntriesKnown, LastFrees, EntriesFreeAtExit
<1> QED BY <1>1, DepthInvariant, PTL

\* The sums that are sent are those of the volumes up to each level, for
\* every side that fits into its array (EnhancedDepthData::init).
THEOREM SumsCorrect == Spec => []SumsRight
<1>1. DepthInv => SumsRight
  BY DEF DepthInv
<1> QED BY <1>1, DepthInvariant, PTL

=============================================================================
