-------------------------- MODULE HttpRequestProofs --------------------------
(***************************************************************************)
(* What the value of a Content-Length is taken for, whatever its length,   *)
(* the base and the width of the word: the loop accepts exactly the        *)
(* numbers that fit, and never a wrong one.                                *)
(*                                                                         *)
(* ParseLength and Meant are recursive functions on the prefixes of the    *)
(* value.  Their equations follow from PrefixRecursion, and what holds of  *)
(* all prefixes from NatSetInduction, both of them from the least element  *)
(* of a set of numbers.                                                    *)
(***************************************************************************)
EXTENDS HttpRequest, WellFoundedInduction, TLAPS

\* A set of numbers that is not empty has a least one.
LEMMA LeastNumber ==
  ASSUME NEW T, T \subseteq Nat, T # {}
  PROVE  \E x \in T : \A y \in T : x <= y
<1> DEFINE R == OpToRel(<, Nat)
<1>1. IsWellFoundedOn(R, Nat)
  BY NatLessThanWellFounded
<1>2. \A x, y \in Nat : x < y => <<x, y>> \in R
  BY DEF OpToRel
<1> HIDE DEF R
<1>3. PICK x \in T : \A y \in T : ~(<<y, x>> \in R)
  BY <1>1, WFMin
<1>4. \A y \in T : x <= y
  <2> TAKE y \in T
  <2>1. x \in Nat /\ y \in Nat
    OBVIOUS
  <2>2. ~(y < x)
    BY <1>2, <1>3, <2>1
  <2> QED
    BY <2>1, <2>2
<1> QED
  BY <1>4

\* Induction for a set of numbers.
LEMMA NatSetInduction ==
  ASSUME NEW S, 0 \in S, \A n \in Nat : n \in S => n + 1 \in S
  PROVE  Nat \subseteq S
<1> DEFINE T == Nat \ S
<1>1. SUFFICES ASSUME T # {} PROVE FALSE
  OBVIOUS
<1>2. PICK x \in T : \A y \in T : x <= y
  <2>1. T \subseteq Nat
    OBVIOUS
  <2> HIDE DEF T
  <2>2. QED
    BY <1>1, <2>1, LeastNumber
<1>3. x \in Nat /\ x # 0
  OBVIOUS
<1>4. x - 1 \in Nat /\ (x - 1) + 1 = x /\ ~(x <= x - 1)
  BY <1>3
<1>5. x - 1 \in S
  BY <1>2, <1>4
<1>6. QED
  BY <1>4, <1>5

\* g goes from a at 0 by one step after the other.
Recurses(g, V, a, n, h) ==
    g \in [0..n -> V] /\ g = [i \in 0..n |-> IF i = 0 THEN a ELSE h[i][g[i - 1]]]

\* A function on 0..n may be defined from its value at 0 and steps.
LEMMA PrefixRecursion ==
  ASSUME NEW V, NEW a \in V, NEW n \in Nat, NEW h \in [1..n -> [V -> V]]
  PROVE  \E g : Recurses(g, V, a, n, h)
<1> DEFINE Defines(k, g) == g = [i \in 0..k |-> IF i = 0 THEN a ELSE h[i][g[i - 1]]]
           S == {k \in Nat : k <= n => \E g \in [0..k -> V] : Defines(k, g)}
<1>1. 0 \in S
  <2> DEFINE g == [i \in 0..0 |-> a]
  <2>1. g \in [0..0 -> V] /\ Defines(0, g)
    OBVIOUS
  <2>2. QED
    BY <2>1
<1>2. ASSUME NEW k \in Nat, k \in S PROVE k + 1 \in S
  <2>1. SUFFICES ASSUME k + 1 <= n PROVE \E g \in [0..(k + 1) -> V] : Defines(k + 1, g)
    OBVIOUS
  <2>2. PICK f \in [0..k -> V] : Defines(k, f)
    BY <1>2, <2>1
  <2> DEFINE g == [i \in 0..(k + 1) |-> IF i = k + 1 THEN h[k + 1][f[k]] ELSE f[i]]
  <2>3. k + 1 \in 1..n /\ k \in 0..k /\ h[k + 1][f[k]] \in V
    BY <2>1
  <2>4. g \in [0..(k + 1) -> V]
    <3>1. ASSUME NEW i \in 0..(k + 1) PROVE (IF i = k + 1 THEN h[k + 1][f[k]] ELSE f[i]) \in V
      BY <2>3, <3>1
    <3>2. QED
      BY <3>1
  <2>5. \A i \in 0..k : g[i] = f[i]
    OBVIOUS
  <2>6. g[k + 1] = h[k + 1][g[k]]
    BY <2>3, <2>5
  <2>7. ASSUME NEW i \in 0..(k + 1) PROVE g[i] = IF i = 0 THEN a ELSE h[i][g[i - 1]]
    <3>1. CASE i = k + 1
      BY <2>6, <3>1
    <3>2. CASE i # k + 1
      <4>1. i \in 0..k /\ (i # 0 => i - 1 \in 0..k)
        BY <3>2
      <4>2. f[i] = IF i = 0 THEN a ELSE h[i][f[i - 1]]
        BY <2>2, <4>1
      <4> HIDE DEF g
      <4>3. QED
        BY <2>5, <4>1, <4>2
    <3>3. QED
      BY <3>1, <3>2
  <2>8. g = [i \in 0..(k + 1) |-> g[i]]
    OBVIOUS
  <2> HIDE DEF g
  <2>9. Defines(k + 1, g)
    BY <2>7, <2>8
  <2>10. QED
    BY <2>4, <2>9
<1>3. n \in S
  <2> HIDE DEF S
  <2>1. QED
    BY <1>1, <1>2, NatSetInduction
<1>4. QED
  BY <1>3 DEF Recurses

-----------------------------------------------------------------------------
(* The two functions on prefixes                                           *)

\* What the value of a length is in the middle of the loop.
Value == [ok : BOOLEAN, n : Nat]

\* What the loop goes on for.
Accepts(v, d) ==
    /\ v.ok
    /\ d \in Digits
    /\ d <= MaxWord
    /\ v.n <= (MaxWord - d) \div Base

ParseStep(v, d) ==
    IF Accepts(v, d) THEN [ok |-> TRUE, n |-> v.n * Base + d] ELSE [ok |-> FALSE, n |-> 0]

ParseStart(raw) == [ok |-> raw # <<>>, n |-> 0]

\* The equations of ParseLength's function on prefixes and of Meant's.
ParsesPrefixes(g, raw) ==
    g = [i \in 0..Len(raw) |-> IF i = 0 THEN ParseStart(raw) ELSE ParseStep(g[i - 1], raw[i])]
MeansPrefixes(g, raw) ==
    g = [i \in 0..Len(raw) |-> IF i = 0 THEN 0 ELSE g[i - 1] * Base + raw[i]]

\* A step of the loop stays a number.
LEMMA ParseStepValue ==
  ASSUME NEW v \in Value, NEW d \in Characters
  PROVE  ParseStep(v, d) \in Value
<1>1. CASE Accepts(v, d)
  <2>1. v.n * Base + d \in Nat
    BY <1>1, BaseAssumption DEF Accepts, Digits, Value
  <2>2. QED
    BY <1>1, <2>1 DEF ParseStep, Value
<1>2. CASE ~Accepts(v, d)
  BY <1>2 DEF ParseStep, Value
<1>3. QED
  BY <1>1, <1>2

\* The loop over a length computes what its steps say.
LEMMA ParseLengthDef ==
  ASSUME NEW raw \in Seq(Characters)
  PROVE  \E g : ParsesPrefixes(g, raw) /\ ParseLength(raw) = g[Len(raw)]
<1> DEFINE h == [i \in 1..Len(raw) |-> [v \in Value |-> ParseStep(v, raw[i])]]
           g == CHOOSE f : ParsesPrefixes(f, raw)
<1>1. h \in [1..Len(raw) -> [Value -> Value]]
  BY ParseStepValue
<1>2. ParseStart(raw) \in Value
  BY DEF ParseStart, Value
<1>3. PICK f : Recurses(f, Value, ParseStart(raw), Len(raw), h)
  <2>1. Len(raw) \in Nat
    OBVIOUS
  <2> HIDE DEF h
  <2>2. QED
    BY <1>1, <1>2, <2>1, PrefixRecursion
<1>4. ParsesPrefixes(f, raw)
  <2>0. f \in [0..Len(raw) -> Value]
    BY <1>3 DEF Recurses
  <2>1. ASSUME NEW i \in 0..Len(raw)
        PROVE  f[i] = IF i = 0 THEN ParseStart(raw) ELSE ParseStep(f[i - 1], raw[i])
    <3>1. f[i] = IF i = 0 THEN ParseStart(raw) ELSE h[i][f[i - 1]]
      BY <1>3 DEF Recurses
    <3>2. i # 0 => i \in 1..Len(raw) /\ f[i - 1] \in Value
      BY <2>0, <2>1
    <3>3. QED
      BY <3>1, <3>2
  <2>2. f = [i \in 0..Len(raw) |-> f[i]]
    BY <2>0
  <2> HIDE DEF h
  <2>3. QED
    BY <2>1, <2>2 DEF ParsesPrefixes
<1>5. ParsesPrefixes(g, raw)
  BY <1>4
<1>6. ParseLength(raw) = g[Len(raw)]
  BY DEF ParseLength, ParsesPrefixes, ParseStart, ParseStep, Accepts
<1>7. QED
  BY <1>5, <1>6

\* And so does the number that was meant.
LEMMA MeantDef ==
  ASSUME NEW raw \in Seq(Characters)
  PROVE  \E g : MeansPrefixes(g, raw) /\ Meant(raw) = g[Len(raw)]
<1> DEFINE h == [i \in 1..Len(raw) |-> [v \in Nat |-> v * Base + raw[i]]]
           g == CHOOSE f : MeansPrefixes(f, raw)
<1>1. h \in [1..Len(raw) -> [Nat -> Nat]]
  <2>1. ASSUME NEW i \in 1..Len(raw), NEW v \in Nat PROVE v * Base + raw[i] \in Nat
    BY BaseAssumption DEF Characters, Digits, NotDigit
  <2>2. QED
    BY <2>1
<1>2. PICK f : Recurses(f, Nat, 0, Len(raw), h)
  <2>1. Len(raw) \in Nat /\ 0 \in Nat
    OBVIOUS
  <2> HIDE DEF h
  <2>2. QED
    BY <1>1, <2>1, PrefixRecursion
<1>3. MeansPrefixes(f, raw)
  <2>1. f \in [0..Len(raw) -> Nat]
    BY <1>2 DEF Recurses
  <2>2. ASSUME NEW i \in 0..Len(raw)
        PROVE  f[i] = IF i = 0 THEN 0 ELSE f[i - 1] * Base + raw[i]
    <3>1. f[i] = IF i = 0 THEN 0 ELSE h[i][f[i - 1]]
      BY <1>2 DEF Recurses
    <3>2. i # 0 => i \in 1..Len(raw) /\ f[i - 1] \in Nat
      BY <2>1, <2>2
    <3>3. QED
      BY <3>1, <3>2
  <2>3. f = [i \in 0..Len(raw) |-> f[i]]
    BY <2>1
  <2> HIDE DEF h
  <2>4. QED
    BY <2>2, <2>3 DEF MeansPrefixes
<1>4. MeansPrefixes(g, raw)
  BY <1>3
<1>5. Meant(raw) = g[Len(raw)]
  BY DEF Meant, MeansPrefixes
<1>6. QED
  BY <1>4, <1>5

-----------------------------------------------------------------------------
(* What the loop accepts                                                   *)

\* The word is compared before it is multiplied: the comparison is the one of
\* the product, which need not fit.
LEMMA ComparedBeforeMultiplied ==
  ASSUME NEW m \in Nat, NEW d \in Nat
  PROVE  (d <= MaxWord /\ m <= (MaxWord - d) \div Base) <=> m * Base + d <= MaxWord
<1>1. ASSUME NEW x \in Nat, NEW y \in Nat, x <= y PROVE x * Base <= y * Base
  BY <1>1, BaseAssumption
<1>2. m * Base \in Nat
  BY BaseAssumption
<1>3. CASE d <= MaxWord
  <2> DEFINE q == (MaxWord - d) \div Base
  <2>1. MaxWord - d \in Nat
    BY <1>3, WordAssumption
  <2>2. q \in Nat /\ q * Base <= MaxWord - d /\ MaxWord - d < (q + 1) * Base
    BY <2>1, BaseAssumption
  <2> HIDE DEF q
  <2>3. q * Base \in Nat /\ (q + 1) * Base \in Nat
    BY <2>2, BaseAssumption
  <2>4. m <= q => m * Base <= q * Base
    BY <1>1, <2>2
  <2>5. q + 1 <= m => (q + 1) * Base <= m * Base
    BY <1>1, <2>2
  <2>6. m <= q <=> m * Base <= MaxWord - d
    BY <1>2, <2>1, <2>2, <2>3, <2>4, <2>5
  <2>7. QED
    BY <1>2, <1>3, <2>6, WordAssumption DEF q
<1>4. CASE d > MaxWord
  BY <1>2, <1>4, WordAssumption
<1>5. QED
  BY <1>3, <1>4, WordAssumption

\* A number does not get smaller by another digit.
LEMMA MeantGrows ==
  ASSUME NEW m \in Nat, NEW d \in Nat
  PROVE  m * Base + d \in Nat /\ m <= m * Base + d
<1>1. m * Base = m + m * (Base - 1) /\ m * (Base - 1) \in Nat
  BY BaseAssumption
<1>2. QED
  BY <1>1

\* A length is a number, of digits only.
DigitsUpTo(raw, i) == \A j \in 1..i : raw[j] \in Digits
IsNumber(raw) == raw # <<>> /\ DigitsUpTo(raw, Len(raw))

\* The loop over the value of Content-Length (httprequest.cpp, parseHead) takes
\* every number that fits into the word, and nothing else, for what it is: for
\* values of any length, of any base, and words of any width.
THEOREM ParseLengthIsExact ==
  ASSUME NEW raw \in Seq(Characters)
  PROVE  /\ Meant(raw) \in Nat
         /\ ParseLength(raw).ok <=> IsNumber(raw) /\ Meant(raw) <= MaxWord
         /\ ParseLength(raw).ok => ParseLength(raw).n = Meant(raw)
<1>1. PICK g : ParsesPrefixes(g, raw) /\ ParseLength(raw) = g[Len(raw)]
  BY ParseLengthDef
<1>2. PICK m : MeansPrefixes(m, raw) /\ Meant(raw) = m[Len(raw)]
  BY MeantDef
<1>3. Len(raw) \in Nat /\ \A i \in 1..Len(raw) : raw[i] \in Characters /\ raw[i] \in Nat
  BY BaseAssumption DEF Characters, Digits, NotDigit
<1> DEFINE Exact(i) ==
             /\ g[i] \in Value /\ m[i] \in Nat
             /\ g[i].ok <=> raw # <<>> /\ DigitsUpTo(raw, i) /\ m[i] <= MaxWord
             /\ g[i].ok => g[i].n = m[i]
           S == {i \in Nat : i <= Len(raw) => Exact(i)}
<1>4. 0 \in S
  <2>1. 0 \in 0..Len(raw)
    BY <1>3
  <2>2. g[0] = ParseStart(raw) /\ m[0] = 0
    BY <1>1, <1>2, <2>1 DEF ParsesPrefixes, MeansPrefixes
  <2>3. g[0].ok = (raw # <<>>) /\ g[0].n = 0 /\ g[0] \in Value
    BY <2>2 DEF ParseStart, Value
  <2>4. DigitsUpTo(raw, 0) /\ m[0] \in Nat /\ m[0] <= MaxWord
    BY <2>2, WordAssumption DEF DigitsUpTo
  <2>5. Exact(0)
    BY <2>2, <2>3, <2>4
  <2>6. QED
    BY <2>5
<1>5. ASSUME NEW i \in Nat, i \in S PROVE i + 1 \in S
  <2>1. SUFFICES ASSUME i + 1 <= Len(raw) PROVE Exact(i + 1)
    OBVIOUS
  <2>2. Exact(i)
    BY <1>3, <1>5, <2>1
  <2> DEFINE d == raw[i + 1]
  <2>3. i + 1 \in 1..Len(raw) /\ i + 1 \in 0..Len(raw) /\ i + 1 # 0 /\ (i + 1) - 1 = i
    BY <1>3, <2>1
  <2>4. d \in Characters /\ d \in Nat
    BY <1>3, <2>3
  <2>5. g[i + 1] = ParseStep(g[i], d)
    BY <1>1, <2>3 DEF ParsesPrefixes
  <2>6. m[i + 1] = m[i] * Base + d
    BY <1>2, <2>3 DEF MeansPrefixes
  <2>7. DigitsUpTo(raw, i + 1) <=> DigitsUpTo(raw, i) /\ d \in Digits
    <3>1. 1..(i + 1) = (1..i) \cup {i + 1}
      OBVIOUS
    <3>2. QED
      BY <3>1 DEF DigitsUpTo
  <2> HIDE DEF d
  <2>8. g[i + 1] \in Value
    BY <2>2, <2>4, <2>5, ParseStepValue
  <2>9. m[i + 1] \in Nat /\ m[i] <= m[i + 1]
    BY <2>2, <2>4, <2>6, MeantGrows
  <2>10. CASE g[i].ok
    <3>1. g[i].n = m[i] /\ raw # <<>> /\ DigitsUpTo(raw, i)
      BY <2>2, <2>10
    <3>2. Accepts(g[i], d) <=> d \in Digits /\ m[i + 1] <= MaxWord
      <4>1. (d <= MaxWord /\ m[i] <= (MaxWord - d) \div Base) <=> m[i + 1] <= MaxWord
        BY <2>2, <2>4, <2>6, ComparedBeforeMultiplied
      <4>2. QED
        BY <2>10, <3>1, <4>1 DEF Accepts
    <3>3. g[i + 1].ok <=> Accepts(g[i], d)
      BY <2>5 DEF ParseStep
    <3>4. g[i + 1].ok => g[i + 1].n = m[i + 1]
      BY <2>5, <2>6, <3>1 DEF ParseStep
    <3>5. QED
      BY <2>7, <2>8, <2>9, <3>1, <3>2, <3>3, <3>4
  <2>11. CASE ~g[i].ok
    <3>1. ~g[i + 1].ok
      BY <2>5, <2>11 DEF ParseStep, Accepts
    <3>2. ~(raw # <<>> /\ DigitsUpTo(raw, i + 1) /\ m[i + 1] <= MaxWord)
      BY <2>2, <2>7, <2>9, <2>11, WordAssumption
    <3>3. QED
      BY <2>8, <2>9, <3>1, <3>2
  <2>12. QED
    BY <2>10, <2>11
<1>6. Exact(Len(raw))
  <2>1. Nat \subseteq S
    <3> HIDE DEF S
    <3>1. QED
      BY <1>4, <1>5, NatSetInduction
  <2>2. QED
    BY <1>3, <2>1
<1>7. QED
  BY <1>1, <1>2, <1>6 DEF IsNumber
=============================================================================
