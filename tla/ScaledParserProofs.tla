------------------------- MODULE ScaledParserProofs -------------------------
(***************************************************************************)
(* That parse_scaled is exact for texts of every length over every         *)
(* alphabet, every scale and every width of the result.                    *)
(*                                                                         *)
(* Pow10 and the numeral of a text are recursive functions.  That they     *)
(* exist, and what they compute, is proved by induction in the form of     *)
(* SetInduction, whose parameter is a set and not a predicate, once for    *)
(* all functions computed from 0 upwards (ComputedFor).                    *)
(*                                                                         *)
(* The verdict at the end needs to know what the locals are of the text    *)
(* read so far: the digits up to the scale are in intpart and frac, and    *)
(* the ones after it were zeros (Reading).  Once the parser gave up, there *)
(* is a reason that no further character removes (Bad): a character that   *)
(* no number has, a number beyond the range, or a digit past the scale.    *)
(***************************************************************************)
EXTENDS ScaledParser, WellFoundedInduction, TLAPS

(* A set that holds 0 and with every number the next holds them all.       *)
LEMMA SetInduction ==
  ASSUME NEW A, 0 \in A, \A n \in Nat : n \in A => n + 1 \in A
  PROVE  Nat \subseteq A
<1> DEFINE T == Nat \ A
           R == OpToRel(<, Nat)
<1> SUFFICES ASSUME T # {} PROVE FALSE
  OBVIOUS
<1>1. IsWellFoundedOn(R, Nat)
  BY NatLessThanWellFounded, Zenon
<1>2. \A a, b \in Nat : a < b => <<a, b>> \in R
  BY DEF OpToRel
<1> HIDE DEF R
<1>3. PICK x \in T : \A y \in T : ~(<<y, x>> \in R)
  BY <1>1, WFMin
<1>4. x \in Nat /\ x # 0 /\ x - 1 \in Nat /\ x - 1 < x
  BY <1>3
<1>5. x - 1 \in A
  BY <1>2, <1>3, <1>4
<1> QED BY <1>3, <1>4, <1>5

(* f is computed from c by G up to n.                                      *)
Computed(c, G, n, f) == f[0] = c /\ \A i \in 1..n : f[i] = G[i][f[i - 1]]

(* Such a function exists up to every number.                              *)
LEMMA ComputedUpTo ==
  ASSUME NEW c \in Nat, NEW G \in [Nat -> [Nat -> Nat]]
  PROVE  \A n \in Nat : \E f \in [0..n -> Nat] : Computed(c, G, n, f)
<1> DEFINE A == {n \in Nat : \E f \in [0..n -> Nat] : Computed(c, G, n, f)}
<1>1. 0 \in A
  <2> DEFINE f == [i \in 0..0 |-> c]
  <2>1. f \in [0..0 -> Nat] /\ f[0] = c
    OBVIOUS
  <2>2. Computed(c, G, 0, f)
    BY <2>1 DEF Computed
  <2> QED BY <2>1, <2>2
<1>2. ASSUME NEW n \in Nat, n \in A PROVE n + 1 \in A
  <2>1. PICK f \in [0..n -> Nat] : Computed(c, G, n, f)
    BY <1>2
  <2> DEFINE g == [i \in 0..(n + 1) |-> IF i = n + 1 THEN G[n + 1][f[n]] ELSE f[i]]
  <2>2. G[n + 1][f[n]] \in Nat
    <3>1. f[n] \in Nat /\ n + 1 \in Nat
      OBVIOUS
    <3>2. G[n + 1] \in [Nat -> Nat]
      BY <3>1
    <3> QED BY <3>1, <3>2
  <2>3. g \in [0..(n + 1) -> Nat]
    <3>1. ASSUME NEW i \in 0..(n + 1)
          PROVE  (IF i = n + 1 THEN G[n + 1][f[n]] ELSE f[i]) \in Nat
      <4>1. CASE i = n + 1
        BY <2>2, <4>1
      <4>2. CASE i # n + 1
        <5>1. i \in 0..n
          BY <4>2
        <5> QED BY <4>2, <5>1
      <4> QED BY <4>1, <4>2
    <3> QED BY <3>1
  <2>4. g[n + 1] = G[n + 1][f[n]] /\ \A i \in 0..n : g[i] = f[i]
    OBVIOUS
  <2> HIDE DEF g
  <2>5. ASSUME NEW i \in 1..(n + 1) PROVE g[i] = G[i][g[i - 1]]
    <3>1. CASE i = n + 1
      <4>1. i - 1 = n /\ n \in 0..n
        BY <3>1
      <4> QED BY <2>4, <3>1, <4>1
    <3>2. CASE i # n + 1
      <4>1. i \in 1..n /\ i \in 0..n /\ i - 1 \in 0..n
        BY <3>2
      <4> QED BY <2>1, <2>4, <4>1 DEF Computed
    <3> QED BY <3>1, <3>2
  <2>6. g[0] = c
    <3>1. 0 \in 0..n
      OBVIOUS
    <3> QED BY <2>1, <2>4, <3>1 DEF Computed
  <2>7. Computed(c, G, n + 1, g)
    BY <2>5, <2>6 DEF Computed
  <2>8. n + 1 \in Nat
    OBVIOUS
  <2> QED BY <2>3, <2>7, <2>8, Zenon
<1> HIDE DEF A
<1>3. Nat \subseteq A
  BY <1>1, <1>2, SetInduction
<1> QED BY <1>3 DEF A

(* And is the only one.                                                    *)
LEMMA ComputedOnce ==
  ASSUME NEW c, NEW G, NEW m \in Nat, NEW n \in Nat, m <= n, NEW f, NEW g,
         Computed(c, G, m, f), Computed(c, G, n, g)
  PROVE  \A i \in 0..m : f[i] = g[i]
<1> DEFINE A == {i \in Nat : i <= m => f[i] = g[i]}
<1>1. 0 \in A
  BY DEF Computed
<1>2. ASSUME NEW i \in Nat, i \in A PROVE i + 1 \in A
  <2> SUFFICES ASSUME i + 1 <= m PROVE f[i + 1] = g[i + 1]
    OBVIOUS
  <2>1. i + 1 \in 1..m /\ i + 1 \in 1..n /\ (i + 1) - 1 = i /\ f[i] = g[i]
    BY <1>2
  <2> QED BY <2>1 DEF Computed
<1> HIDE DEF A
<1>3. Nat \subseteq A
  BY <1>1, <1>2, SetInduction
<1> QED BY <1>3 DEF A

(* So it exists on all numbers.                                            *)
LEMMA ComputedFor ==
  ASSUME NEW c \in Nat, NEW G \in [Nat -> [Nat -> Nat]]
  PROVE  \E f \in [Nat -> Nat] : f[0] = c /\ \A i \in Nat \ {0} : f[i] = G[i][f[i - 1]]
<1> DEFINE F(n) == CHOOSE f \in [0..n -> Nat] : Computed(c, G, n, f)
           f == [n \in Nat |-> F(n)[n]]
<1>1. ASSUME NEW n \in Nat PROVE F(n) \in [0..n -> Nat] /\ Computed(c, G, n, F(n))
  BY ComputedUpTo
<1> HIDE DEF F
<1>2. f \in [Nat -> Nat] /\ \A n \in Nat : f[n] = F(n)[n]
  BY <1>1
<1> HIDE DEF f
<1>3. f[0] = c
  BY <1>1, <1>2 DEF Computed
<1>4. ASSUME NEW i \in Nat \ {0} PROVE f[i] = G[i][f[i - 1]]
  <2>1. i - 1 \in Nat /\ i \in Nat /\ i - 1 <= i /\ i \in 1..i /\ i - 1 \in 0..(i - 1)
    OBVIOUS
  <2>2. F(i)[i] = G[i][F(i)[i - 1]]
    BY <1>1, <2>1 DEF Computed
  <2>3. F(i - 1)[i - 1] = F(i)[i - 1]
    BY <1>1, <2>1, ComputedOnce
  <2> QED BY <1>2, <2>1, <2>2, <2>3
<1> QED BY <1>2, <1>3, <1>4

-----------------------------------------------------------------------------
(* The powers of ten.                                                      *)

(* What Pow10 computes.                                                    *)
LEMMA PowerIs ==
  /\ Pow10 \in [Nat -> Nat]
  /\ Pow10[0] = 1
  /\ \A n \in Nat \ {0} : Pow10[n] = 10 * Pow10[n - 1]
<1> DEFINE G == [n \in Nat |-> [v \in Nat |-> 10 * v]]
<1>1. G \in [Nat -> [Nat -> Nat]] /\ \A n, v \in Nat : G[n][v] = 10 * v
  OBVIOUS
<1> HIDE DEF G
<1>2. PICK f \in [Nat -> Nat] : f[0] = 1 /\ \A i \in Nat \ {0} : f[i] = G[i][f[i - 1]]
  <2>1. 1 \in Nat
    OBVIOUS
  <2> QED BY <1>1, <2>1, ComputedFor, Zenon
<1>3. ASSUME NEW n \in Nat PROVE f[n] = IF n = 0 THEN 1 ELSE 10 * f[n - 1]
  <2>1. CASE n = 0
    BY <1>2, <2>1
  <2>2. CASE n # 0
    <3>1. n - 1 \in Nat
      BY <2>2
    <3>2. f[n - 1] \in Nat
      BY <3>1
    <3> QED BY <1>1, <1>2, <2>2, <3>2
  <2> QED BY <2>1, <2>2
<1>4. f = [n \in Nat |-> IF n = 0 THEN 1 ELSE 10 * f[n - 1]]
  BY <1>3
<1>5. Pow10 = [n \in Nat |-> IF n = 0 THEN 1 ELSE 10 * Pow10[n - 1]]
  BY <1>4 DEF Pow10
<1>6. ASSUME NEW n \in Nat PROVE Pow10[n] = IF n = 0 THEN 1 ELSE 10 * Pow10[n - 1]
  BY <1>5
<1> DEFINE A == {n \in Nat : Pow10[n] \in Nat}
<1>7. 0 \in A
  BY <1>6
<1>8. ASSUME NEW n \in Nat, n \in A PROVE n + 1 \in A
  <2>1. Pow10[n + 1] = 10 * Pow10[n]
    <3>1. n + 1 \in Nat /\ n + 1 # 0 /\ (n + 1) - 1 = n
      OBVIOUS
    <3> QED BY <1>6, <3>1
  <2> QED BY <1>8, <2>1
<1> HIDE DEF A
<1>9. \A n \in Nat : Pow10[n] \in Nat
  BY <1>7, <1>8, SetInduction DEF A
<1>10. Pow10 \in [Nat -> Nat]
  BY <1>5, <1>9
<1> QED BY <1>6, <1>10

(* They are positive.                                                      *)
LEMMA PowerPositive ==
  ASSUME NEW n \in Nat
  PROVE  Pow10[n] \in Nat \ {0} /\ Pow10[n + 1] = 10 * Pow10[n]
<1>1. ASSUME NEW i \in Nat PROVE Pow10[i] \in Nat /\ Pow10[i + 1] = 10 * Pow10[i]
  <2>1. i + 1 \in Nat \ {0} /\ (i + 1) - 1 = i
    OBVIOUS
  <2> QED BY <2>1, PowerIs
<1> DEFINE A == {i \in Nat : Pow10[i] # 0}
<1>2. 0 \in A
  BY PowerIs
<1>3. ASSUME NEW i \in Nat, i \in A PROVE i + 1 \in A
  BY <1>1, <1>3
<1> HIDE DEF A
<1>4. Nat \subseteq A
  BY <1>2, <1>3, SetInduction
<1> QED BY <1>1, <1>4 DEF A

(* The product of two is the power of the sum.                             *)
LEMMA PowerSum ==
  ASSUME NEW m \in Nat, NEW n \in Nat
  PROVE  Pow10[m + n] = Pow10[m] * Pow10[n]
<1> DEFINE A == {i \in Nat : Pow10[m + i] = Pow10[m] * Pow10[i]}
<1>1. 0 \in A
  <2>1. Pow10[m] \in Nat /\ Pow10[0] = 1 /\ m + 0 = m
    BY PowerIs
  <2> QED BY <2>1
<1>2. ASSUME NEW i \in Nat, i \in A PROVE i + 1 \in A
  <2>1. m + i \in Nat /\ m + (i + 1) = (m + i) + 1
    OBVIOUS
  <2>2. Pow10[m + (i + 1)] = 10 * Pow10[m + i]
    BY <2>1, PowerPositive
  <2>3. Pow10[i + 1] = 10 * Pow10[i] /\ Pow10[i] \in Nat /\ Pow10[m] \in Nat
    BY PowerPositive
  <2>4. ASSUME NEW a \in Nat, NEW b \in Nat PROVE 10 * (a * b) = a * (10 * b)
    OBVIOUS
  <2> QED BY <1>2, <2>2, <2>3, <2>4
<1> HIDE DEF A
<1>3. Nat \subseteq A
  BY <1>1, <1>2, SetInduction
<1> QED BY <1>3 DEF A

-----------------------------------------------------------------------------
(* The digits of a text and its point.                                     *)

(* How the numeral of s is computed.                                       *)
Steps(s) ==
  [n \in Nat |-> [v \in Nat |-> IF n \in 1..Len(s) /\ IsDigit(s[n])
                                THEN v * 10 + (s[n] - Zero) ELSE v]]

(* A text with a point.                                                    *)
HasPoint(s) == \E i \in DOMAIN s : s[i] = Dot

(* A text of digits and at most one point.                                 *)
WellFormed(s) ==
  /\ \A i \in DOMAIN s : IsDigit(s[i]) \/ s[i] = Dot
  /\ \A i, j \in DOMAIN s : s[i] = Dot /\ s[j] = Dot => i = j

(* What a step of it computes.                                             *)
LEMMA StepsAre ==
  ASSUME NEW s \in Seq(Nat)
  PROVE  /\ Steps(s) \in [Nat -> [Nat -> Nat]]
         /\ \A n, v \in Nat : Steps(s)[n][v] = IF n \in 1..Len(s) /\ IsDigit(s[n])
                                               THEN v * 10 + (s[n] - Zero) ELSE v
<1>1. ASSUME NEW n \in Nat, NEW v \in Nat
      PROVE  (IF n \in 1..Len(s) /\ IsDigit(s[n]) THEN v * 10 + (s[n] - Zero) ELSE v) \in Nat
  BY DEF IsDigit, Zero
<1> QED BY <1>1 DEF Steps

(* The numeral is the last of the numbers computed.                        *)
LEMMA NumeralIs ==
  ASSUME NEW s \in Seq(Nat)
  PROVE  \E f \in [Nat -> Nat] : Computed(0, Steps(s), Len(s), f) /\ Numeral(s) = f[Len(s)]
<1>0. Len(s) \in Nat /\ 0 \in Nat
  OBVIOUS
<1>1. PICK f \in [Nat -> Nat] : f[0] = 0 /\ \A i \in Nat \ {0} : f[i] = Steps(s)[i][f[i - 1]]
  <2>1. Steps(s) \in [Nat -> [Nat -> Nat]]
    BY StepsAre
  <2> QED BY <1>0, <2>1, ComputedFor, Zenon
<1>2. Computed(0, Steps(s), Len(s), f)
  <2>1. \A i \in 1..Len(s) : i \in Nat \ {0}
    BY <1>0
  <2> QED BY <1>1, <2>1 DEF Computed
<1> DEFINE g == [n \in 0..Len(s) |-> f[n]]
<1>3. ASSUME NEW n \in 0..Len(s)
      PROVE  g[n] = IF n = 0 THEN 0
                    ELSE IF IsDigit(s[n]) THEN g[n - 1] * 10 + (s[n] - Zero) ELSE g[n - 1]
  <2>1. CASE n = 0
    BY <1>0, <1>1, <2>1
  <2>2. CASE n # 0
    <3>1. n \in Nat \ {0} /\ n - 1 \in Nat /\ n \in 1..Len(s) /\ n - 1 \in 0..Len(s)
      BY <1>0, <2>2
    <3>2. f[n - 1] \in Nat /\ f[n] = Steps(s)[n][f[n - 1]]
      BY <1>1, <3>1
    <3>3. f[n] = IF IsDigit(s[n]) THEN f[n - 1] * 10 + (s[n] - Zero) ELSE f[n - 1]
      BY <3>1, <3>2, StepsAre
    <3> QED BY <2>2, <3>1, <3>3
  <2> QED BY <2>1, <2>2
<1>4. g = [n \in 0..Len(s) |-> IF n = 0 THEN 0
                    ELSE IF IsDigit(s[n]) THEN g[n - 1] * 10 + (s[n] - Zero) ELSE g[n - 1]]
  BY <1>3
<1> HIDE DEF g
<1> DEFINE u == CHOOSE u : u = [n \in 0..Len(s) |-> IF n = 0 THEN 0
                    ELSE IF IsDigit(s[n]) THEN u[n - 1] * 10 + (s[n] - Zero) ELSE u[n - 1]]
<1>5. u = [n \in 0..Len(s) |-> IF n = 0 THEN 0
                    ELSE IF IsDigit(s[n]) THEN u[n - 1] * 10 + (s[n] - Zero) ELSE u[n - 1]]
  BY <1>4
<1>6. Numeral(s) = u[Len(s)]
  BY DEF Numeral
<1> HIDE DEF u
<1> DEFINE A == {n \in Nat : n <= Len(s) => u[n] = f[n]}
<1>7. 0 \in A
  <2>1. u[0] = 0
    BY <1>0, <1>5
  <2> QED BY <1>1, <2>1
<1>8. ASSUME NEW n \in Nat, n \in A PROVE n + 1 \in A
  <2> SUFFICES ASSUME n + 1 <= Len(s) PROVE u[n + 1] = f[n + 1]
    OBVIOUS
  <2>1. n + 1 \in 1..Len(s) /\ n + 1 \in 0..Len(s) /\ (n + 1) - 1 = n /\ u[n] = f[n]
        /\ n + 1 \in Nat \ {0}
    BY <1>0, <1>8
  <2>2. u[n + 1] = IF IsDigit(s[n + 1]) THEN u[n] * 10 + (s[n + 1] - Zero) ELSE u[n]
    BY <1>5, <2>1
  <2>3. f[n + 1] = Steps(s)[n + 1][f[n]] /\ f[n] \in Nat
    BY <1>1, <2>1
  <2>4. f[n + 1] = IF IsDigit(s[n + 1]) THEN f[n] * 10 + (s[n + 1] - Zero) ELSE f[n]
    BY <2>1, <2>3, StepsAre
  <2> QED BY <2>1, <2>2, <2>4
<1> HIDE DEF A
<1>9. Nat \subseteq A
  BY <1>7, <1>8, SetInduction
<1>10. Numeral(s) = f[Len(s)]
  BY <1>0, <1>6, <1>9 DEF A
<1> QED BY <1>2, <1>10

(* The numeral of nothing is 0.                                            *)
LEMMA NumeralEmpty == Numeral(<<>>) = 0
<1>1. <<>> \in Seq(Nat) /\ Len(<<>>) = 0
  OBVIOUS
<1>2. PICK f \in [Nat -> Nat] : Computed(0, Steps(<<>>), 0, f) /\ Numeral(<<>>) = f[0]
  BY <1>1, NumeralIs
<1> QED BY <1>2 DEF Computed

(* One more character.                                                     *)
LEMMA NumeralAppend ==
  ASSUME NEW s \in Seq(Nat), NEW c \in Nat
  PROVE  /\ Numeral(s) \in Nat
         /\ Numeral(Append(s, c)) = IF IsDigit(c) THEN Numeral(s) * 10 + (c - Zero) ELSE Numeral(s)
<1> DEFINE t == Append(s, c)
<1>1. /\ t \in Seq(Nat) /\ Len(t) = Len(s) + 1 /\ t[Len(s) + 1] = c /\ Len(s) \in Nat
      /\ \A i \in 1..Len(s) : t[i] = s[i]
  OBVIOUS
<1> HIDE DEF t
<1>a. \A n, v \in Nat : Steps(t)[n][v] = IF n \in 1..Len(t) /\ IsDigit(t[n])
                                          THEN v * 10 + (t[n] - Zero) ELSE v
  BY <1>1, StepsAre
<1>2. PICK f \in [Nat -> Nat] : Computed(0, Steps(s), Len(s), f) /\ Numeral(s) = f[Len(s)]
  BY NumeralIs
<1>3. PICK g \in [Nat -> Nat] : Computed(0, Steps(t), Len(t), g) /\ Numeral(t) = g[Len(t)]
  BY <1>1, NumeralIs
<1> DEFINE A == {n \in Nat : n <= Len(s) => f[n] = g[n]}
<1>4. 0 \in A
  BY <1>2, <1>3 DEF Computed
<1>5. ASSUME NEW n \in Nat, n \in A PROVE n + 1 \in A
  <2> SUFFICES ASSUME n + 1 <= Len(s) PROVE f[n + 1] = g[n + 1]
    OBVIOUS
  <2>1. n + 1 \in 1..Len(s) /\ n + 1 \in 1..Len(t) /\ (n + 1) - 1 = n /\ n + 1 \in Nat /\ n <= Len(s)
    BY <1>1
  <2>a. f[n] = g[n] /\ f[n] \in Nat
    BY <1>5, <2>1
  <2>2. f[n + 1] = Steps(s)[n + 1][f[n]] /\ g[n + 1] = Steps(t)[n + 1][g[n]]
    BY <1>2, <1>3, <2>1 DEF Computed
  <2>3. Steps(s)[n + 1][f[n]] = IF IsDigit(s[n + 1]) THEN f[n] * 10 + (s[n + 1] - Zero) ELSE f[n]
    BY <2>1, <2>a, StepsAre
  <2>4. Steps(t)[n + 1][g[n]] = IF IsDigit(t[n + 1]) THEN g[n] * 10 + (t[n + 1] - Zero) ELSE g[n]
    BY <1>a, <2>1, <2>a
  <2> QED BY <1>1, <2>1, <2>a, <2>2, <2>3, <2>4
<1> HIDE DEF A
<1>6. Nat \subseteq A
  BY <1>4, <1>5, SetInduction
<1>7. f[Len(s)] = g[Len(s)] /\ f[Len(s)] \in Nat
  BY <1>1, <1>6 DEF A
<1>8. Len(t) \in 1..Len(t) /\ Len(t) - 1 = Len(s) /\ Len(t) \in Nat
  BY <1>1
<1>9. g[Len(t)] = Steps(t)[Len(t)][g[Len(s)]]
  BY <1>3, <1>8 DEF Computed
<1>10. g[Len(t)] = IF IsDigit(c) THEN g[Len(s)] * 10 + (c - Zero) ELSE g[Len(s)]
  <2>1. t[Len(t)] = c /\ g[Len(s)] \in Nat
    BY <1>1, <1>7
  <2>2. Steps(t)[Len(t)][g[Len(s)]] = IF IsDigit(t[Len(t)])
                                      THEN g[Len(s)] * 10 + (t[Len(t)] - Zero) ELSE g[Len(s)]
    BY <1>a, <1>8, <2>1
  <2> QED BY <1>9, <2>1, <2>2
<1> QED BY <1>2, <1>3, <1>7, <1>10 DEF t

(* The decimals are the characters after the point.                        *)
LEMMA DecimalsAre ==
  ASSUME NEW s \in Seq(Nat), WellFormed(s)
  PROVE  /\ ~HasPoint(s) => Decimals(s) = 0
         /\ \A p \in DOMAIN s : s[p] = Dot => Decimals(s) = Len(s) - p
         /\ Decimals(s) \in Nat
<1>1. ~HasPoint(s) => Decimals(s) = 0
  BY DEF HasPoint, Decimals
<1>2. ASSUME NEW p \in DOMAIN s, s[p] = Dot PROVE Decimals(s) = Len(s) - p
  <2>1. (CHOOSE i \in DOMAIN s : s[i] = Dot) = p
    BY <1>2 DEF WellFormed
  <2> QED BY <1>2, <2>1 DEF Decimals
<1>3. Decimals(s) \in Nat
  <2>1. CASE HasPoint(s)
    <3>1. PICK p \in DOMAIN s : s[p] = Dot
      BY <2>1 DEF HasPoint
    <3>2. Decimals(s) = Len(s) - p /\ p \in 1..Len(s) /\ Len(s) \in Nat
      BY <1>2, <3>1
    <3> QED BY <3>2
  <2> QED BY <1>1, <2>1
<1> QED BY <1>1, <1>2, <1>3

(* One more character.                                                     *)
LEMMA DecimalsAppend ==
  ASSUME NEW s \in Seq(Nat), NEW c \in Nat, WellFormed(s)
  PROVE  /\ WellFormed(Append(s, c)) <=> IsDigit(c) \/ (c = Dot /\ ~HasPoint(s))
         /\ HasPoint(Append(s, c)) <=> HasPoint(s) \/ c = Dot
         /\ IsDigit(c) => Decimals(Append(s, c)) = IF HasPoint(s) THEN Decimals(s) + 1 ELSE 0
         /\ c = Dot /\ ~HasPoint(s) => Decimals(Append(s, c)) = 0
<1> DEFINE t == Append(s, c)
<1>1. /\ t \in Seq(Nat) /\ Len(t) = Len(s) + 1 /\ t[Len(s) + 1] = c /\ Len(s) \in Nat
      /\ \A i \in 1..Len(s) : t[i] = s[i]
      /\ DOMAIN s = 1..Len(s) /\ DOMAIN t = 1..(Len(s) + 1)
  OBVIOUS
<1> HIDE DEF t
<1>2. ~IsDigit(Dot)
  BY DEF IsDigit, Dot, Zero
<1>3. \A i \in DOMAIN t : i \in DOMAIN s \/ i = Len(s) + 1
  BY <1>1
<1>4. \A i \in DOMAIN s : i \in DOMAIN t /\ t[i] = s[i] /\ i # Len(s) + 1
  BY <1>1
<1>5. Len(s) + 1 \in DOMAIN t
  BY <1>1
<1>6. HasPoint(t) <=> HasPoint(s) \/ c = Dot
  BY <1>1, <1>3, <1>4, <1>5 DEF HasPoint
<1>7. ASSUME IsDigit(c) \/ (c = Dot /\ ~HasPoint(s)) PROVE WellFormed(t)
  <2>1. \A i \in DOMAIN t : IsDigit(t[i]) \/ t[i] = Dot
    BY <1>1, <1>3, <1>4, <1>7 DEF WellFormed
  <2>2. ASSUME NEW i \in DOMAIN t, NEW j \in DOMAIN t, t[i] = Dot, t[j] = Dot PROVE i = j
    BY <1>1, <1>2, <1>3, <1>4, <1>7, <2>2 DEF WellFormed, HasPoint
  <2> QED BY <2>1, <2>2 DEF WellFormed
<1>8. ASSUME WellFormed(t) PROVE IsDigit(c) \/ (c = Dot /\ ~HasPoint(s))
  BY <1>1, <1>4, <1>5, <1>8 DEF WellFormed, HasPoint
<1>9. ASSUME IsDigit(c) PROVE Decimals(t) = IF HasPoint(s) THEN Decimals(s) + 1 ELSE 0
  <2>1. WellFormed(t)
    BY <1>7, <1>9
  <2>2. CASE HasPoint(s)
    <3>1. PICK p \in DOMAIN s : s[p] = Dot
      BY <2>2 DEF HasPoint
    <3>2. p \in DOMAIN t /\ t[p] = Dot
      BY <1>4, <3>1
    <3>3. Decimals(t) = Len(t) - p /\ Decimals(s) = Len(s) - p
      BY <1>1, <2>1, <3>1, <3>2, DecimalsAre
    <3> QED BY <1>1, <2>2, <3>3
  <2>3. CASE ~HasPoint(s)
    <3>1. ~HasPoint(t)
      BY <1>2, <1>6, <1>9, <2>3
    <3> QED BY <1>1, <2>1, <2>3, <3>1, DecimalsAre
  <2> QED BY <2>2, <2>3
<1>10. ASSUME c = Dot, ~HasPoint(s) PROVE Decimals(t) = 0
  <2>1. WellFormed(t)
    BY <1>7, <1>10
  <2>2. Decimals(t) = Len(t) - (Len(s) + 1)
    BY <1>1, <1>5, <1>10, <2>1, DecimalsAre
  <2> QED BY <1>1, <2>2
<1> QED BY <1>6, <1>7, <1>8, <1>9, <1>10 DEF t

-----------------------------------------------------------------------------
(* What the parser has read, and why it gives up.                          *)

(* A text with a digit.                                                    *)
HasDigit(s) == \E i \in DOMAIN s : IsDigit(s[i])

(* No value in range times a power of ten is the number, whatever follows. *)
TooBig(s) == Numeral(s) > (IntMax + 1) * Pow10[Decimals(s)]

(* A digit past the scale is not zero, whatever follows.                   *)
TooFine(s) ==
  /\ Decimals(s) > ScalePow
  /\ \A q \in Nat : Numeral(s) # q * Pow10[Decimals(s) - ScalePow]

(* The reasons to give up.                                                 *)
Bad(s) == ~WellFormed(s) \/ TooBig(s) \/ TooFine(s)

(* The scaled integer represents the number that s and its sign denote.    *)
Fits(s, sign) ==
  IsDecimal(s) /\ \E v \in -(IntMax + 1)..IntMax :
                    v * Pow10[Decimals(s)] = sign * (Numeral(s) * Pow10[ScalePow])

(* Of the digits after the point fracdigits are in frac, the ones past the *)
(* scale were zeros.                                                       *)
Reading(s) ==
  /\ WellFormed(s)
  /\ any <=> HasDigit(s)
  /\ fracdigits <= Decimals(s)
  /\ fracdigits < Decimals(s) => fracdigits = ScalePow
  /\ Numeral(s) = (intpart * Pow10[fracdigits] + frac) * Pow10[Decimals(s) - fracdigits]

(* The locals of parse_scaled, by the loop it is in.                       *)
Locals ==
  /\ text \in Seq(Nat)
  /\ neg <=> text # <<>> /\ text[1] = Minus
  /\ intpart \in Nat /\ frac \in Nat /\ fracdigits \in 0..ScalePow
  /\ part \in {"sign", "int", "frac", "rejected"}
  /\ part = "sign" <=> text = <<>>
  /\ part \in {"sign", "int"} => frac = 0 /\ fracdigits = 0 /\ ~HasPoint(Unsigned(text))
  /\ part = "frac" => HasPoint(Unsigned(text))
  /\ part # "rejected" => Reading(Unsigned(text))
  /\ part = "rejected" => Bad(Unsigned(text))

(* The inductive invariant.                                                *)
IInv == Locals /\ ScaledExact

-----------------------------------------------------------------------------

(* The sign is the first character.                                        *)
LEMMA UnsignedAppend ==
  ASSUME NEW t \in Seq(Nat), NEW c \in Nat
  PROVE  /\ Unsigned(t) \in Seq(Nat)
         /\ Unsigned(Append(t, c)) = IF t = <<>> /\ c = Minus THEN <<>> ELSE Append(Unsigned(t), c)
<1>1. CASE t = <<>>
  <2>1. Append(t, c) = <<c>> /\ <<c>> # <<>> /\ <<c>>[1] = c /\ Tail(<<c>>) = <<>>
    BY <1>1
  <2> QED BY <1>1, <2>1 DEF Unsigned
<1>2. CASE t # <<>>
  <2>1. Append(t, c) # <<>> /\ Append(t, c)[1] = t[1]
    BY <1>2
  <2>2. Tail(Append(t, c)) = Append(Tail(t), c) /\ Tail(t) \in Seq(Nat)
    BY <1>2
  <2> QED BY <1>2, <2>1, <2>2 DEF Unsigned
<1> QED BY <1>1, <1>2

(* One more character.                                                     *)
LEMMA DigitAppend ==
  ASSUME NEW s \in Seq(Nat), NEW c \in Nat
  PROVE  /\ HasDigit(Append(s, c)) <=> HasDigit(s) \/ IsDigit(c)
         /\ WellFormed(Append(s, c)) => WellFormed(s)
<1> DEFINE t == Append(s, c)
<1>1. /\ \A i \in DOMAIN s : i \in DOMAIN t /\ t[i] = s[i]
      /\ \A i \in DOMAIN t : i \in DOMAIN s \/ t[i] = c
      /\ Len(s) + 1 \in DOMAIN t /\ t[Len(s) + 1] = c
  OBVIOUS
<1> HIDE DEF t
<1>2. HasDigit(t) <=> HasDigit(s) \/ IsDigit(c)
  BY <1>1 DEF HasDigit
<1>3. WellFormed(t) => WellFormed(s)
  BY <1>1 DEF WellFormed
<1> QED BY <1>2, <1>3 DEF t

(* The value of a digit.                                                   *)
LEMMA DigitIs ==
  ASSUME NEW c \in Nat, IsDigit(c)
  PROVE  c - Zero \in 0..9 /\ (c - Zero = 0 <=> c = Zero) /\ c # Dot /\ c # Minus
BY DEF IsDigit, Zero, Dot, Minus

(* What made the parser give up stays a reason.                            *)
LEMMA BadStays ==
  ASSUME NEW s \in Seq(Nat), NEW c \in Nat, Bad(s)
  PROVE  Bad(Append(s, c))
<1> DEFINE t == Append(s, c)
<1> SUFFICES Bad(t)
  OBVIOUS
<1>1. CASE ~WellFormed(s) \/ ~WellFormed(t)
  BY <1>1, DigitAppend DEF Bad
<1>2. CASE WellFormed(s) /\ WellFormed(t)
  <2>1. IsDigit(c) \/ (c = Dot /\ ~HasPoint(s))
    BY <1>2, DecimalsAppend
  <2>2. /\ Decimals(s) \in Nat /\ Numeral(s) \in Nat
        /\ Numeral(t) = IF IsDigit(c) THEN Numeral(s) * 10 + (c - Zero) ELSE Numeral(s)
    BY <1>2, DecimalsAre, NumeralAppend
  <2>3. /\ IsDigit(c) => Decimals(t) = IF HasPoint(s) THEN Decimals(s) + 1 ELSE 0
        /\ ~IsDigit(c) => Decimals(t) = 0
        /\ ~HasPoint(s) => Decimals(s) = 0
    BY <1>2, <2>1, DecimalsAppend, DecimalsAre
  <2> HIDE DEF t
  <2>4. /\ Pow10[Decimals(s)] \in Nat \ {0} /\ Pow10[Decimals(s) + 1] = 10 * Pow10[Decimals(s)]
        /\ IntMax \in Nat /\ ScalePow \in Nat
    <3>1. Decimals(s) \in Nat /\ IntMax \in Nat /\ ScalePow \in Nat
      BY <2>2, ScaledAssumption
    <3> QED BY <3>1, PowerPositive, Zenon
  <2>5. CASE TooBig(s)
    <3> DEFINE n == Numeral(s)
               b == (IntMax + 1) * Pow10[Decimals(s)]
    <3>1. n \in Nat /\ b \in Nat /\ n > b
      BY <2>2, <2>4, <2>5 DEF TooBig
    <3>2. CASE IsDigit(c) /\ HasPoint(s)
      <4>1. (IntMax + 1) * Pow10[Decimals(t)] = 10 * b
        <5>1. ASSUME NEW x \in Nat, NEW y \in Nat PROVE x * (10 * y) = 10 * (x * y)
          OBVIOUS
        <5> QED BY <2>3, <2>4, <3>2, <5>1
      <4>2. Numeral(t) = n * 10 + (c - Zero) /\ c - Zero \in 0..9
        BY <2>2, <3>2, DigitIs
      <4> HIDE DEF n, b
      <4>3. Numeral(t) > 10 * b
        BY <3>1, <4>2
      <4> QED BY <4>1, <4>3 DEF Bad, TooBig
    <3>3. CASE ~(IsDigit(c) /\ HasPoint(s))
      <4>1. (IntMax + 1) * Pow10[Decimals(t)] = b
        BY <2>1, <2>3, <3>3
      <4>2. Numeral(t) = n \/ (Numeral(t) = n * 10 + (c - Zero) /\ c - Zero \in 0..9)
        BY <2>2, DigitIs
      <4> HIDE DEF n, b
      <4>3. Numeral(t) > b
        BY <3>1, <4>2
      <4> QED BY <4>1, <4>3 DEF Bad, TooBig
    <3> QED BY <3>2, <3>3
  <2>6. CASE TooFine(s)
    <3>1. HasPoint(s) /\ Decimals(s) > ScalePow
      BY <2>3, <2>4, <2>6 DEF TooFine
    <3>2. /\ IsDigit(c) /\ Decimals(t) = Decimals(s) + 1 /\ Decimals(s) - ScalePow \in Nat
          /\ Decimals(t) - ScalePow = (Decimals(s) - ScalePow) + 1 /\ Decimals(t) > ScalePow
      BY <2>1, <2>2, <2>3, <2>4, <3>1
    <3> DEFINE k == Pow10[Decimals(s) - ScalePow]
               n == Numeral(s)
    <3>3. k \in Nat /\ Pow10[Decimals(t) - ScalePow] = 10 * k /\ n \in Nat
          /\ Numeral(t) = n * 10 + (c - Zero) /\ c - Zero \in 0..9 /\ \A q \in Nat : n # q * k
      BY <2>2, <2>6, <3>2, PowerPositive, DigitIs DEF TooFine
    <3> HIDE DEF k, n
    <3>4. ASSUME NEW q \in Nat, n * 10 + (c - Zero) = q * (10 * k) PROVE FALSE
      <4>1. q * (10 * k) = 10 * (q * k) /\ q * k \in Nat
        BY <3>3
      <4>2. n = q * k
        BY <3>3, <3>4, <4>1
      <4> QED BY <3>3, <4>2
    <3> QED BY <3>2, <3>3, <3>4 DEF Bad, TooFine
  <2> QED BY <1>2, <2>5, <2>6 DEF Bad
<1> QED BY <1>1, <1>2

(* It is one.                                                              *)
LEMMA BadDoesNotFit ==
  ASSUME NEW s \in Seq(Nat), NEW sign \in {-1, 1}, Bad(s)
  PROVE  ~Fits(s, sign)
<1> SUFFICES ASSUME Fits(s, sign) PROVE FALSE
  OBVIOUS
<1>1. WellFormed(s)
  BY DEF Fits, IsDecimal, WellFormed
<1> DEFINE n == Numeral(s)
           d == Decimals(s)
           p == Pow10[d]
           m == Pow10[ScalePow]
<1>2. d \in Nat /\ n \in Nat /\ IntMax \in Nat /\ ScalePow \in Nat
  BY <1>1, DecimalsAre, NumeralAppend, ScaledAssumption
<1>3. p \in Nat \ {0} /\ m \in Nat \ {0}
  BY <1>2, PowerPositive
<1>4. PICK v \in -(IntMax + 1)..IntMax : v * p = sign * (n * m)
  BY DEF Fits
<1>5. PICK w \in Nat : w * p = n * m /\ w <= IntMax + 1
  <2> HIDE DEF n, d, p, m
  <2>0. v \in Int /\ n * m \in Nat /\ p \in Int
    BY <1>2, <1>3
  <2>1. CASE sign = 1
    <3>1. v * p = n * m
      BY <1>4, <2>0, <2>1
    <3>2. v >= 0
      <4>1. v < 0 => v * p < 0
        BY <1>3, <2>0
      <4> QED BY <2>0, <3>1, <4>1
    <3> QED BY <1>2, <1>4, <3>1, <3>2
  <2>2. CASE sign = -1
    <3>1. (-v) * p = n * m
      <4>1. (-v) * p = -(v * p)
        BY <2>0
      <4> QED BY <1>4, <2>0, <2>2, <4>1
    <3>2. -v >= 0
      <4>1. -v < 0 => (-v) * p < 0
        BY <1>3, <2>0
      <4> QED BY <2>0, <3>1, <4>1
    <3>3. -v \in Nat /\ -v <= IntMax + 1
      BY <1>2, <1>4, <3>2
    <3> QED BY <3>1, <3>3
  <2> QED BY <2>1, <2>2
<1>6. CASE TooBig(s)
  <2>1. n > (IntMax + 1) * p
    BY <1>6 DEF TooBig
  <2> HIDE DEF n, d, p, m
  <2>2. w * p <= (IntMax + 1) * p
    BY <1>2, <1>3, <1>5
  <2>3. n <= n * m
    BY <1>2, <1>3
  <2>4. w * p \in Nat /\ (IntMax + 1) * p \in Nat /\ n * m \in Nat
    BY <1>2, <1>3, <1>5
  <2> QED BY <1>2, <1>5, <2>1, <2>2, <2>3, <2>4
<1>7. CASE TooFine(s)
  <2>1. d > ScalePow /\ \A q \in Nat : n # q * Pow10[d - ScalePow]
    BY <1>7 DEF TooFine
  <2>2. d - ScalePow \in Nat /\ (d - ScalePow) + ScalePow = d
    BY <1>2, <2>1
  <2>3. p = Pow10[d - ScalePow] * m /\ Pow10[d - ScalePow] \in Nat
    <3>1. Pow10[(d - ScalePow) + ScalePow] = Pow10[d - ScalePow] * m
      BY <1>2, <2>2, PowerSum, Zenon
    <3>2. Pow10[d - ScalePow] \in Nat
      BY <2>2, PowerPositive
    <3> QED BY <2>2, <3>1, <3>2
  <2> HIDE DEF n, d, p, m
  <2>4. PICK k \in Nat : k = Pow10[d - ScalePow]
    BY <2>3
  <2>5. w * (k * m) = n * m
    BY <1>5, <2>3, <2>4
  <2>6. (w * k) * m = n * m /\ w * k \in Nat
    BY <1>3, <2>5
  <2>7. w * k = n
    <3>1. ASSUME NEW a \in Nat, NEW b \in Nat, a * m = b * m PROVE a = b
      <4>1. (a - b) * m = 0
        BY <1>3, <3>1
      <4> QED BY <1>3, <4>1
    <3> QED BY <1>2, <2>6, <3>1
  <2> QED BY <2>1, <2>4, <2>7
<1> QED BY <1>1, <1>6, <1>7 DEF Bad

-----------------------------------------------------------------------------

(* A character that is not the sign.                                       *)
LEMMA CharIs ==
  ASSUME text \in Seq(Nat), NEW c \in Nat, text' = Append(text, c), ~(text = <<>> /\ c = Minus)
  PROVE  /\ text' \in Seq(Nat) /\ text' # <<>>
         /\ Unsigned(text) \in Seq(Nat) /\ Unsigned(text') = Append(Unsigned(text), c)
         /\ text'[1] = Minus <=> text # <<>> /\ text[1] = Minus
<1>1. text' \in Seq(Nat) /\ text' # <<>>
  OBVIOUS
<1>2. Unsigned(text) \in Seq(Nat) /\ Unsigned(text') = Append(Unsigned(text), c)
  BY UnsignedAppend
<1>3. CASE text = <<>>
  <2>1. text'[1] = c
    BY <1>3
  <2> QED BY <1>1, <1>2, <1>3, <2>1
<1>4. CASE text # <<>>
  <2>1. text'[1] = text[1]
    BY <1>4
  <2> QED BY <1>1, <1>2, <1>4, <2>1
<1> QED BY <1>3, <1>4

(* The sign.                                                               *)
LEMMA SignStep ==
  ASSUME Locals, NEW c \in Nat, text' = Append(text, c), Sign(c)
  PROVE  Locals'
<1>1. text = <<>> /\ c = Minus /\ neg' = TRUE /\ part' = "int" /\ UNCHANGED <<intpart, any, frac, fracdigits>>
  BY DEF Sign, Locals
<1>2. Unsigned(text) = <<>> /\ Unsigned(text') = <<>>
  BY <1>1, UnsignedAppend DEF Unsigned
<1>3. text' \in Seq(Nat) /\ text' # <<>> /\ text'[1] = Minus
  BY <1>1
<1>4. Reading(Unsigned(text))'
  BY <1>1, <1>2 DEF Locals, Reading
<1> QED BY <1>1, <1>2, <1>3, <1>4 DEF Locals

(* A digit before the point.                                               *)
LEMMA IntDigitStep ==
  ASSUME Locals, NEW c \in Nat, text' = Append(text, c), IntDigit(c)
  PROVE  Locals'
<1>1. /\ part \in {"sign", "int"} /\ IsDigit(c) /\ intpart' = intpart * 10 + (c - Zero)
      /\ part' = (IF intpart' > IntMax + 1 THEN "rejected" ELSE "int") /\ any' = TRUE
      /\ UNCHANGED <<neg, frac, fracdigits>>
  BY DEF IntDigit
<1>2. c - Zero \in 0..9 /\ c # Minus /\ c # Dot
  BY <1>1, DigitIs
<1>3. PICK s : s = Unsigned(text)
  OBVIOUS
<1>4. PICK t : t = Append(s, c)
  OBVIOUS
<1>5. /\ text' \in Seq(Nat) /\ text' # <<>> /\ s \in Seq(Nat) /\ Unsigned(text') = t
      /\ text'[1] = Minus <=> text # <<>> /\ text[1] = Minus
  BY <1>2, <1>3, <1>4, CharIs DEF Locals
<1>6. /\ frac = 0 /\ fracdigits = 0 /\ ~HasPoint(s) /\ intpart \in Nat
      /\ WellFormed(s) /\ Numeral(s) = (intpart * Pow10[0] + 0) * Pow10[Decimals(s) - 0]
  BY <1>1, <1>3 DEF Locals, Reading
<1>7. Decimals(s) = 0 /\ Pow10[0] = 1 /\ Numeral(s) = intpart
  <2>1. Decimals(s) = 0 /\ Pow10[0] = 1
    BY <1>5, <1>6, DecimalsAre, PowerIs
  <2> QED BY <1>6, <2>1
<1>8. /\ WellFormed(t) /\ ~HasPoint(t) /\ Decimals(t) = 0 /\ HasDigit(t)
      /\ Numeral(t) = intpart' /\ intpart' \in Nat
  <2>1. WellFormed(t) /\ ~HasPoint(t) /\ Decimals(t) = 0
    BY <1>1, <1>2, <1>4, <1>5, <1>6, DecimalsAppend
  <2>2. HasDigit(t)
    BY <1>1, <1>4, <1>5, DigitAppend
  <2>3. Numeral(t) = Numeral(s) * 10 + (c - Zero)
    BY <1>1, <1>4, <1>5, NumeralAppend
  <2> QED BY <1>1, <1>2, <1>6, <1>7, <2>1, <2>2, <2>3
<1>9. Reading(t)'
  <2>a. \A a \in Nat : (a * 1 + 0) * 1 = a
    OBVIOUS
  <2>b. intpart' \in Nat /\ 0 - 0 = 0
    BY <1>8
  <2>1. (intpart' * 1 + 0) * 1 = intpart' /\ 0 - 0 = 0
    BY <2>a, <2>b, Zenon
  <2> QED BY <1>1, <1>6, <1>7, <1>8, <2>1 DEF Reading
<1>10. part' = "rejected" => Bad(t)
  <2>1. IntMax + 1 \in Nat /\ (IntMax + 1) * 1 = IntMax + 1
    BY ScaledAssumption
  <2> QED BY <1>1, <1>7, <1>8, <2>1 DEF Bad, TooBig
<1>11. neg' <=> text' # <<>> /\ text'[1] = Minus
  BY <1>1, <1>5 DEF Locals
<1> QED BY <1>1, <1>5, <1>6, <1>8, <1>9, <1>10, <1>11 DEF Locals

(* The point.                                                              *)
LEMMA PointStep ==
  ASSUME Locals, NEW c \in Nat, text' = Append(text, c), Point(c)
  PROVE  Locals'
<1>1. /\ part \in {"sign", "int"} /\ c = Dot /\ part' = "frac" /\ ~IsDigit(c) /\ c # Minus
      /\ UNCHANGED <<neg, intpart, any, frac, fracdigits>>
  BY DEF Point, IsDigit, Zero, Dot, Minus
<1>2. PICK s : s = Unsigned(text)
  OBVIOUS
<1>3. PICK t : t = Append(s, c)
  OBVIOUS
<1>4. /\ text' \in Seq(Nat) /\ text' # <<>> /\ s \in Seq(Nat) /\ Unsigned(text') = t
      /\ text'[1] = Minus <=> text # <<>> /\ text[1] = Minus
  BY <1>1, <1>2, <1>3, CharIs DEF Locals
<1>5. ~HasPoint(s) /\ Reading(s) /\ WellFormed(s) /\ Decimals(s) = 0
  BY <1>1, <1>2, <1>4, DecimalsAre DEF Locals, Reading
<1>6. WellFormed(t) /\ HasPoint(t) /\ Decimals(t) = 0
  BY <1>1, <1>3, <1>4, <1>5, DecimalsAppend
<1>7. Numeral(t) = Numeral(s) /\ (HasDigit(t) <=> HasDigit(s))
  BY <1>1, <1>3, <1>4, NumeralAppend, DigitAppend
<1>8. Reading(t)'
  BY <1>1, <1>5, <1>6, <1>7 DEF Reading
<1>9. neg' <=> text' # <<>> /\ text'[1] = Minus
  BY <1>1, <1>4 DEF Locals
<1> QED BY <1>1, <1>4, <1>6, <1>8, <1>9 DEF Locals

(* A digit after the point.                                                *)
LEMMA FracDigitStep ==
  ASSUME Locals, NEW c \in Nat, text' = Append(text, c), FracDigit(c)
  PROVE  Locals'
<1>1. /\ part = "frac" /\ IsDigit(c) /\ any' = TRUE /\ UNCHANGED <<neg, intpart>>
      /\ frac' = (IF fracdigits < ScalePow THEN frac * 10 + (c - Zero) ELSE frac)
      /\ fracdigits' = (IF fracdigits < ScalePow THEN fracdigits + 1 ELSE fracdigits)
      /\ part' = (IF fracdigits = ScalePow /\ c # Zero THEN "rejected" ELSE "frac")
  BY DEF FracDigit
<1>2. c - Zero \in 0..9 /\ c # Minus /\ c # Dot /\ (c - Zero = 0 <=> c = Zero)
  BY <1>1, DigitIs
<1>3. PICK s : s = Unsigned(text)
  OBVIOUS
<1>4. PICK t : t = Append(s, c)
  OBVIOUS
<1>5. /\ text' \in Seq(Nat) /\ text' # <<>> /\ s \in Seq(Nat) /\ Unsigned(text') = t
      /\ text'[1] = Minus <=> text # <<>> /\ text[1] = Minus
  BY <1>2, <1>3, <1>4, CharIs DEF Locals
<1>6. PICK n : n = Numeral(s)
  OBVIOUS
<1>7. PICK d : d = Decimals(s)
  OBVIOUS
<1>8. /\ HasPoint(s) /\ WellFormed(s) /\ intpart \in Nat /\ frac \in Nat /\ ScalePow \in Nat
      /\ fracdigits \in Nat /\ fracdigits <= ScalePow
      /\ fracdigits <= d /\ (fracdigits < d => fracdigits = ScalePow)
      /\ n = (intpart * Pow10[fracdigits] + frac) * Pow10[d - fracdigits]
  BY <1>1, <1>3, <1>6, <1>7, ScaledAssumption DEF Locals, Reading
<1>9. d \in Nat /\ n \in Nat
  BY <1>5, <1>6, <1>7, <1>8, DecimalsAre, NumeralAppend
<1>10. /\ WellFormed(t) /\ HasPoint(t) /\ Decimals(t) = d + 1 /\ HasDigit(t)
       /\ Numeral(t) = n * 10 + (c - Zero)
  <2>1. WellFormed(t) /\ HasPoint(t) /\ Decimals(t) = d + 1
    BY <1>1, <1>4, <1>5, <1>7, <1>8, DecimalsAppend
  <2>2. HasDigit(t)
    BY <1>1, <1>4, <1>5, DigitAppend
  <2> QED BY <1>1, <1>4, <1>5, <1>6, <2>1, <2>2, NumeralAppend
<1>11. CASE fracdigits < ScalePow
  <2>1. fracdigits = d /\ fracdigits' = d + 1 /\ frac' = frac * 10 + (c - Zero) /\ part' = "frac"
    BY <1>1, <1>8, <1>9, <1>11
  <2>2. Pow10[0] = 1 /\ Pow10[d] \in Nat /\ Pow10[d + 1] = 10 * Pow10[d]
    BY <1>9, PowerPositive, PowerIs
  <2>3. PICK p \in Nat : p = Pow10[d]
    BY <2>2
  <2>4. n = intpart * p + frac
    <3>1. d - d = 0 /\ (intpart * p + frac) * 1 = intpart * p + frac
      BY <1>8, <1>9
    <3> QED BY <1>8, <2>1, <2>2, <2>3, <3>1
  <2>5. n * 10 + (c - Zero) = intpart * (10 * p) + (frac * 10 + (c - Zero))
    <3>1. intpart * (10 * p) = 10 * (intpart * p) /\ intpart * p \in Nat
      BY <1>8
    <3>2. PICK r \in Nat : r = intpart * p
      BY <3>1
    <3>3. PICK e \in Nat : e = c - Zero
      BY <1>2
    <3>4. (r + frac) * 10 + e = 10 * r + (frac * 10 + e)
      BY <1>8
    <3> QED BY <2>4, <3>1, <3>2, <3>3, <3>4
  <2>6. Numeral(t) = (intpart' * Pow10[fracdigits'] + frac') * Pow10[Decimals(t) - fracdigits']
    <3>1. (d + 1) - (d + 1) = 0 /\ n * 10 + (c - Zero) \in Nat
      BY <1>2, <1>9
    <3>2. (n * 10 + (c - Zero)) * 1 = n * 10 + (c - Zero)
      BY <3>1
    <3> QED BY <1>1, <1>10, <2>1, <2>2, <2>3, <2>5, <3>1, <3>2
  <2>7. Reading(t)'
    <3>1. fracdigits' <= Decimals(t) /\ ~(fracdigits' < Decimals(t))
      BY <1>9, <1>10, <2>1
    <3> QED BY <1>1, <1>10, <2>6, <3>1 DEF Reading
  <2>8. frac' \in Nat /\ fracdigits' \in 0..ScalePow
    BY <1>2, <1>8, <1>9, <1>11, <2>1
  <2>9. neg' <=> text' # <<>> /\ text'[1] = Minus
    BY <1>1, <1>5 DEF Locals
  <2> QED BY <1>1, <1>5, <1>8, <1>10, <2>1, <2>7, <2>8, <2>9 DEF Locals
<1>12. CASE ~(fracdigits < ScalePow)
  <2>1. /\ fracdigits = ScalePow /\ UNCHANGED <<frac, fracdigits>>
        /\ part' = (IF c # Zero THEN "rejected" ELSE "frac")
    BY <1>1, <1>8, <1>12
  <2>2. d - ScalePow \in Nat /\ (d + 1) - ScalePow = (d - ScalePow) + 1
    BY <1>8, <1>9, <2>1
  <2>3. PICK k \in Nat : k = Pow10[d - ScalePow] /\ Pow10[(d + 1) - ScalePow] = 10 * k
    BY <2>2, PowerPositive
  <2>4. neg' <=> text' # <<>> /\ text'[1] = Minus
    BY <1>1, <1>5 DEF Locals
  <2>5. CASE c = Zero
    <3>1. PICK a \in Nat : a = intpart * Pow10[ScalePow] + frac
      <4>1. Pow10[ScalePow] \in Nat
        BY <1>8, PowerPositive
      <4> QED BY <1>8, <4>1
    <3>2. Numeral(t) = n * 10 /\ n = a * k
      BY <1>2, <1>8, <1>9, <1>10, <2>1, <2>3, <2>5, <3>1
    <3>3. Numeral(t) = a * (10 * k)
      BY <3>2
    <3>4. Numeral(t) = (intpart' * Pow10[fracdigits'] + frac') * Pow10[Decimals(t) - fracdigits']
      BY <1>1, <1>10, <2>1, <2>3, <3>1, <3>3
    <3>5. fracdigits' <= Decimals(t) /\ fracdigits' = ScalePow
      BY <1>8, <1>9, <1>10, <2>1
    <3>6. Reading(t)'
      BY <1>1, <1>10, <3>4, <3>5 DEF Reading
    <3>7. part' = "frac"
      BY <2>1, <2>5
    <3>8. frac' \in Nat /\ fracdigits' \in 0..ScalePow /\ intpart' \in Nat
      BY <1>1, <1>8, <2>1
    <3> QED BY <1>5, <1>10, <2>4, <3>6, <3>7, <3>8 DEF Locals
  <2>6. CASE c # Zero
    <3>1. ASSUME NEW q \in Nat, Numeral(t) = q * Pow10[Decimals(t) - ScalePow] PROVE FALSE
      <4>1. n * 10 + (c - Zero) = q * (10 * k)
        BY <1>10, <2>3, <3>1
      <4>2. q * (10 * k) = 10 * (q * k) /\ q * k \in Nat
        OBVIOUS
      <4> QED BY <1>2, <1>9, <2>6, <4>1, <4>2
    <3>2. Decimals(t) > ScalePow
      BY <1>8, <1>9, <1>10, <2>1
    <3>3. Bad(t)
      BY <3>1, <3>2 DEF Bad, TooFine
    <3>4. part' = "rejected"
      BY <2>1, <2>6
    <3>5. frac' \in Nat /\ fracdigits' \in 0..ScalePow /\ intpart' \in Nat
      BY <1>1, <1>8, <2>1
    <3> QED BY <1>5, <2>4, <3>3, <3>4, <3>5 DEF Locals
  <2> QED BY <2>5, <2>6
<1> QED BY <1>11, <1>12

(* Any other character, or one that follows it.                            *)
LEMMA RejectStep ==
  ASSUME Locals, NEW c \in Nat, text' = Append(text, c), Reject(c)
  PROVE  Locals'
<1>1. part' = "rejected" /\ UNCHANGED <<neg, intpart, any, frac, fracdigits>>
  BY DEF Reject
<1>2. ~(text = <<>> /\ c = Minus)
  BY DEF Reject, Locals
<1>3. PICK s : s = Unsigned(text)
  OBVIOUS
<1>4. /\ text' \in Seq(Nat) /\ text' # <<>> /\ s \in Seq(Nat) /\ Unsigned(text') = Append(s, c)
      /\ text'[1] = Minus <=> text # <<>> /\ text[1] = Minus
  BY <1>2, <1>3, CharIs DEF Locals
<1>5. Bad(Append(s, c))
  <2>1. CASE part = "rejected"
    BY <1>3, <1>4, <2>1, BadStays DEF Locals
  <2>2. CASE part # "rejected"
    <3>1. WellFormed(s) /\ ~IsDigit(c) /\ (c = Dot => HasPoint(s))
      BY <1>3, <2>2 DEF Reject, Locals, Reading
    <3>2. ~WellFormed(Append(s, c))
      BY <1>4, <3>1, DecimalsAppend
    <3> QED BY <3>2 DEF Bad
  <2> QED BY <2>1, <2>2
<1>6. neg' <=> text' # <<>> /\ text'[1] = Minus
  BY <1>1, <1>4 DEF Locals
<1> QED BY <1>1, <1>4, <1>5, <1>6 DEF Locals

-----------------------------------------------------------------------------

(* Dividing one power by another.                                          *)
LEMMA PowerRatio ==
  ASSUME NEW m \in Nat, NEW n \in Nat, n <= m
  PROVE  /\ m - n \in Nat /\ Pow10[m] = Pow10[m - n] * Pow10[n]
         /\ Pow10[m] \div Pow10[n] = Pow10[m - n]
<1>1. m - n \in Nat /\ (m - n) + n = m
  OBVIOUS
<1>2. Pow10[(m - n) + n] = Pow10[m - n] * Pow10[n]
  BY <1>1, PowerSum, Zenon
<1>3. PICK a \in Nat : a = Pow10[m - n]
  BY <1>1, PowerPositive
<1>4. PICK b \in Nat \ {0} : b = Pow10[n]
  BY PowerPositive
<1>5. (a * b) \div b = a
  OBVIOUS
<1> QED BY <1>1, <1>2, <1>3, <1>4, <1>5

(* What is compared with the limit is the number times 10^ScalePow.        *)
LEMMA MagnitudeIs ==
  ASSUME Locals, part # "rejected"
  PROVE  /\ Magnitude \in Nat
         /\ Magnitude * Pow10[Decimals(Unsigned(text))] = Numeral(Unsigned(text)) * Pow10[ScalePow]
<1>1. PICK s : s = Unsigned(text)
  OBVIOUS
<1>2. PICK d : d = Decimals(s)
  OBVIOUS
<1>3. /\ intpart \in Nat /\ frac \in Nat /\ ScalePow \in Nat /\ s \in Seq(Nat)
      /\ fracdigits \in Nat /\ fracdigits <= ScalePow /\ WellFormed(s) /\ fracdigits <= d
      /\ Numeral(s) = (intpart * Pow10[fracdigits] + frac) * Pow10[d - fracdigits]
  <2>1. s \in Seq(Nat)
    <3>1. CASE text # <<>> /\ text[1] = Minus
      BY <1>1, <3>1 DEF Locals, Unsigned
    <3>2. CASE ~(text # <<>> /\ text[1] = Minus)
      BY <1>1, <3>2 DEF Locals, Unsigned
    <3> QED BY <3>1, <3>2
  <2> QED BY <1>1, <1>2, <2>1, ScaledAssumption DEF Locals, Reading
<1>4. d \in Nat
  BY <1>2, <1>3, DecimalsAre
<1>5. PICK f \in Nat : f = Pow10[fracdigits]
  BY <1>3, PowerPositive
<1>6. PICK x \in Nat : x = Pow10[ScalePow - fracdigits]
  BY <1>3, PowerRatio, PowerPositive
<1>7. PICK y \in Nat : y = Pow10[d - fracdigits]
  BY <1>3, <1>4, PowerRatio, PowerPositive
<1>8. Pow10[ScalePow] = x * f /\ Pow10[ScalePow] \div f = x
  BY <1>3, <1>5, <1>6, PowerRatio
<1>9. Pow10[d] = y * f
  BY <1>3, <1>4, <1>5, <1>7, PowerRatio
<1>10. Magnitude = intpart * (x * f) + frac * x
  BY <1>5, <1>8 DEF Magnitude
<1>11. Numeral(s) = (intpart * f + frac) * y
  BY <1>3, <1>5, <1>7
<1>12. PICK i \in Nat, e \in Nat : i = intpart /\ e = frac
  BY <1>3
<1>13. i * (x * f) + e * x = (i * f + e) * x /\ i * f + e \in Nat
  OBVIOUS
<1>14. PICK a \in Nat : a = i * f + e
  BY <1>13
<1>15. (a * x) * (y * f) = (a * y) * (x * f) /\ a * x \in Nat
  OBVIOUS
<1> QED BY <1>1, <1>2, <1>8, <1>9, <1>10, <1>11, <1>12, <1>13, <1>14, <1>15

(* The verdict at the end of the text.                                     *)
LEMMA FinishStep ==
  ASSUME Locals, Finish
  PROVE  Locals' /\ ScaledExact'
<1>1. /\ UNCHANGED <<text, part, neg, intpart, any, frac, fracdigits>>
      /\ result' = IF /\ part # "rejected" /\ any
                      /\ Magnitude <= IF neg THEN IntMax + 1 ELSE IntMax
                   THEN <<"true", IF neg THEN -Magnitude ELSE Magnitude>>
                   ELSE <<"false", 0>>
  BY DEF Finish
<1>2. Locals'
  BY <1>1 DEF Locals, Reading
<1>3. PICK s : s = Unsigned(text)
  OBVIOUS
<1>4. PICK sign : sign = IF text # s THEN -1 ELSE 1
  OBVIOUS
<1>5. s \in Seq(Nat) /\ (text # s <=> neg) /\ IntMax \in Nat
  <2>1. CASE text # <<>> /\ text[1] = Minus
    <3>1. s = Tail(text) /\ text \in Seq(Nat) /\ neg
      BY <1>3, <2>1 DEF Locals, Unsigned
    <3>2. s \in Seq(Nat) /\ Len(s) # Len(text)
      BY <2>1, <3>1
    <3> QED BY <3>1, <3>2, ScaledAssumption
  <2>2. CASE ~(text # <<>> /\ text[1] = Minus)
    BY <1>3, <2>2, ScaledAssumption DEF Locals, Unsigned
  <2> QED BY <2>1, <2>2
<1>6. sign \in {-1, 1} /\ sign = IF neg THEN -1 ELSE 1
  BY <1>4, <1>5
<1>7. PICK val : val = sign * (Numeral(s) * Pow10[ScalePow])
  OBVIOUS
<1>8. SUFFICES /\ result'[1] = "true" => Fits(s, sign) /\ result'[2] * Pow10[Decimals(s)] = val
               /\ result'[1] # "true" => ~Fits(s, sign)
  BY <1>1, <1>2, <1>3, <1>4, <1>7 DEF ScaledExact, Fits
<1>9. CASE part = "rejected"
  <2>1. ~Fits(s, sign)
    BY <1>3, <1>5, <1>6, <1>9, BadDoesNotFit DEF Locals
  <2> QED BY <1>1, <1>9, <2>1
<1>10. CASE ~any /\ part # "rejected"
  <2>1. ~HasDigit(s)
    BY <1>3, <1>10 DEF Locals, Reading
  <2> QED BY <1>1, <1>10, <2>1 DEF Fits, IsDecimal, HasDigit
<1>11. CASE any /\ part # "rejected"
  <2>1. WellFormed(s) /\ HasDigit(s)
    BY <1>3, <1>11 DEF Locals, Reading
  <2>2. IsDecimal(s) /\ Decimals(s) \in Nat
    BY <1>5, <2>1, DecimalsAre DEF IsDecimal, WellFormed, HasDigit
  <2>3. PICK p \in Nat \ {0} : p = Pow10[Decimals(s)]
    BY <2>2, PowerPositive
  <2>4. Magnitude \in Nat /\ Magnitude * p = Numeral(s) * Pow10[ScalePow]
    BY <1>3, <1>11, <2>3, MagnitudeIs
  <2>5. PICK m \in Nat : m = Magnitude
    BY <2>4
  <2>6. val = sign * (m * p)
    BY <1>7, <2>4, <2>5
  <2>7. CASE m <= IF neg THEN IntMax + 1 ELSE IntMax
    <3>1. result' = <<"true", IF neg THEN -m ELSE m>>
      BY <1>1, <1>11, <2>5, <2>7
    <3>2. PICK v \in Int : v = sign * m
      BY <1>6
    <3>3. result'[1] = "true" /\ result'[2] = v
      BY <1>6, <3>1, <3>2
    <3>4. v * p = val
      BY <1>6, <2>6, <3>2
    <3>5. v \in -(IntMax + 1)..IntMax
      BY <1>5, <1>6, <2>7, <3>2
    <3>6. Fits(s, sign)
      BY <1>7, <2>2, <2>3, <3>4, <3>5 DEF Fits
    <3> QED BY <2>3, <3>3, <3>4, <3>6
  <2>8. CASE ~(m <= IF neg THEN IntMax + 1 ELSE IntMax)
    <3>1. result' = <<"false", 0>>
      BY <1>1, <2>5, <2>8
    <3>2. ASSUME NEW v \in -(IntMax + 1)..IntMax, v * p = val PROVE FALSE
      <4>1. v \in Int /\ sign * m \in Int
        BY <1>5, <1>6
      <4>2. (v - sign * m) * p = 0
        BY <1>6, <2>6, <3>2, <4>1
      <4>3. v = sign * m
        <5>1. PICK z \in Int : z = v - sign * m
          BY <4>1
        <5>2. z * p = 0 => z = 0
          BY <2>3
        <5> QED BY <4>1, <4>2, <5>1, <5>2
      <4> QED BY <1>5, <1>6, <2>8, <4>3
    <3>3. ~Fits(s, sign)
      BY <1>7, <2>3, <3>2 DEF Fits
    <3> QED BY <3>1, <3>3
  <2> QED BY <2>7, <2>8
<1> QED BY <1>9, <1>10, <1>11

(* A text is accepted exactly if it denotes a value in range, to the last  *)
(* digit, and the result is that value: for every text of any length over  *)
(* any alphabet, every scale and every width of the result.                *)
THEOREM ParseIsExact == Spec => []ScaledExact
<1>1. Init => IInv
  <2> SUFFICES ASSUME Init PROVE IInv
    OBVIOUS
  <2>1. /\ text = <<>> /\ part = "sign" /\ neg = FALSE /\ intpart = 0 /\ any = FALSE
        /\ frac = 0 /\ fracdigits = 0 /\ result[1] = "none"
    BY DEF Init
  <2>2. Unsigned(text) = <<>> /\ <<>> \in Seq(Nat) /\ DOMAIN <<>> = {}
    BY <2>1 DEF Unsigned
  <2>3. WellFormed(<<>>) /\ ~HasDigit(<<>>) /\ ~HasPoint(<<>>)
    BY <2>2 DEF WellFormed, HasDigit, HasPoint
  <2>4. Decimals(<<>>) = 0 /\ Numeral(<<>>) = 0 /\ Pow10[0] = 1 /\ ScalePow \in Nat
    <3>1. Decimals(<<>>) = 0
      BY <2>3 DEF Decimals, HasPoint
    <3> QED BY <3>1, NumeralEmpty, PowerIs, ScaledAssumption
  <2>5. Reading(<<>>)
    BY <2>1, <2>3, <2>4 DEF Reading
  <2>6. ScaledExact
    BY <2>1 DEF ScaledExact
  <2> QED BY <2>1, <2>2, <2>3, <2>4, <2>5, <2>6 DEF IInv, Locals
<1>2. IInv /\ [Next]_vars => IInv'
  <2> SUFFICES ASSUME IInv, [Next]_vars PROVE IInv'
    OBVIOUS
  <2>1. CASE NextChar
    <3>1. PICK c \in Alphabet :
            /\ text' = Append(text, c)
            /\ Sign(c) \/ IntDigit(c) \/ Point(c) \/ FracDigit(c) \/ Reject(c)
      BY <2>1 DEF NextChar
    <3>2. c \in Nat /\ Locals /\ result' = result /\ result[1] = "none"
      BY <2>1, ScaledAssumption DEF NextChar, IInv
    <3>3. Locals'
      BY <3>1, <3>2, SignStep, IntDigitStep, PointStep, FracDigitStep, RejectStep
    <3>4. ScaledExact'
      BY <3>2 DEF ScaledExact
    <3> QED BY <3>3, <3>4 DEF IInv
  <2>2. CASE Finish
    BY <2>2, FinishStep DEF IInv
  <2>3. CASE UNCHANGED vars
    BY <2>3 DEF vars, IInv, Locals, Reading, ScaledExact
  <2> QED BY <2>1, <2>2, <2>3 DEF Next
<1>3. IInv => ScaledExact
  BY DEF IInv
<1> QED
  BY <1>1, <1>2, <1>3, PTL DEF Spec

=============================================================================
