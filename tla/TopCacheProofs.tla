--------------------------- MODULE TopCacheProofs ---------------------------
(***************************************************************************)
(* What holds of the cached top of a book side, for every set of prices,   *)
(* every size of the array and of a row, and every order in which a        *)
(* rebuild visits the hash map.                                            *)
(*                                                                         *)
(* Between rebuilds the array is not a prefix of the sorted side: after    *)
(* hidden deletions a new level may be appended that is worse than some    *)
(* the array has forgotten.  What survives is that whatever the array      *)
(* lacks is worse than its visible part (Covers).                          *)
(***************************************************************************)
EXTENDS TopCache, FiniteSetTheorems, TLAPS

Sorted(c) == \A i, j \in DOMAIN c : i < j => better(c[i].price, c[j].price)

(* Any price of P that c lacks is worse than its first n, and it has n.    *)
Covers(c, P, n) ==
  \A p \in P \ Cached(c) : n <= Len(c) /\ \A i \in 1..n : better(c[i].price, p)

(* The levels in c are levels of the side m, at the prices P.              *)
Current(c, m, P) == \A i \in DOMAIN c : c[i].price \in P /\ c[i].qty = m[c[i].price]

TInv ==
  /\ TypeOK
  /\ Len(cache) <= KTopCache
  /\ Sorted(cache)
  /\ Current(cache, map, Prices(map) \ todo)
  /\ Covers(cache, Prices(map) \ todo, IF todo = {} THEN Visible ELSE KTopCache)

-----------------------------------------------------------------------------
(* Orders, insertion and removal.                                          *)

(* better_bid and better_ask are strict total orders of the prices.        *)
LEMMA BetterOrder ==
  ASSUME NEW a \in Price, NEW b \in Price, NEW c \in Price
  PROVE  /\ ~better(a, a)
         /\ better(a, b) => ~better(b, a)
         /\ better(a, b) /\ better(b, c) => better(a, c)
         /\ a # b => better(a, b) \/ better(b, a)
<1>1. a \in Nat /\ b \in Nat /\ c \in Nat
  BY TopCacheAssumption
<1> QED BY <1>1 DEF better

(* Two bounds that meet.                                                   *)
LEMMA AntiSymmetry ==
  ASSUME NEW a \in Nat, NEW b \in Nat, a <= b, b <= a
  PROVE  a = b
OBVIOUS

(* The smaller of two numbers.                                             *)
LEMMA MinOfTwo ==
  ASSUME NEW a \in Nat, NEW b \in Nat
  PROVE  Min({a, b}) = IF a <= b THEN a ELSE b
<1>1. \E x \in {a, b} : \A y \in {a, b} : x =< y
  OBVIOUS
<1>2. Min({a, b}) \in {a, b} /\ \A y \in {a, b} : Min({a, b}) =< y
  BY <1>1 DEF Min
<1> QED BY <1>2

(* The smallest of a set of numbers.                                       *)
LEMMA MinOfSet ==
  ASSUME NEW S \in SUBSET Nat, S # {}
  PROVE  Min(S) \in S /\ \A y \in S : Min(S) <= y
<1>1. PICK m \in S : \A y \in S : ~ (<<y, m>> \in OpToRel(<, Nat))
  BY WFMin, NatLessThanWellFounded
<1>2. \A y \in S : ~ (y < m)
  BY <1>1 DEF OpToRel
<1>3. \A y \in S : m =< y
  BY <1>2
<1> QED
  BY <1>3 DEF Min

(* What the shifting loop of an upsert leaves.                             *)
LEMMA InsertAtIs ==
  ASSUME NEW T, NEW c \in Seq(T), NEW e \in T, NEW i \in 1..(Len(c) + 1)
  PROVE  /\ InsertAt(c, i, e) \in Seq(T)
         /\ Len(InsertAt(c, i, e)) = Len(c) + 1
         /\ \A k \in 1..(Len(c) + 1) :
              InsertAt(c, i, e)[k] = IF k < i THEN c[k] ELSE IF k = i THEN e ELSE c[k - 1]
<1> DEFINE a == SubSeq(c, 1, i - 1)
           b == SubSeq(c, i, Len(c))
<1>1. /\ a \in Seq(T) /\ Len(a) = i - 1 /\ \A k \in 1..(i - 1) : a[k] = c[k]
      /\ b \in Seq(T) /\ Len(b) = Len(c) - i + 1
      /\ \A k \in 1..(Len(c) - i + 1) : b[k] = c[i + k - 1]
  OBVIOUS
<1>2. InsertAt(c, i, e) = (a \o <<e>>) \o b
  BY DEF InsertAt
<1> HIDE DEF a, b
<1> DEFINE d == a \o <<e>>
<1>3. /\ d \in Seq(T) /\ Len(d) = i /\ \A k \in 1..i : d[k] = IF k < i THEN c[k] ELSE e
  BY <1>1
<1> HIDE DEF d
<1>4. InsertAt(c, i, e) = d \o b
  BY <1>2 DEF d
<1>5. /\ d \o b \in Seq(T) /\ Len(d \o b) = Len(c) + 1
      /\ \A k \in 1..i : (d \o b)[k] = d[k]
      /\ \A k \in (i + 1)..(Len(c) + 1) : (d \o b)[k] = b[k - i]
  BY <1>1, <1>3
<1>6. \A k \in (i + 1)..(Len(c) + 1) : b[k - i] = c[k - 1]
  BY <1>1
<1> QED BY <1>3, <1>4, <1>5, <1>6

(* Two sequences, one after the other.                                     *)
LEMMA ConcatIs ==
  ASSUME NEW T, NEW a \in Seq(T), NEW b \in Seq(T)
  PROVE  /\ a \o b \in Seq(T) /\ Len(a \o b) = Len(a) + Len(b)
         /\ \A k \in 1..(Len(a) + Len(b)) :
              (a \o b)[k] = IF k <= Len(a) THEN a[k] ELSE b[k - Len(a)]
OBVIOUS

(* What the shifting loop of remove_cache_price leaves.                    *)
LEMMA RemoveAtIs ==
  ASSUME NEW T, NEW c \in Seq(T), NEW i \in 1..Len(c)
  PROVE  /\ RemoveAt(c, i) \in Seq(T)
         /\ Len(RemoveAt(c, i)) = Len(c) - 1
         /\ \A k \in 1..(Len(c) - 1) : RemoveAt(c, i)[k] = IF k < i THEN c[k] ELSE c[k + 1]
<1> DEFINE a == SubSeq(c, 1, i - 1)
           b == SubSeq(c, i + 1, Len(c))
<1>1. /\ a \in Seq(T) /\ Len(a) = i - 1 /\ \A k \in 1..(i - 1) : a[k] = c[k]
      /\ b \in Seq(T) /\ Len(b) = Len(c) - i
      /\ \A k \in 1..(Len(c) - i) : b[k] = c[i + k]
  OBVIOUS
<1>2. RemoveAt(c, i) = a \o b
  BY DEF RemoveAt
<1> HIDE DEF a, b
<1>3. /\ a \o b \in Seq(T) /\ Len(a \o b) = Len(a) + Len(b)
      /\ \A k \in 1..(Len(a) + Len(b)) :
           (a \o b)[k] = IF k <= Len(a) THEN a[k] ELSE b[k - Len(a)]
  BY <1>1, ConcatIs, Zenon
<1>4. Len(a) + Len(b) = Len(c) - 1
  BY <1>1
<1>5. ASSUME NEW k \in 1..(Len(c) - 1)
      PROVE  (a \o b)[k] = IF k < i THEN c[k] ELSE c[k + 1]
  <2>1. CASE k < i
    BY <1>1, <1>3, <1>4, <2>1
  <2>2. CASE ~(k < i)
    <3>1. k - Len(a) \in 1..(Len(c) - i) /\ i + (k - Len(a)) = k + 1 /\ ~(k <= Len(a))
      BY <1>1, <2>2
    <3> QED BY <1>1, <1>3, <1>4, <2>2, <3>1
  <2> QED BY <2>1, <2>2
<1> QED BY <1>2, <1>3, <1>4, <1>5

-----------------------------------------------------------------------------
(* The two functions that patch the array.                                 *)

(* The levels in an array.                                                 *)
LEMMA LevelsOf ==
  ASSUME NEW c \in Seq(Level)
  PROVE  /\ DOMAIN c = 1..Len(c) /\ Len(c) \in Nat
         /\ \A k \in 1..Len(c) :
              c[k] \in Level /\ c[k].price \in Price /\ c[k].price \in Cached(c)
<1>1. DOMAIN c = 1..Len(c) /\ Len(c) \in Nat /\ \A k \in 1..Len(c) : c[k] \in Level
  OBVIOUS
<1>2. \A k \in 1..Len(c) : c[k].price \in Cached(c)
  BY <1>1 DEF Cached
<1>3. \A l \in Level : l.price \in Price
  BY DEF Level
<1> QED BY <1>1, <1>2, <1>3

(* Where an upsert inserts: after the levels that are better.              *)
LEMMA PositionIs ==
  ASSUME NEW c \in Seq(Level), Sorted(c), NEW p \in Price, p \notin Cached(c)
  PROVE  /\ Position(c, p) \in 1..(Len(c) + 1)
         /\ \A k \in 1..Len(c) : k < Position(c, p) => better(c[k].price, p)
         /\ \A k \in 1..Len(c) : k >= Position(c, p) => better(p, c[k].price)
<1> DEFINE S == {i \in 1..(Len(c) + 1) : i = Len(c) + 1 \/ ~better(c[i].price, p)}
<1>1. Position(c, p) = Min(S)
  BY DEF Position
<1>2. S \in SUBSET Nat /\ Len(c) + 1 \in S
  OBVIOUS
<1>3. Min(S) \in S /\ \A y \in S : Min(S) <= y
  BY <1>2, MinOfSet
<1> DEFINE m == Position(c, p)
<1>4. m \in 1..(Len(c) + 1) /\ (m = Len(c) + 1 \/ ~better(c[m].price, p))
  BY <1>1, <1>3
<1>5. \A k \in 1..Len(c) : k < m => better(c[k].price, p)
  BY <1>1, <1>3, <1>4
<1> HIDE DEF m
<1>6. \A k \in 1..Len(c) : c[k].price \in Price /\ c[k].price # p
  BY LevelsOf
<1>7. ASSUME NEW k \in 1..Len(c), k >= m
      PROVE  better(p, c[k].price)
  <2>1. m \in 1..Len(c)
    BY <1>4, <1>7
  <2>2. better(p, c[m].price)
    BY <1>4, <1>6, <2>1, BetterOrder
  <2>3. k = m \/ better(c[m].price, c[k].price)
    BY <1>7, <2>1 DEF Sorted
  <2> QED BY <1>6, <2>1, <2>2, <2>3, BetterOrder
<1> QED BY <1>4, <1>5, <1>7 DEF m

(* The level l is no better than any of a full array, or new is c with l   *)
(* inserted and what no longer fits dropped.                               *)
UpsertResult(c, l, new) ==
  \/ /\ new = c /\ Len(c) = KTopCache
     /\ \A k \in 1..Len(c) : better(c[k].price, l.price)
  \/ \E i \in 1..(Len(c) + 1) :
       /\ i <= KTopCache
       /\ Len(new) = IF Len(c) < KTopCache THEN Len(c) + 1 ELSE Len(c)
       /\ \A k \in 1..Len(new) : new[k] = IF k < i THEN c[k] ELSE IF k = i THEN l ELSE c[k - 1]
       /\ \A k \in 1..Len(c) : k < i => better(c[k].price, l.price)
       /\ \A k \in 1..Len(c) : k >= i => better(l.price, c[k].price)

(* That is what an upsert of a price that is not cached does.              *)
LEMMA UpsertIs ==
  ASSUME NEW c \in Seq(Level), Len(c) <= KTopCache, Sorted(c),
         NEW l \in Level, l.price \notin Cached(c)
  PROVE  upsert_cache(c, l) \in Seq(Level) /\ UpsertResult(c, l, upsert_cache(c, l))
<1>k. KTopCache \in Nat /\ KTopCache >= 1 /\ Len(c) \in Nat
  BY TopCacheAssumption
<1>p. l.price \in Price /\ \A k \in 1..Len(c) : c[k].price \in Price /\ c[k].price # l.price
  BY LevelsOf DEF Level
<1>1. CASE Len(c) = KTopCache /\ ~better(l.price, c[KTopCache].price)
  <2>1. upsert_cache(c, l) = c
    BY <1>1 DEF upsert_cache
  <2>2. better(c[KTopCache].price, l.price)
    BY <1>1, <1>k, <1>p, BetterOrder
  <2>3. ASSUME NEW k \in 1..Len(c) PROVE better(c[k].price, l.price)
    <3>1. k = KTopCache \/ better(c[k].price, c[KTopCache].price)
      BY <1>1, <1>k DEF Sorted
    <3> QED BY <1>1, <1>k, <1>p, <2>2, <3>1, BetterOrder
  <2> QED BY <1>1, <2>1, <2>3 DEF UpsertResult
<1>2. CASE ~(Len(c) = KTopCache /\ ~better(l.price, c[KTopCache].price))
  <2> DEFINE i == Position(c, l.price)
             d == InsertAt(c, i, l)
             n == Min({Len(c) + 1, KTopCache})
  <2>1. /\ i \in 1..(Len(c) + 1)
        /\ \A k \in 1..Len(c) : k < i => better(c[k].price, l.price)
        /\ \A k \in 1..Len(c) : k >= i => better(l.price, c[k].price)
    BY <1>p, PositionIs
  <2>2. n = IF Len(c) < KTopCache THEN Len(c) + 1 ELSE Len(c)
    BY <1>k, MinOfTwo
  <2>3. upsert_cache(c, l) = SubSeq(d, 1, n)
    BY <1>2 DEF upsert_cache
  <2> HIDE DEF i
  <2>4. /\ d \in Seq(Level) /\ Len(d) = Len(c) + 1
        /\ \A k \in 1..(Len(c) + 1) :
             d[k] = IF k < i THEN c[k] ELSE IF k = i THEN l ELSE c[k - 1]
    BY <2>1, InsertAtIs
  <2> HIDE DEF d, n
  <2>5. n \in 1..Len(d)
    BY <1>k, <2>2, <2>4
  <2>6. /\ SubSeq(d, 1, n) \in Seq(Level) /\ Len(SubSeq(d, 1, n)) = n
        /\ \A k \in 1..n : SubSeq(d, 1, n)[k] = d[k]
    BY <2>4, <2>5
  <2>7. i <= KTopCache
    <3>1. CASE Len(c) = KTopCache
      <4>1. better(l.price, c[KTopCache].price) /\ KTopCache \in 1..Len(c)
        BY <1>2, <1>k, <3>1
      <4>2. ~better(c[KTopCache].price, l.price)
        BY <1>p, <4>1, BetterOrder
      <4> QED BY <1>k, <2>1, <4>1, <4>2
    <3>2. CASE Len(c) # KTopCache
      BY <1>k, <2>1, <3>2
    <3> QED BY <3>1, <3>2
  <2>8. \A k \in 1..n : upsert_cache(c, l)[k] = IF k < i THEN c[k] ELSE IF k = i THEN l ELSE c[k - 1]
    BY <2>3, <2>4, <2>5, <2>6
  <2> QED BY <2>1, <2>2, <2>3, <2>6, <2>7, <2>8 DEF UpsertResult
<1> QED BY <1>1, <1>2

(* Only a full array loses a level, its last.                              *)
LEMMA FullArray ==
  ASSUME NEW K \in Nat, NEW m \in Nat, m <= K, NEW w, w = IF m < K THEN m + 1 ELSE m,
         NEW j \in 1..m, j >= w
  PROVE  m = K /\ j = K /\ w = K
OBVIOUS

(* After an upsert the array is in order and has room for all it holds,    *)
(* and the rest of P, with the new price, is worse than its first n.       *)
UpsertGood(c, l, P, n) ==
  LET new == upsert_cache(c, l) IN
    /\ new \in Seq(Level) /\ Len(new) <= KTopCache /\ Sorted(new)
    /\ \A k \in DOMAIN new : new[k] = l \/ \E j \in DOMAIN c : new[k] = c[j]
    /\ Covers(new, P \cup {l.price}, n)

(* That is so if it was before.                                            *)
LEMMA UpsertKeeps ==
  ASSUME NEW c \in Seq(Level), Len(c) <= KTopCache, Sorted(c),
         NEW l \in Level, l.price \notin Cached(c),
         NEW n \in Nat, n <= KTopCache, NEW P \in SUBSET Price, Covers(c, P, n)
  PROVE  UpsertGood(c, l, P, n)
<1> DEFINE new == upsert_cache(c, l)
           Q == P \cup {l.price}
<1>0. UpsertResult(c, l, new) /\ new \in Seq(Level) /\ \A x \in Q : x = l.price \/ x \in P
  BY UpsertIs
<1> SUFFICES /\ new \in Seq(Level) /\ Len(new) <= KTopCache /\ Sorted(new)
             /\ \A k \in DOMAIN new : new[k] = l \/ \E j \in DOMAIN c : new[k] = c[j]
             /\ Covers(new, Q, n)
  BY DEF UpsertGood
<1> HIDE DEF new, Q
<1>k. KTopCache \in Nat /\ l.price \in Price
  BY TopCacheAssumption DEF Level
<1>c. /\ DOMAIN c = 1..Len(c) /\ Len(c) \in Nat
      /\ \A k \in 1..Len(c) : c[k].price \in Price /\ c[k].price \in Cached(c)
  BY LevelsOf
<1>1. new \in Seq(Level)
  BY <1>0
<1>d. /\ DOMAIN new = 1..Len(new) /\ Len(new) \in Nat
      /\ \A k \in 1..Len(new) : new[k].price \in Price /\ new[k].price \in Cached(new)
  BY <1>1, LevelsOf
<1>2. CASE /\ new = c /\ Len(c) = KTopCache
           /\ \A k \in 1..Len(c) : better(c[k].price, l.price)
  <2>1. Covers(new, Q, n)
    BY <1>0, <1>2, <1>k DEF Covers
  <2> QED BY <1>1, <1>2, <1>k, <2>1
<1>3. ASSUME NEW i \in 1..(Len(c) + 1), i <= KTopCache,
             Len(new) = IF Len(c) < KTopCache THEN Len(c) + 1 ELSE Len(c),
             \A k \in 1..Len(new) : new[k] = IF k < i THEN c[k] ELSE IF k = i THEN l ELSE c[k - 1],
             \A k \in 1..Len(c) : k < i => better(c[k].price, l.price),
             \A k \in 1..Len(c) : k >= i => better(l.price, c[k].price)
      PROVE  /\ Len(new) <= KTopCache /\ Sorted(new)
             /\ \A k \in DOMAIN new : new[k] = l \/ \E j \in DOMAIN c : new[k] = c[j]
             /\ Covers(new, Q, n)
  <2>1. Len(new) <= KTopCache /\ i \in 1..Len(new)
    BY <1>3, <1>k, <1>c
  <2>2. ASSUME NEW k \in 1..Len(new)
        PROVE  \/ k < i /\ k \in 1..Len(c) /\ new[k] = c[k]
               \/ k = i /\ new[k] = l
               \/ k > i /\ k - 1 \in 1..Len(c) /\ k - 1 >= i /\ new[k] = c[k - 1]
    BY <1>3, <1>k, <1>c, <2>1
  <2>3. ASSUME NEW j \in 1..Len(new), NEW k \in 1..Len(new), j < k
        PROVE  better(new[j].price, new[k].price)
    <3>1. \A a, b \in 1..Len(c) : a < b => better(c[a].price, c[b].price)
      BY <1>c DEF Sorted
    <3>2. CASE k < i
      BY <2>2, <2>3, <3>1, <3>2
    <3>3. CASE k = i
      BY <1>3, <2>2, <2>3, <3>3
    <3>4. CASE k > i /\ j < i
      <4>1. /\ j \in 1..Len(c) /\ new[j] = c[j]
            /\ k - 1 \in 1..Len(c) /\ new[k] = c[k - 1]
        BY <2>2, <2>1, <3>4
      <4>2. j < k - 1
        BY <2>1, <3>4
      <4> QED BY <3>1, <4>1, <4>2
    <3>5. CASE k > i /\ j = i
      BY <1>3, <2>2, <2>3, <3>5
    <3>6. CASE k > i /\ j > i
      <4>1. /\ j - 1 \in 1..Len(c) /\ new[j] = c[j - 1]
            /\ k - 1 \in 1..Len(c) /\ new[k] = c[k - 1]
        BY <2>2, <2>1, <3>6
      <4>2. j - 1 < k - 1
        BY <2>3
      <4> QED BY <3>1, <4>1, <4>2
    <3> QED BY <3>2, <3>3, <3>4, <3>5, <3>6
  <2>4. \A k \in DOMAIN new : new[k] = l \/ \E j \in DOMAIN c : new[k] = c[j]
    BY <1>c, <1>d, <2>2
  <2>5. ASSUME NEW x \in Q, x \notin Cached(new)
        PROVE  n <= Len(new) /\ \A k \in 1..n : better(new[k].price, x)
    <3>1. new[i] = l /\ x # l.price /\ x \in P /\ x \in Price
      BY <1>0, <2>1, <2>2, <1>d, <2>5
    <3>2. CASE x \notin Cached(c)
      <4>1. n <= Len(c) /\ \A k \in 1..n : better(c[k].price, x)
        BY <3>1, <3>2 DEF Covers
      <4>2. n <= Len(new)
        BY <1>3, <1>c, <1>k, <4>1
      <4>3. ASSUME NEW k \in 1..n PROVE better(new[k].price, x)
        <5>1. k \in 1..Len(new) /\ k \in 1..Len(c)
          BY <1>c, <1>d, <4>1, <4>2
        <5>2. CASE k < i
          BY <2>2, <4>1, <5>1, <5>2
        <5>3. CASE k = i
          <6>1. better(l.price, c[k].price) /\ better(c[k].price, x)
            BY <1>3, <4>1, <5>1, <5>3
          <6> QED BY <1>c, <1>k, <3>1, <5>1, <5>3, <6>1, BetterOrder
        <5>4. CASE k > i
          <6>1. new[k] = c[k - 1] /\ k - 1 \in 1..n
            BY <2>2, <5>1, <5>4, <2>1
          <6> QED BY <4>1, <6>1
        <5> QED BY <5>1, <5>2, <5>3, <5>4, <2>1
      <4> QED BY <4>2, <4>3
    <3>3. CASE x \in Cached(c)
      <4>1. PICK j \in 1..Len(c) : c[j].price = x
        BY <1>c, <3>3 DEF Cached
      <4>2. j >= Len(new)
        <5>1. ASSUME j < Len(new) PROVE FALSE
          <6>1. CASE j < i
            BY <1>3, <1>d, <2>5, <4>1, <5>1, <6>1
          <6>2. CASE j >= i
            <7>1. j + 1 \in 1..Len(new) /\ new[j + 1] = c[j]
              <8>1. j + 1 \in 1..Len(new) /\ ~(j + 1 < i) /\ j + 1 # i /\ (j + 1) - 1 = j
                BY <1>d, <2>1, <5>1, <6>2
              <8> QED BY <1>3, <8>1
            <7> QED BY <1>d, <2>5, <4>1, <7>1
          <6> QED BY <6>1, <6>2, <2>1
        <5> QED BY <5>1, <1>d
      <4>3. Len(c) = KTopCache /\ j = KTopCache /\ Len(new) = KTopCache
        <5>1. Len(new) = IF Len(c) < KTopCache THEN Len(c) + 1 ELSE Len(c)
          BY <1>3
        <5> QED BY <1>c, <1>k, <4>2, <5>1, FullArray, Zenon
      <4>4. ASSUME NEW k \in 1..KTopCache PROVE better(new[k].price, x)
        <5>1. \A a \in 1..Len(c) : a < KTopCache => better(c[a].price, x)
          BY <1>c, <4>1, <4>3 DEF Sorted
        <5>2. better(l.price, x)
          BY <1>3, <4>1, <4>3
        <5>3. k # i \/ new[k].price = l.price
          BY <3>1
        <5>4. CASE k < i
          BY <1>3, <2>2, <4>3, <5>1, <5>4, <1>k
        <5>5. CASE k > i
          BY <1>3, <2>2, <4>3, <5>1, <5>5, <1>k
        <5> QED BY <5>2, <5>3, <5>4, <5>5, <2>1
      <4> QED BY <4>3, <4>4, <1>k
    <3> QED BY <3>2, <3>3
  <2>6. Covers(new, Q, n)
    BY <2>5 DEF Covers
  <2>7. Sorted(new)
    BY <1>d, <2>3 DEF Sorted
  <2> QED BY <2>1, <2>4, <2>6, <2>7
<1> QED BY <1>0, <1>1, <1>2, <1>3 DEF UpsertResult

(* remove_cache_price takes out the one level at the price, if any, and    *)
(* says whether it was visible.                                            *)
LEMMA RemoveIs ==
  ASSUME NEW c \in Seq(Level), Sorted(c), NEW p \in Price, NEW new, new = remove_cache_price(c, p)
  PROVE  /\ new \in Seq(Level) /\ Sorted(new) /\ p \notin Cached(new)
         /\ \/ new = c /\ p \notin Cached(c)
            \/ \E i \in 1..Len(c) :
                 /\ c[i].price = p /\ IndexOf(c, p) = i
                 /\ Len(new) = Len(c) - 1
                 /\ \A k \in 1..(Len(c) - 1) : new[k] = IF k < i THEN c[k] ELSE c[k + 1]
<1>c. /\ DOMAIN c = 1..Len(c) /\ Len(c) \in Nat
      /\ \A k \in 1..Len(c) : c[k].price \in Price /\ c[k].price \in Cached(c)
  BY LevelsOf
<1>1. CASE p \notin Cached(c)
  <2>1. new = c
    BY <1>c, <1>1 DEF remove_cache_price, RemoveFirstMatch
  <2> QED BY <1>1, <2>1
<1>2. CASE p \in Cached(c)
  <2>1. PICK i \in 1..Len(c) : c[i].price = p
    BY <1>c, <1>2 DEF Cached
  <2>2. ASSUME NEW k \in 1..Len(c), c[k].price = p PROVE k = i
    <3>1. ~better(p, p)
      BY BetterOrder
    <3>2. ~(k < i) /\ ~(i < k)
      BY <1>c, <2>1, <2>2, <3>1 DEF Sorted
    <3> QED BY <3>2
  <2> DEFINE S == {k \in 1..Len(c) : c[k].price = p}
  <2>3. S = {i}
    BY <2>1, <2>2
  <2>4. Min(S) = i
    <3> HIDE DEF S
    <3>1. S \in SUBSET Nat /\ S # {}
      BY <2>3
    <3>2. Min(S) \in S
      BY <3>1, MinOfSet
    <3> QED BY <2>3, <3>2
  <2>5. IndexOf(c, p) = i
    BY <2>3, <2>4 DEF IndexOf, SelectInSeq
  <2>6. new = RemoveAt(c, i)
    BY <2>1, <2>5 DEF remove_cache_price, RemoveFirstMatch, IndexOf
  <2>7. /\ new \in Seq(Level) /\ Len(new) = Len(c) - 1
        /\ \A k \in 1..(Len(c) - 1) : new[k] = IF k < i THEN c[k] ELSE c[k + 1]
    BY <2>6, RemoveAtIs
  <2>d. DOMAIN new = 1..(Len(c) - 1)
    BY <2>7
  <2>8. ASSUME NEW k \in 1..(Len(c) - 1)
        PROVE  \E a \in 1..Len(c) : a # i /\ new[k] = c[a] /\ a = IF k < i THEN k ELSE k + 1
    <3>1. CASE k < i
      BY <1>c, <2>7, <3>1
    <3>2. CASE ~(k < i)
      <4>1. k + 1 \in 1..Len(c) /\ k + 1 # i
        BY <1>c, <3>2
      <4> QED BY <2>7, <3>2, <4>1
    <3> QED BY <3>1, <3>2
  <2>9. p \notin Cached(new)
    BY <2>2, <2>8, <2>d DEF Cached
  <2>10. ASSUME NEW j \in 1..(Len(c) - 1), NEW k \in 1..(Len(c) - 1), j < k
         PROVE  better(new[j].price, new[k].price)
    <3>1. PICK a \in 1..Len(c) : new[j] = c[a] /\ a = IF j < i THEN j ELSE j + 1
      BY <2>8
    <3>2. PICK b \in 1..Len(c) : new[k] = c[b] /\ b = IF k < i THEN k ELSE k + 1
      BY <2>8
    <3>3. a < b
      BY <2>10, <3>1, <3>2
    <3> QED BY <1>c, <3>1, <3>2, <3>3 DEF Sorted
  <2>11. Sorted(new)
    BY <2>d, <2>10 DEF Sorted
  <2> QED BY <2>1, <2>5, <2>7, <2>9, <2>11
<1> QED BY <1>1, <1>2

(* Taking a price out and putting it back leaves the prices in place.      *)
LEMMA ReplaceIs ==
  ASSUME NEW c \in Seq(Level), Len(c) <= KTopCache, Sorted(c), NEW l \in Level,
         l.price \in Cached(c), NEW new, new = upsert_cache(remove_cache_price(c, l.price), l)
  PROVE  Len(new) = Len(c) /\ \A k \in 1..Len(c) : new[k].price = c[k].price
<1> DEFINE d == remove_cache_price(c, l.price)
<1>k. KTopCache \in Nat /\ l.price \in Price
  BY TopCacheAssumption DEF Level
<1>c. /\ DOMAIN c = 1..Len(c) /\ Len(c) \in Nat
      /\ \A k \in 1..Len(c) : c[k].price \in Price
  BY LevelsOf
<1>1. d \in Seq(Level) /\ Sorted(d) /\ l.price \notin Cached(d)
  BY <1>k, RemoveIs
<1>2. PICK i \in 1..Len(c) :
        /\ c[i].price = l.price /\ Len(d) = Len(c) - 1
        /\ \A k \in 1..(Len(c) - 1) : d[k] = IF k < i THEN c[k] ELSE c[k + 1]
  BY <1>k, RemoveIs
<1> HIDE DEF d
<1>3. new = upsert_cache(d, l)
  BY DEF d
<1>4. Len(d) < KTopCache /\ Len(d) + 1 = Len(c)
  BY <1>c, <1>k, <1>2
<1>5. PICK j \in 1..Len(c) :
        /\ Len(new) = Len(c)
        /\ \A k \in 1..Len(c) : new[k] = IF k < j THEN d[k] ELSE IF k = j THEN l ELSE d[k - 1]
        /\ \A k \in 1..(Len(c) - 1) : k < j => better(d[k].price, l.price)
        /\ \A k \in 1..(Len(c) - 1) : k >= j => better(l.price, d[k].price)
  <2>1. \E j \in 1..(Len(d) + 1) :
          /\ Len(new) = IF Len(d) < KTopCache THEN Len(d) + 1 ELSE Len(d)
          /\ \A k \in 1..Len(new) : new[k] = IF k < j THEN d[k] ELSE IF k = j THEN l ELSE d[k - 1]
          /\ \A k \in 1..Len(d) : k < j => better(d[k].price, l.price)
          /\ \A k \in 1..Len(d) : k >= j => better(l.price, d[k].price)
    <3>1. Len(d) <= KTopCache /\ Len(d) # KTopCache
      <4>1. Len(d) \in Nat
        BY <1>1
      <4> QED BY <1>k, <1>4, <4>1
    <3>2. UpsertResult(d, l, new)
      BY <1>1, <1>3, <3>1, UpsertIs, Zenon
    <3> QED BY <3>1, <3>2 DEF UpsertResult
  <2>2. Len(d) + 1 = Len(c) /\ Len(d) = Len(c) - 1 /\ Len(d) < KTopCache
    BY <1>2, <1>4
  <2> QED BY <2>1, <2>2
<1>6. \A a, b \in 1..Len(c) : a < b => better(c[a].price, c[b].price)
  BY <1>c DEF Sorted
<1>7. j = i
  <2>1. CASE j < i
    <3>1. j \in 1..(Len(c) - 1) /\ d[j] = c[j] /\ better(c[j].price, l.price)
      BY <1>c, <1>2, <1>6, <2>1
    <3>2. better(l.price, c[j].price)
      BY <1>5, <3>1
    <3> QED BY <1>c, <1>k, <3>1, <3>2, BetterOrder
  <2>2. CASE j > i
    <3>1. j - 1 \in 1..(Len(c) - 1) /\ ~(j - 1 < i) /\ (j - 1) + 1 = j /\ j - 1 < j
      BY <1>c, <2>2
    <3>2. d[j - 1] = c[j] /\ better(l.price, c[j].price)
      BY <1>2, <1>6, <2>2, <3>1
    <3>3. better(c[j].price, l.price)
      BY <1>5, <3>1, <3>2
    <3> QED BY <1>c, <1>k, <3>2, <3>3, BetterOrder
  <2> QED BY <2>1, <2>2
<1>8. ASSUME NEW k \in 1..Len(c) PROVE new[k].price = c[k].price
  <2>1. CASE k < i
    BY <1>c, <1>2, <1>5, <1>7, <2>1
  <2>2. CASE k = i
    BY <1>2, <1>5, <1>7, <2>2
  <2>3. CASE k > i
    <3>1. k - 1 \in 1..(Len(c) - 1) /\ ~(k - 1 < i) /\ (k - 1) + 1 = k
      BY <1>c, <2>3
    <3>2. d[k - 1] = c[k]
      BY <1>2, <3>1
    <3>3. new[k] = d[k - 1]
      BY <1>5, <1>7, <2>3
    <3> QED BY <3>2, <3>3
  <2> QED BY <2>1, <2>2, <2>3
<1> QED BY <1>5, <1>8

-----------------------------------------------------------------------------
(* The steps.                                                              *)

(* What is known before a step.                                            *)
LEMMA Known ==
  ASSUME TInv
  PROVE  /\ side \in {"Bid", "Ask"} /\ map \in [Price -> Qty] /\ cache \in Seq(Level)
         /\ todo \subseteq Prices(map) /\ Prices(map) \in SUBSET Price
         /\ Len(cache) <= KTopCache /\ Sorted(cache)
         /\ Current(cache, map, Prices(map) \ todo)
         /\ Visible \in Nat /\ KTopCache \in Nat /\ 1 <= Visible /\ Visible <= KTopCache
BY TopCacheAssumption DEF TInv, TypeOK, Prices

(* A side that is about to be listed from nothing.                         *)
LEMMA StartInv ==
  ASSUME NEW m \in [Price -> Qty], map' = m, cache' = <<>>, todo' = Prices(m),
         side' \in {"Bid", "Ask"}
  PROVE  TInv'
<1>1. cache' \in Seq(Level) /\ Len(cache') = 0 /\ DOMAIN cache' = {}
  OBVIOUS
<1>2. KTopCache \in Nat
  BY TopCacheAssumption
<1> QED
  BY <1>1, <1>2 DEF TInv, TypeOK, Sorted, Current, Covers, Prices

(* One iteration of a rebuild.                                             *)
LEMMA RebuildInv ==
  ASSUME TInv, RebuildStep
  PROVE  TInv'
<1>k. /\ side \in {"Bid", "Ask"} /\ map \in [Price -> Qty] /\ cache \in Seq(Level)
      /\ todo \subseteq Prices(map) /\ Prices(map) \in SUBSET Price
      /\ Len(cache) <= KTopCache /\ Sorted(cache)
      /\ Current(cache, map, Prices(map) \ todo)
      /\ Visible \in Nat /\ KTopCache \in Nat /\ 1 <= Visible /\ Visible <= KTopCache
  BY Known
<1>1. PICK p \in todo :
        /\ cache' = upsert_cache(cache, [price |-> p, qty |-> map[p]])
        /\ todo' = todo \ {p} /\ side' = side /\ map' = map
  BY DEF RebuildStep
<1> DEFINE l == [price |-> p, qty |-> map[p]]
           P == Prices(map) \ todo
           Q == Prices(map) \ todo'
<1>2. p \in Price /\ l \in Level /\ l.price = p /\ l.qty = map[p]
  BY <1>k DEF Level
<1>3. p \notin Cached(cache)
  BY <1>k DEF Current, Cached
<1>4. Q = P \cup {p} /\ P \in SUBSET Price
  BY <1>k, <1>1
<1>5. Covers(cache, P, KTopCache)
  BY <1>1 DEF TInv
<1> HIDE DEF l, P, Q
<1>6. /\ cache' \in Seq(Level) /\ Len(cache') <= KTopCache
      /\ \A k \in DOMAIN cache' : cache'[k] = l \/ \E j \in DOMAIN cache : cache'[k] = cache[j]
      /\ \A i, j \in DOMAIN cache' : i < j => better(cache'[i].price, cache'[j].price)
      /\ \A x \in Q \ {cache'[i].price : i \in DOMAIN cache'} :
           KTopCache <= Len(cache') /\ \A i \in 1..KTopCache : better(cache'[i].price, x)
  <2>1. cache' = upsert_cache(cache, l)
    BY <1>1 DEF l
  <2>2. UpsertGood(cache, l, P, KTopCache)
    <3>1. /\ cache \in Seq(Level) /\ Len(cache) <= KTopCache /\ Sorted(cache) /\ l \in Level
          /\ l.price \notin Cached(cache) /\ Q = P \cup {l.price} /\ P \in SUBSET Price
          /\ KTopCache \in Nat /\ KTopCache <= KTopCache /\ Covers(cache, P, KTopCache)
      BY <1>k, <1>2, <1>3, <1>4, <1>5
    <3> QED BY <3>1, UpsertKeeps, Zenon
  <2>3. Q = P \cup {l.price}
    BY <1>2, <1>4
  <2>4. /\ cache' \in Seq(Level) /\ Len(cache') <= KTopCache /\ Sorted(cache')
        /\ \A k \in DOMAIN cache' : cache'[k] = l \/ \E j \in DOMAIN cache : cache'[k] = cache[j]
        /\ Covers(cache', Q, KTopCache)
    BY <2>1, <2>2, <2>3 DEF UpsertGood
  <2> QED BY <2>4 DEF Sorted, Covers, Cached
<1>7. TypeOK'
  BY <1>k, <1>1, <1>6 DEF TypeOK, Prices
<1>8. Sorted(cache)'
  BY <1>1, <1>6 DEF Sorted, better
<1>9. Current(cache, map, Prices(map) \ todo)'
  <2>1. \A k \in DOMAIN cache' : cache'[k].price \in Q /\ cache'[k].qty = map[cache'[k].price]
    BY <1>k, <1>2, <1>4, <1>6 DEF Current, P
  <2> QED BY <1>1, <2>1 DEF Current, Q, Prices
<1>10. Covers(cache, Prices(map) \ todo, IF todo = {} THEN Visible ELSE KTopCache)'
  <2> DEFINE n == IF todo' = {} THEN Visible ELSE KTopCache
  <2>1. n \in Nat /\ n <= KTopCache
    BY <1>k
  <2> HIDE DEF n
  <2>2. \A x \in Q \ {cache'[i].price : i \in DOMAIN cache'} :
          n <= Len(cache') /\ \A i \in 1..n : better(cache'[i].price, x)
    BY <1>k, <1>6, <2>1
  <2> QED BY <1>1, <2>2 DEF Covers, Cached, better, Q, n, Prices
<1> QED
  BY <1>6, <1>7, <1>8, <1>9, <1>10 DEF TInv

(* A level is deleted.                                                     *)
LEMMA DeleteInv ==
  ASSUME TInv, NEW p \in Price, DeleteLevel(p)
  PROVE  TInv'
<1>k. /\ side \in {"Bid", "Ask"} /\ map \in [Price -> Qty] /\ cache \in Seq(Level)
      /\ todo \subseteq Prices(map) /\ Prices(map) \in SUBSET Price
      /\ Len(cache) <= KTopCache /\ Sorted(cache)
      /\ Current(cache, map, Prices(map) \ todo)
      /\ Visible \in Nat /\ KTopCache \in Nat /\ 1 <= Visible /\ Visible <= KTopCache
  BY Known
<1> DEFINE c == remove_cache_price(cache, p)
           m == [map EXCEPT ![p] = 0]
<1>1. /\ todo = {} /\ map' = m /\ side' = side
      /\ \/ cache' = <<>> /\ todo' = Prices(m)
         \/ ~WasVisible(cache, p) /\ ~(Len(c) < Visible) /\ cache' = c /\ todo' = todo
  BY DEF DeleteLevel, StartRebuild
<1>2. m \in [Price -> Qty] /\ Prices(m) = Prices(map) \ {p}
  BY <1>k, TopCacheAssumption DEF Prices
<1>3. CASE cache' = <<>> /\ todo' = Prices(m)
  BY <1>k, <1>1, <1>2, <1>3, StartInv
<1>4. CASE ~WasVisible(cache, p) /\ ~(Len(c) < Visible) /\ cache' = c /\ todo' = todo
  <2>1. /\ c \in Seq(Level) /\ Sorted(c) /\ p \notin Cached(c)
        /\ \/ c = cache /\ p \notin Cached(cache)
           \/ \E i \in 1..Len(cache) :
                /\ cache[i].price = p /\ IndexOf(cache, p) = i
                /\ Len(c) = Len(cache) - 1
                /\ \A k \in 1..(Len(cache) - 1) :
                     c[k] = IF k < i THEN cache[k] ELSE cache[k + 1]
    BY <1>k, RemoveIs
  <2> HIDE DEF c
  <2>d. /\ DOMAIN c = 1..Len(c) /\ Len(c) \in Nat
        /\ DOMAIN cache = 1..Len(cache) /\ Len(cache) \in Nat
    BY <1>k, <2>1
  <2>2. /\ Len(c) <= KTopCache /\ Visible <= Len(c)
        /\ \A k \in 1..Visible : c[k] = cache[k]
        /\ \A k \in DOMAIN c : \E j \in DOMAIN cache : c[k] = cache[j]
        /\ \A j \in DOMAIN cache : cache[j].price = p \/ \E k \in DOMAIN c : c[k] = cache[j]
    <3>1. CASE c = cache /\ p \notin Cached(cache)
      BY <1>k, <1>4, <2>d, <3>1
    <3>2. ASSUME NEW i \in 1..Len(cache), cache[i].price = p, IndexOf(cache, p) = i,
                 Len(c) = Len(cache) - 1,
                 \A k \in 1..(Len(cache) - 1) : c[k] = IF k < i THEN cache[k] ELSE cache[k + 1]
          PROVE  /\ Len(c) <= KTopCache /\ Visible <= Len(c)
                 /\ \A k \in 1..Visible : c[k] = cache[k]
                 /\ \A k \in DOMAIN c : \E j \in DOMAIN cache : c[k] = cache[j]
                 /\ \A j \in DOMAIN cache : cache[j].price = p \/ \E k \in DOMAIN c : c[k] = cache[j]
      <4>1. i > Visible
        BY <1>k, <1>4, <3>2 DEF WasVisible
      <4>2. Len(c) <= KTopCache /\ Visible <= Len(c)
        BY <1>k, <1>4, <2>d, <3>2
      <4>3. \A k \in 1..Visible : c[k] = cache[k]
        BY <1>k, <2>d, <3>2, <4>1, <4>2
      <4>4. \A k \in DOMAIN c : k \in DOMAIN cache /\ k + 1 \in DOMAIN cache
        BY <2>d, <3>2
      <4>5. \A k \in DOMAIN c : c[k] = cache[k] \/ c[k] = cache[k + 1]
        BY <2>d, <3>2
      <4>6. ASSUME NEW j \in DOMAIN cache, cache[j].price # p
            PROVE  \E k \in DOMAIN c : c[k] = cache[j]
        <5>1. CASE j < i
          <6>1. j \in DOMAIN c /\ j \in 1..(Len(cache) - 1)
            BY <2>d, <3>2, <5>1
          <6> QED BY <3>2, <5>1, <6>1
        <5>2. CASE j > i
          <6>1. j - 1 \in DOMAIN c /\ j - 1 \in 1..(Len(cache) - 1) /\ ~(j - 1 < i) /\ (j - 1) + 1 = j
            BY <2>d, <3>2, <5>2
          <6>2. c[j - 1] = cache[j]
            BY <3>2, <6>1
          <6> QED BY <6>1, <6>2
        <5>3. j # i
          BY <3>2, <4>6
        <5> QED BY <2>d, <5>1, <5>2, <5>3
      <4> QED BY <4>2, <4>3, <4>4, <4>5, <4>6
    <3> QED BY <2>1, <3>1, <3>2
  <2>3. TypeOK'
    BY <1>k, <1>1, <1>2, <1>4, <2>1 DEF TypeOK, Prices
  <2>4. Sorted(cache)'
    BY <1>1, <1>4, <2>1 DEF Sorted, better
  <2>5. Current(cache, map, Prices(map) \ todo)'
    <3>1. \A k \in DOMAIN c : c[k].price \in Price /\ c[k].price # p
      BY <2>1, <2>d, LevelsOf
    <3>2. \A k \in DOMAIN c : c[k].price \in Prices(map) /\ c[k].qty = map[c[k].price]
      BY <1>k, <2>2 DEF Current
    <3>3. \A k \in DOMAIN c : c[k].price \in Prices(m) /\ c[k].qty = m[c[k].price]
      BY <1>k, <1>2, <3>1, <3>2
    <3> QED BY <1>1, <1>4, <3>3 DEF Current, Prices
  <2>6. Covers(cache, Prices(map) \ todo, IF todo = {} THEN Visible ELSE KTopCache)'
    <3>1. Covers(cache, Prices(map), Visible)
      BY <1>1 DEF TInv
    <3>2. ASSUME NEW x \in Prices(m), x \notin {c[i].price : i \in DOMAIN c}
          PROVE  Visible <= Len(c) /\ \A i \in 1..Visible : better(c[i].price, x)
      <4>1. x \in Prices(map) /\ x # p
        BY <1>2
      <4>2. x \notin Cached(cache)
        BY <2>2, <3>2, <4>1 DEF Cached
      <4> QED BY <2>2, <3>1, <4>1, <4>2 DEF Covers
    <3> QED BY <1>1, <1>4, <3>2 DEF Covers, Cached, better, Prices
  <2> QED BY <1>4, <2>2, <2>3, <2>4, <2>5, <2>6 DEF TInv
<1> QED BY <1>1, <1>3, <1>4

(* A level is set.  If its price was cached, the prices stay in place; if  *)
(* not, it is inserted.                                                    *)
LEMMA SetInv ==
  ASSUME TInv, NEW p \in Price, NEW q \in Qty \ {0}, SetLevel(p, q)
  PROVE  TInv'
<1>k. /\ side \in {"Bid", "Ask"} /\ map \in [Price -> Qty] /\ cache \in Seq(Level)
      /\ todo \subseteq Prices(map) /\ Prices(map) \in SUBSET Price
      /\ Len(cache) <= KTopCache /\ Sorted(cache)
      /\ Current(cache, map, Prices(map) \ todo)
      /\ Visible \in Nat /\ KTopCache \in Nat /\ 1 <= Visible /\ Visible <= KTopCache
  BY Known
<1> DEFINE c == remove_cache_price(cache, p)
           l == [price |-> p, qty |-> q]
           m == [map EXCEPT ![p] = q]
<1>1. /\ todo = {} /\ todo' = {} /\ map' = m /\ side' = side /\ cache' = upsert_cache(c, l)
  BY DEF SetLevel
<1>2. /\ m \in [Price -> Qty] /\ Prices(m) = Prices(map) \cup {p} /\ m[p] = q
      /\ \A x \in Price : x # p => m[x] = map[x]
  BY <1>k DEF Prices
<1>3. l \in Level /\ l.price = p /\ l.qty = q
  BY DEF Level
<1>4. /\ c \in Seq(Level) /\ Sorted(c) /\ p \notin Cached(c)
      /\ \/ c = cache /\ p \notin Cached(cache)
         \/ \E i \in 1..Len(cache) :
              /\ cache[i].price = p /\ IndexOf(cache, p) = i
              /\ Len(c) = Len(cache) - 1
              /\ \A k \in 1..(Len(cache) - 1) :
                   c[k] = IF k < i THEN cache[k] ELSE cache[k + 1]
  BY <1>k, RemoveIs
<1>5. ASSUME p \in Cached(cache)
      PROVE  Len(cache') = Len(cache) /\ \A k \in 1..Len(cache) : cache'[k].price = cache[k].price
  BY <1>k, <1>1, <1>3, <1>5, ReplaceIs
<1> HIDE DEF c, l, m
<1>d. /\ DOMAIN c = 1..Len(c) /\ Len(c) \in Nat
      /\ DOMAIN cache = 1..Len(cache) /\ Len(cache) \in Nat
  BY <1>k, <1>4
<1>6. Len(c) <= KTopCache /\ \A k \in DOMAIN c : \E j \in DOMAIN cache : c[k] = cache[j]
  <2>1. CASE c = cache
    BY <1>k, <2>1
  <2>2. CASE \E i \in 1..Len(cache) :
               /\ Len(c) = Len(cache) - 1
               /\ \A k \in 1..(Len(cache) - 1) : c[k] = IF k < i THEN cache[k] ELSE cache[k + 1]
    <3>1. \A k \in DOMAIN c : k \in DOMAIN cache /\ k + 1 \in DOMAIN cache
      BY <1>d, <2>2
    <3>2. \A k \in DOMAIN c : c[k] = cache[k] \/ c[k] = cache[k + 1]
      BY <1>d, <2>2
    <3> QED BY <1>k, <1>d, <2>2, <3>1, <3>2
  <2> QED BY <1>4, <2>1, <2>2
<1>7. /\ cache' \in Seq(Level) /\ Len(cache') <= KTopCache /\ Sorted(cache')
      /\ \A k \in DOMAIN cache' : cache'[k] = l \/ \E j \in DOMAIN c : cache'[k] = c[j]
  <2>1. Covers(c, {}, 0) /\ 0 <= KTopCache /\ {} \in SUBSET Price /\ l.price \notin Cached(c)
    BY <1>k, <1>3, <1>4 DEF Covers
  <2>2. 0 \in Nat
    OBVIOUS
  <2>3. UpsertGood(c, l, {}, 0)
    BY <1>3, <1>4, <1>6, <2>1, <2>2, UpsertKeeps, Zenon
  <2> QED BY <1>1, <2>3 DEF UpsertGood
<1>8. Covers(cache', Prices(m), Visible)
  <2>1. Covers(cache, Prices(map), Visible)
    BY <1>1 DEF TInv
  <2>2. CASE p \notin Cached(cache)
    <3>1. c = cache /\ l.price \notin Cached(cache) /\ Prices(m) = Prices(map) \cup {l.price}
      <4>1. \A i \in 1..Len(cache) : cache[i].price # p
        BY <1>d, <2>2 DEF Cached
      <4> QED BY <1>2, <1>3, <1>4, <2>2, <4>1
    <3>2. UpsertGood(cache, l, Prices(map), Visible)
      BY <1>k, <1>3, <2>1, <3>1, UpsertKeeps, Zenon
    <3> QED BY <1>1, <3>1, <3>2 DEF UpsertGood
  <2>3. CASE p \in Cached(cache)
    <3>1. /\ Len(cache') = Len(cache) /\ DOMAIN cache' = DOMAIN cache
          /\ \A k \in DOMAIN cache : cache'[k].price = cache[k].price
      BY <1>5, <1>7, <1>d, <2>3
    <3>2. Cached(cache') = Cached(cache)
      BY <3>1 DEF Cached
    <3>3. ASSUME NEW x \in Prices(m), x \notin Cached(cache')
          PROVE  Visible <= Len(cache') /\ \A i \in 1..Visible : better(cache'[i].price, x)
      <4>1. x \in Prices(map) \ Cached(cache)
        BY <1>2, <2>3, <3>2, <3>3
      <4>2. Visible <= Len(cache) /\ \A i \in 1..Visible : better(cache[i].price, x)
        BY <2>1, <4>1 DEF Covers
      <4>3. \A i \in 1..Visible : i \in DOMAIN cache
        BY <1>k, <1>d, <4>2
      <4> QED BY <3>1, <4>2, <4>3
    <3> QED BY <3>3 DEF Covers
  <2> QED BY <2>2, <2>3
<1>9. Current(cache', m, Prices(m))
  <2>1. ASSUME NEW j \in DOMAIN c
        PROVE  c[j].price \in Prices(m) /\ c[j].qty = m[c[j].price]
    <3>1. c[j].price \in Price /\ c[j].price # p
      BY <1>4, <1>d, LevelsOf
    <3>2. c[j].price \in Prices(map) /\ c[j].qty = map[c[j].price]
      BY <1>k, <1>6 DEF Current
    <3> QED BY <1>2, <3>1, <3>2
  <2>2. l.price \in Prices(m) /\ l.qty = m[l.price]
    BY <1>2, <1>3
  <2> QED BY <1>7, <2>1, <2>2 DEF Current
<1>10. TypeOK'
  BY <1>k, <1>1, <1>2, <1>7 DEF TypeOK
<1>11. Sorted(cache)' /\ Covers(cache, Prices(map), Visible)' /\ Current(cache, map, Prices(map))'
  BY <1>1, <1>7, <1>8, <1>9 DEF Sorted, Covers, Current, Cached, Prices, better
<1>12. (Prices(map) \ todo)' = Prices(map)'
  BY <1>1
<1> QED
  BY <1>1, <1>7, <1>10, <1>11, <1>12 DEF TInv

-----------------------------------------------------------------------------

(* The inductive invariant of one side.                                    *)
THEOREM TopCacheInvariant == Spec => []TInv
<1>1. Init => TInv
  <2> SUFFICES ASSUME Init PROVE TInv
    OBVIOUS
  <2>1. /\ side \in {"Bid", "Ask"} /\ map \in [Price -> Qty] /\ cache = <<>> /\ todo = {}
        /\ Prices(map) = {}
    BY TopCacheAssumption DEF Init, EmptySide, Prices
  <2>2. cache \in Seq(Level) /\ Len(cache) = 0 /\ DOMAIN cache = {} /\ KTopCache \in Nat
    BY <2>1, TopCacheAssumption
  <2> QED
    BY <2>1, <2>2 DEF TInv, TypeOK, Sorted, Current, Covers
<1>2. TInv /\ [Next]_vars => TInv'
  <2> SUFFICES ASSUME TInv, [Next]_vars PROVE TInv'
    OBVIOUS
  <2>k. side \in {"Bid", "Ask"}
    BY Known
  <2>1. CASE RebuildStep
    BY <2>1, RebuildInv
  <2>2. CASE \E p \in Price : DeleteLevel(p)
    BY <2>2, DeleteInv
  <2>3. CASE \E p \in Price, q \in Qty \ {0} : SetLevel(p, q)
    BY <2>3, SetInv
  <2>4. CASE \E s \in Snapshots : set_snapshot(s)
    <3>1. PICK s \in Snapshots : set_snapshot(s)
      BY <2>4
    <3>2. s \in [Price -> Qty]
      BY TopCacheAssumption
    <3> QED BY <2>k, <3>1, <3>2, StartInv DEF set_snapshot, StartRebuild
  <2>5. CASE reset
    <3>1. EmptySide \in [Price -> Qty] /\ Prices(EmptySide) = {}
      BY TopCacheAssumption DEF EmptySide, Prices
    <3> QED BY <2>k, <2>5, <3>1, StartInv DEF reset
  <2>6. CASE UNCHANGED vars
    BY <2>6 DEF vars, TInv, TypeOK, Sorted, Current, Covers, Cached, Prices, better
  <2> QED
    BY <2>1, <2>2, <2>3, <2>4, <2>5, <2>6 DEF Next
<1> QED
  BY <1>1, <1>2, PTL DEF Spec

(* Types are kept, and a rebuild visits only entries of the hash map.      *)
THEOREM TopCacheTypeCorrect == Spec => []TypeOK
<1>1. TInv => TypeOK
  BY DEF TInv
<1> QED
  BY <1>1, TopCacheInvariant, PTL

(* The array holds current levels of the book, best first, and never more  *)
(* than it has room for.                                                   *)
THEOREM CacheIsSound == Spec => []CacheSound
<1>1. TInv => CacheSound
  <2> SUFFICES ASSUME TInv PROVE CacheSound
    OBVIOUS
  <2>1. /\ cache \in Seq(Level) /\ Len(cache) <= KTopCache /\ Sorted(cache)
        /\ Current(cache, map, Prices(map) \ todo)
    BY Known
  <2>2. \A i \in DOMAIN cache : cache[i].qty = map[cache[i].price] /\ cache[i].qty # 0
    BY <2>1 DEF Current, Prices
  <2>3. \A i \in DOMAIN cache : i > 1 => i - 1 \in DOMAIN cache /\ i - 1 < i
    BY <2>1
  <2> QED
    BY <2>1, <2>2, <2>3 DEF CacheSound, Sorted
<1> QED
  BY <1>1, TopCacheInvariant, PTL

(* The rows fill_top5 writes are the top of the full book, whatever the    *)
(* sizes of the array and of a row.                                        *)
THEOREM RowsAreTopOfBook == Spec => []RowIsTopOfBook
<1>1. TInv => RowIsTopOfBook
  <2> SUFFICES ASSUME TInv, todo = {} PROVE IsBest(fill_top5, map, Prices(map), Visible)
    BY DEF RowIsTopOfBook
  <2>1. /\ cache \in Seq(Level) /\ Sorted(cache) /\ Current(cache, map, Prices(map))
        /\ Covers(cache, Prices(map), Visible) /\ Visible \in Nat
    BY Known DEF TInv
  <2> DEFINE n == Min({Visible, Len(cache)})
  <2>2. n = (IF Visible <= Len(cache) THEN Visible ELSE Len(cache)) /\ Len(cache) \in Nat
    BY <2>1, MinOfTwo
  <2>3. fill_top5 = SubSeq(cache, 1, n)
    BY DEF fill_top5
  <2> HIDE DEF n
  <2>4. n \in Nat /\ n <= Visible /\ n <= Len(cache)
    BY <2>1, <2>2
  <2>5. /\ Len(fill_top5) = n /\ DOMAIN fill_top5 = 1..n
        /\ \A i \in 1..n : i \in DOMAIN cache /\ fill_top5[i] = cache[i]
    BY <2>1, <2>3, <2>4
  <2>6. \A i \in 1..n : i > 1 => i - 1 \in 1..n /\ i - 1 < i
    BY <2>4
  <2>7. ASSUME NEW i \in 1..n
        PROVE  /\ fill_top5[i].price \in Prices(map)
               /\ fill_top5[i].qty = map[fill_top5[i].price]
               /\ i > 1 => better(fill_top5[i - 1].price, fill_top5[i].price)
    BY <2>1, <2>5, <2>6 DEF Current, Sorted
  <2>8. ASSUME NEW p \in Prices(map) \ Cached(fill_top5)
        PROVE  n = Visible /\ \A i \in 1..n : better(fill_top5[i].price, p)
    <3>1. CASE p \notin Cached(cache)
      BY <2>1, <2>2, <2>5, <3>1 DEF Covers
    <3>2. CASE p \in Cached(cache)
      <4>1. PICK j \in DOMAIN cache : cache[j].price = p
        BY <3>2 DEF Cached
      <4>2. j \notin 1..n
        BY <2>5, <4>1 DEF Cached
      <4>3. j \in 1..Len(cache) /\ j > n
        BY <2>1, <2>4, <4>2
      <4>4. n = Visible
        BY <2>2, <4>3
      <4>5. \A i \in 1..n : i < j
        BY <2>4, <4>3
      <4> QED BY <2>1, <2>5, <4>1, <4>4, <4>5 DEF Sorted
    <3> QED BY <3>1, <3>2
  <2> QED
    BY <2>4, <2>5, <2>7, <2>8 DEF IsBest
<1> QED
  BY <1>1, TopCacheInvariant, PTL

(* A rebuild under way lists the best of what it has visited, whatever the *)
(* order of the hash map.                                                  *)
THEOREM RebuildIsOrderFree == Spec => []RebuildOrderFree
<1>1. TInv => RebuildOrderFree
  <2> SUFFICES ASSUME TInv, todo # {}
               PROVE  IsBest(cache, map, Prices(map) \ todo, KTopCache)
    BY DEF RebuildOrderFree
  <2> DEFINE P == Prices(map) \ todo
  <2>1. /\ cache \in Seq(Level) /\ Sorted(cache) /\ Current(cache, map, P)
        /\ Covers(cache, P, KTopCache) /\ KTopCache \in Nat
        /\ Len(cache) <= KTopCache
    BY Known DEF TInv
  <2> SUFFICES IsBest(cache, map, P, KTopCache)
    OBVIOUS
  <2> HIDE DEF P
  <2>2. DOMAIN cache = 1..Len(cache) /\ Len(cache) \in Nat
    BY <2>1
  <2>3. \A i \in DOMAIN cache : i > 1 => i - 1 \in DOMAIN cache /\ i - 1 < i
    BY <2>2
  <2>4. \A i \in DOMAIN cache :
          /\ cache[i].price \in P
          /\ cache[i].qty = map[cache[i].price]
          /\ i > 1 => better(cache[i - 1].price, cache[i].price)
    BY <2>1, <2>3 DEF Current, Sorted
  <2>5. ASSUME NEW p \in P \ Cached(cache)
        PROVE  Len(cache) = KTopCache /\ \A i \in DOMAIN cache : better(cache[i].price, p)
    <3>1. KTopCache <= Len(cache) /\ \A i \in 1..KTopCache : better(cache[i].price, p)
      BY <2>1 DEF Covers
    <3>2. Len(cache) = KTopCache
      BY <2>1, <2>2, <3>1, AntiSymmetry, Zenon
    <3> QED BY <2>2, <3>1, <3>2
  <2> QED
    BY <2>1, <2>4, <2>5 DEF IsBest
<1> QED
  BY <1>1, TopCacheInvariant, PTL

=============================================================================
