----------------------------- MODULE MainProofs -----------------------------
(***************************************************************************)
(* What holds of main and its threads for any number of symbols and        *)
(* shards, in every order in which the threads, the watcher and a signal   *)
(* can come.                                                               *)
(*                                                                         *)
(* ExitCodeTells speaks of the end only.  What makes it true is that a     *)
(* shard's entry of rcs tells at every stage what has happened to it       *)
(* (ShardCode), that no sink fails after its shard has returned, and that  *)
(* main reads rcs only once every thread is joined (Joined).               *)
(*                                                                         *)
(* ShardsFit rests on lemmas about the symbols and their shards, for every *)
(* list of symbols, every value of --shards and every limit on streams.    *)
(***************************************************************************)
EXTENDS Main, FiniteSetTheorems, TLAPS

-----------------------------------------------------------------------------
(* Positions.                                                              *)

(* A set of numbers that is not empty has a least element.                 *)
LEMMA LeastExists ==
  ASSUME NEW S \in SUBSET Nat, S # {}
  PROVE  \E m \in S : \A y \in S : m <= y
<1>1. PICK m \in S : \A y \in S : ~ (<<y, m>> \in OpToRel(<, Nat))
  BY WFMin, NatLessThanWellFounded
<1>2. \A y \in S : ~ (y < m)
  BY <1>1 DEF OpToRel
<1> QED
  BY <1>2

(* A set of positions that is not empty has a last one.                    *)
LEMMA LastExists ==
  ASSUME NEW n \in Nat, NEW S \in SUBSET (1..n), S # {}
  PROVE  \E m \in S : \A y \in S : m >= y
<1> DEFINE T == {n - i : i \in S}
<1>1. T \in SUBSET Nat /\ T # {}
  <2>1. \A i \in S : n - i \in Nat
    OBVIOUS
  <2>2. PICK i \in S : TRUE
    OBVIOUS
  <2>3. n - i \in T
    BY <2>2
  <2> QED BY <2>1, <2>3
<1>2. PICK k \in T : \A y \in T : k <= y
  BY <1>1, LeastExists
<1>3. PICK m \in S : k = n - m
  OBVIOUS
<1>4. \A y \in S : n - m <= n - y
  BY <1>2, <1>3
<1> QED
  BY <1>4

(* Ranks number the positions of a set from one up, in their order.        *)
LEMMA RankIsPosition ==
  ASSUME NEW n \in Nat, NEW S \in SUBSET (1..n)
  PROVE  /\ IsFiniteSet(S) /\ Cardinality(S) \in Nat
         /\ \A i \in S : Rank(S, i) \in 1..Cardinality(S)
         /\ \A i, j \in S : Rank(S, i) = Rank(S, j) => i = j
         /\ \A k \in 1..Cardinality(S) : \E i \in S : Rank(S, i) = k
<1>1. IsFiniteSet(S) /\ Cardinality(S) \in Nat
  <2>1. IsFiniteSet(1..n)
    BY FS_Interval
  <2>2. IsFiniteSet(S)
    BY <2>1, FS_Subset
  <2> QED BY <2>2, FS_CardinalityType
<1>2. ASSUME NEW i \in S
      PROVE  Rank(S, i) \in 1..Cardinality(S)
  <2> DEFINE U == {j \in S : j <= i}
  <2>1. U \in SUBSET S /\ U # {}
    OBVIOUS
  <2>2. IsFiniteSet(U) /\ Cardinality(U) <= Cardinality(S) /\ Cardinality(U) \in Nat
    BY <1>1, <2>1, FS_Subset, FS_CardinalityType
  <2>3. Cardinality(U) # 0
    BY <2>1, <2>2, FS_EmptySet
  <2> QED
    BY <1>1, <2>2, <2>3 DEF Rank
<1>3. ASSUME NEW i \in S, NEW j \in S, i < j
      PROVE  Rank(S, i) # Rank(S, j)
  <2> DEFINE U == {h \in S : h <= i}
             V == {h \in S : h <= j}
  <2>1. i \in Nat /\ j \in Nat /\ \A h \in S : h \in Nat
    OBVIOUS
  <2>2. \A h \in S : h <= i => h <= j
    BY <1>3, <2>1
  <2>3. j <= j /\ ~(j <= i)
    BY <1>3, <2>1
  <2>4. U \in SUBSET V /\ V \in SUBSET S /\ j \in V /\ j \notin U
    BY <2>2, <2>3
  <2>5. IsFiniteSet(V)
    BY <1>1, <2>4, FS_Subset
  <2>6. Cardinality(V) # Cardinality(U)
    BY <2>4, <2>5, FS_Subset
  <2> QED
    BY <2>6 DEF Rank
<1>4. ASSUME NEW i \in S, NEW j \in S, Rank(S, i) = Rank(S, j)
      PROVE  i = j
  BY <1>3, <1>4
<1>5. ASSUME NEW k \in 1..Cardinality(S)
      PROVE  \E i \in S : Rank(S, i) = k
  <2> DEFINE f == [i \in S |-> Rank(S, i)]
  <2>1. f \in Injection(S, 1..Cardinality(S))
    BY <1>2, <1>4 DEF Injection, IsInjective
  <2>2. IsFiniteSet(1..Cardinality(S)) /\ Cardinality(1..Cardinality(S)) = Cardinality(S)
    BY <1>1, FS_Interval
  <2>3. f \in Surjection(S, 1..Cardinality(S))
    BY <2>1, <2>2, FS_Injection
  <2> QED
    BY <2>3 DEF Surjection
<1> QED
  BY <1>1, <1>2, <1>4, <1>5

(* What is kept of a list is what stands at the positions.                 *)
LEMMA KeptIs ==
  ASSUME NEW T, NEW list \in Seq(T), NEW S \in SUBSET DOMAIN list
  PROVE  /\ Kept(list, S) \in Seq(T)
         /\ \A k \in DOMAIN Kept(list, S) :
              \E i \in S : Rank(S, i) = k /\ Kept(list, S)[k] = list[i]
         /\ \A i \in S : \E k \in DOMAIN Kept(list, S) : Kept(list, S)[k] = list[i]
<1>1. Len(list) \in Nat /\ S \in SUBSET (1..Len(list)) /\ \A i \in S : list[i] \in T
  OBVIOUS
<1>2. /\ Cardinality(S) \in Nat
      /\ \A i \in S : Rank(S, i) \in 1..Cardinality(S)
      /\ \A i, j \in S : Rank(S, i) = Rank(S, j) => i = j
      /\ \A k \in 1..Cardinality(S) : \E i \in S : Rank(S, i) = k
  BY <1>1, RankIsPosition
<1> DEFINE at(k) == CHOOSE i \in S : Rank(S, i) = k
           q == Kept(list, S)
<1>3. \A k \in 1..Cardinality(S) : at(k) \in S /\ Rank(S, at(k)) = k
  BY <1>2
<1>4. q = [k \in 1..Cardinality(S) |-> list[at(k)]]
  BY DEF Kept
<1> HIDE DEF at, q
<1>5. q \in [1..Cardinality(S) -> T]
  BY <1>1, <1>3, <1>4
<1>6. q \in Seq(T) /\ DOMAIN q = 1..Cardinality(S)
  BY <1>2, <1>5
<1>7. \A k \in DOMAIN q : \E i \in S : Rank(S, i) = k /\ q[k] = list[i]
  BY <1>3, <1>4, <1>6
<1>8. ASSUME NEW i \in S
      PROVE  \E k \in DOMAIN q : q[k] = list[i]
  <2>1. Rank(S, i) \in DOMAIN q /\ at(Rank(S, i)) = i
    BY <1>2, <1>3, <1>6
  <2> QED
    BY <1>4, <1>6, <2>1
<1> QED
  BY <1>6, <1>7, <1>8 DEF q

(* The first mentions of a list's symbols hold each of them once.          *)
LEMMA UniqIs ==
  ASSUME NEW T, NEW list \in Seq(T)
  PROVE  /\ Uniq(list) \in Seq(T)
         /\ ToSet(Uniq(list)) = ToSet(list)
         /\ \A i, j \in DOMAIN Uniq(list) : Uniq(list)[i] = Uniq(list)[j] => i = j
<1> DEFINE S == {i \in DOMAIN list : \A j \in 1..(i - 1) : list[j] # list[i]}
           q == Uniq(list)
<1>1. q = Kept(list, S) /\ S \in SUBSET DOMAIN list
  BY DEF Uniq
<1>2. DOMAIN list = 1..Len(list) /\ Len(list) \in Nat
  OBVIOUS
<1> HIDE DEF S, q
<1>3. /\ q \in Seq(T)
      /\ \A k \in DOMAIN q : \E i \in S : Rank(S, i) = k /\ q[k] = list[i]
      /\ \A i \in S : \E k \in DOMAIN q : q[k] = list[i]
  BY <1>1, KeptIs
<1>4. ASSUME NEW i \in S, NEW j \in S, list[i] = list[j]
      PROVE  i = j
  <2>1. i \in Nat \ {0} /\ j \in Nat \ {0}
    BY <1>2 DEF S
  <2>2. ~(i < j)
    <3>1. SUFFICES ASSUME i < j PROVE FALSE
      OBVIOUS
    <3>2. i \in 1..(j - 1)
      BY <2>1, <3>1
    <3> QED BY <1>4, <3>2 DEF S
  <2>3. ~(j < i)
    <3>1. SUFFICES ASSUME j < i PROVE FALSE
      OBVIOUS
    <3>2. j \in 1..(i - 1)
      BY <2>1, <3>1
    <3> QED BY <1>4, <3>2 DEF S
  <2> QED BY <2>1, <2>2, <2>3
<1>5. ASSUME NEW i \in DOMAIN list
      PROVE  \E j \in S : list[j] = list[i]
  <2> DEFINE M == {j \in DOMAIN list : list[j] = list[i]}
  <2>1. M \in SUBSET Nat /\ M # {}
    BY <1>2
  <2>2. PICK j \in M : \A y \in M : j <= y
    BY <2>1, LeastExists
  <2>3. ASSUME NEW h \in 1..(j - 1) PROVE list[h] # list[j]
    <3>1. j \in 1..Len(list) /\ h \in DOMAIN list /\ h \in Nat /\ ~(j <= h)
      BY <1>2
    <3> QED BY <2>2, <3>1
  <2> QED BY <2>3 DEF S
<1>6. ToSet(q) = ToSet(list)
  <2>1. ASSUME NEW x \in ToSet(q) PROVE x \in ToSet(list)
    BY <1>1, <1>3 DEF ToSet
  <2>2. ASSUME NEW x \in ToSet(list) PROVE x \in ToSet(q)
    BY <1>3, <1>5 DEF ToSet
  <2> QED BY <2>1, <2>2
<1>7. \A i, j \in DOMAIN q : q[i] = q[j] => i = j
  <2> SUFFICES ASSUME NEW i \in DOMAIN q, NEW j \in DOMAIN q, q[i] = q[j]
               PROVE  i = j
    OBVIOUS
  <2>1. PICK a \in S : Rank(S, a) = i /\ q[i] = list[a]
    BY <1>3
  <2>2. PICK b \in S : Rank(S, b) = j /\ q[j] = list[b]
    BY <1>3
  <2>3. a = b
    BY <1>4, <2>1, <2>2
  <2> QED BY <2>1, <2>2, <2>3
<1> QED
  BY <1>3, <1>6, <1>7 DEF q

(* The tokens of a --symbols value, without the empty ones and in capitals,*)
(* are the symbols it names.                                               *)
LEMMA TokensAre ==
  ASSUME NEW value \in BoundedSeq(Token, MaxTokens)
  PROVE  /\ toupper(split_csv(value)) \in Seq(Symbol)
         /\ ToSet(toupper(split_csv(value))) =
              {s \in Symbol : \E i \in DOMAIN value : value[i] # <<>> /\ value[i][1] = s}
<1> DEFINE S == {i \in DOMAIN value : value[i] # <<>>}
           q == split_csv(value)
           u == toupper(q)
<1>1. value \in Seq(Token)
  <2>1. PICK m \in 0..MaxTokens : value \in [1..m -> Token]
    BY DEF BoundedSeq, SeqOf
  <2>2. m \in Nat
    BY ConfigAssumption
  <2> QED BY <2>1, <2>2
<1>2. q = Kept(value, S) /\ S \in SUBSET DOMAIN value
  BY DEF split_csv
<1>3. \A i \in S : i \in DOMAIN value /\ value[i] # <<>>
  OBVIOUS
<1> HIDE DEF S, q
<1>4. /\ q \in Seq(Token)
      /\ \A k \in DOMAIN q : \E i \in S : q[k] = value[i]
      /\ \A i \in S : \E k \in DOMAIN q : q[k] = value[i]
  BY <1>1, <1>2, KeptIs
<1>5. \A i \in S : value[i] \in Symbol \X {"upper", "lower"}
  BY <1>1, <1>3 DEF Token
<1>6. \A k \in DOMAIN q : q[k][1] \in Symbol
  BY <1>4, <1>5
<1>7. u = [k \in DOMAIN q |-> q[k][1]] /\ DOMAIN q = 1..Len(q) /\ Len(q) \in Nat
  BY <1>4 DEF toupper
<1> HIDE DEF u
<1>8. u \in Seq(Symbol) /\ DOMAIN u = DOMAIN q
  BY <1>6, <1>7
<1>9. ToSet(u) = {s \in Symbol : \E i \in DOMAIN value : value[i] # <<>> /\ value[i][1] = s}
  <2>1. ASSUME NEW x \in ToSet(u)
        PROVE  x \in Symbol /\ \E i \in DOMAIN value : value[i] # <<>> /\ value[i][1] = x
    <3>1. PICK k \in DOMAIN q : x = q[k][1]
      BY <1>7, <1>8 DEF ToSet
    <3>2. PICK i \in S : q[k] = value[i]
      BY <1>4
    <3> QED BY <1>3, <1>6, <3>1, <3>2
  <2>2. ASSUME NEW x \in Symbol, NEW i \in DOMAIN value, value[i] # <<>>, value[i][1] = x
        PROVE  x \in ToSet(u)
    <3>1. i \in S
      BY <2>2 DEF S
    <3>2. PICK k \in DOMAIN q : q[k] = value[i]
      BY <1>4, <3>1
    <3> QED BY <1>7, <1>8, <2>2, <3>2 DEF ToSet
  <2> QED BY <2>1, <2>2
<1> QED
  BY <1>8, <1>9 DEF u, q

-----------------------------------------------------------------------------
(* Dealing the symbols out.                                                *)

(* Division with remainder.                                                *)
LEMMA DivMod ==
  ASSUME NEW a \in Nat, NEW c \in Nat \ {0}
  PROVE  /\ a \div c \in Nat /\ a % c \in 0..(c - 1)
         /\ a = c * (a \div c) + (a % c)
OBVIOUS

(* Quotient and remainder are determined by the number.                    *)
LEMMA DivModUnique ==
  ASSUME NEW c \in Nat \ {0}, NEW q \in Nat, NEW r \in 0..(c - 1)
  PROVE  (c * q + r) \div c = q /\ (c * q + r) % c = r
OBVIOUS

(* Division is monotonic.                                                  *)
LEMMA DivMonotonic ==
  ASSUME NEW c \in Nat \ {0}, NEW a \in Nat, NEW b \in Nat, a <= b
  PROVE  a \div c <= b \div c
OBVIOUS

(* The positions of shard s when L symbols are dealt out to c shards.      *)
Group(L, c, s) == {i \in 1..L : (i - 1) % c = s - 1}

(* max_symbols_per_shard.                                                  *)
PerShard(L, c) == (L + c - 1) \div c

(* Rounding up is one more than dividing the number before.                *)
LEMMA PerShardIs ==
  ASSUME NEW L \in Nat \ {0}, NEW c \in Nat \ {0}
  PROVE  PerShard(L, c) = ((L - 1) \div c) + 1 /\ PerShard(L, c) \in Nat \ {0}
<1> DEFINE q == (L - 1) \div c
           r == (L - 1) % c
<1>1. q \in Nat /\ r \in 0..(c - 1) /\ L - 1 = c * q + r
  <2>1. L - 1 \in Nat
    OBVIOUS
  <2> QED BY <2>1, DivMod, Zenon
<1> HIDE DEF q, r
<1>2. L + c - 1 = c * (q + 1) + r
  BY <1>1
<1>3. (L + c - 1) \div c = q + 1
  BY <1>1, <1>2, DivModUnique
<1> QED
  BY <1>1, <1>3 DEF PerShard, q

(* No shard is empty and none gets more than PerShard; the first gets that *)
(* many.                                                                   *)
LEMMA GroupSizes ==
  ASSUME NEW L \in Nat \ {0}, NEW c \in 1..L, NEW s \in 1..c
  PROVE  /\ IsFiniteSet(Group(L, c, s)) /\ Cardinality(Group(L, c, s)) \in Nat
         /\ s \in Group(L, c, s)
         /\ Cardinality(Group(L, c, s)) <= PerShard(L, c)
         /\ s = 1 => Cardinality(Group(L, c, s)) = PerShard(L, c)
<1> DEFINE G == Group(L, c, s)
           m == PerShard(L, c)
<1>1. c \in Nat \ {0} /\ s \in Nat \ {0} /\ s <= c /\ c <= L
  OBVIOUS
<1>2. m = ((L - 1) \div c) + 1 /\ m \in Nat \ {0}
  BY <1>1, PerShardIs
<1>3. \A i : i \in G <=> i \in 1..L /\ (i - 1) % c = s - 1
  BY DEF Group
<1> HIDE DEF G, m
<1>4. IsFiniteSet(G) /\ Cardinality(G) \in Nat
  <2>1. G \in SUBSET (1..L)
    BY <1>3
  <2>2. IsFiniteSet(1..L)
    BY FS_Interval
  <2>3. IsFiniteSet(G)
    BY <2>1, <2>2, FS_Subset
  <2> QED BY <2>3, FS_CardinalityType
<1>5. s \in G
  <2>1. (c * 0 + (s - 1)) % c = s - 1
    BY <1>1, DivModUnique
  <2>2. (s - 1) % c = s - 1
    BY <1>1, <2>1
  <2> QED BY <1>1, <1>3, <2>2
<1>6. Cardinality(G) <= m
  <2> DEFINE f == [i \in G |-> ((i - 1) \div c) + 1]
  <2>1. ASSUME NEW i \in G
        PROVE  /\ i - 1 \in Nat /\ (i - 1) \div c \in Nat
               /\ i - 1 = c * ((i - 1) \div c) + (s - 1)
               /\ ((i - 1) \div c) + 1 \in 1..m
    <3>1. i \in 1..L /\ i - 1 \in Nat /\ L - 1 \in Nat /\ i - 1 <= L - 1
      BY <1>3
    <3>2. (i - 1) \div c \in Nat /\ i - 1 = c * ((i - 1) \div c) + (s - 1)
      <4>1. (i - 1) \div c \in Nat /\ i - 1 = c * ((i - 1) \div c) + ((i - 1) % c)
        BY <1>1, <3>1, DivMod, Zenon
      <4>2. (i - 1) % c = s - 1
        BY <1>3
      <4> QED BY <4>1, <4>2, Zenon
    <3>3. (i - 1) \div c <= (L - 1) \div c /\ (L - 1) \div c \in Nat
      BY <1>1, <3>1, DivMonotonic, DivMod
    <3> QED BY <1>2, <3>1, <3>2, <3>3
  <2>2. f \in [G -> 1..m]
    BY <2>1
  <2>3. ASSUME NEW i \in G, NEW j \in G, f[i] = f[j]
        PROVE  i = j
    <3>1. (i - 1) \div c = (j - 1) \div c
      BY <2>1, <2>3
    <3>2. i - 1 = j - 1
      BY <2>1, <3>1
    <3>3. i \in Nat /\ j \in Nat
      BY <1>3
    <3> QED BY <3>2, <3>3
  <2>4. f \in Injection(G, 1..m)
    BY <2>2, <2>3 DEF Injection, IsInjective
  <2>5. IsFiniteSet(1..m) /\ Cardinality(1..m) = m
    BY <1>2, FS_Interval
  <2> HIDE DEF f
  <2> QED BY <2>4, <2>5, FS_Injection
<1>7. ASSUME s = 1 PROVE m <= Cardinality(G)
  <2> DEFINE g == [k \in 1..m |-> c * (k - 1) + 1]
  <2>1. ASSUME NEW k \in 1..m PROVE c * (k - 1) + 1 \in G
    <3> DEFINE q == (L - 1) \div c
    <3>1. q \in Nat /\ (L - 1) % c \in Nat /\ L - 1 = c * q + ((L - 1) % c)
      <4>1. L - 1 \in Nat
        OBVIOUS
      <4>2. /\ q \in Nat /\ (L - 1) % c \in 0..(c - 1)
            /\ L - 1 = c * q + ((L - 1) % c)
        BY <1>1, <4>1, DivMod, Zenon
      <4>3. \A x \in 0..(c - 1) : x \in Nat
        BY <1>1
      <4> QED BY <4>2, <4>3, Zenon
    <3>2. k - 1 \in Nat /\ k - 1 <= q
      BY <1>2, <3>1
    <3> HIDE DEF q
    <3>3. c * (k - 1) <= c * q /\ c * (k - 1) \in Nat /\ c * q \in Nat
      BY <1>1, <3>1, <3>2
    <3>4. c * (k - 1) + 1 \in 1..L
      <4> DEFINE x == c * (k - 1)
                 y == c * q
                 z == (L - 1) % c
      <4>1. x <= y /\ x \in Nat /\ y \in Nat /\ z \in Nat /\ L - 1 = y + z
        BY <3>1, <3>3
      <4> HIDE DEF x, y, z
      <4>2. x + 1 \in 1..L
        BY <4>1
      <4> QED BY <4>2 DEF x
    <3>5. (c * (k - 1) + 0) % c = 0
      BY <1>1, <3>2, DivModUnique
    <3>6. (c * (k - 1) + 1) - 1 = c * (k - 1) + 0
      BY <3>3
    <3> QED BY <1>3, <1>7, <3>4, <3>5, <3>6
  <2>2. g \in [1..m -> G]
    BY <2>1
  <2>3. ASSUME NEW i \in 1..m, NEW j \in 1..m, g[i] = g[j]
        PROVE  i = j
    <3>1. c * (i - 1) + 1 = c * (j - 1) + 1 /\ i - 1 \in Nat /\ j - 1 \in Nat
      BY <2>3
    <3>2. c * (i - 1) + 0 = c * (j - 1) + 0
      BY <1>1, <3>1
    <3>3. i - 1 = j - 1
      BY <1>1, <3>1, <3>2, DivModUnique
    <3> QED BY <3>3
  <2>4. g \in Injection(1..m, G)
    BY <2>2, <2>3 DEF Injection, IsInjective
  <2>5. IsFiniteSet(1..m) /\ Cardinality(1..m) = m
    BY <1>2, FS_Interval
  <2> HIDE DEF g
  <2> QED BY <1>4, <2>4, <2>5, FS_Injection
<1> QED
  BY <1>2, <1>4, <1>5, <1>6, <1>7 DEF G, m

(* Three streams for each symbol.                                          *)
LEMMA StreamsOf ==
  ASSUME NEW G, IsFiniteSet(G), Cardinality(G) \in Nat
  PROVE  Cardinality(combined_streams(G)) = Cardinality(G) * KStreamsPerSymbol
<1>1. IsFiniteSet({"depth"}) /\ Cardinality({"depth"}) = 1
  BY FS_Singleton
<1>2. IsFiniteSet({"depth", "depth5"}) /\ Cardinality({"depth", "depth5"}) = 2
  <2>1. {"depth", "depth5"} = {"depth"} \cup {"depth5"} /\ "depth5" \notin {"depth"}
    OBVIOUS
  <2>2. /\ IsFiniteSet({"depth"} \cup {"depth5"})
        /\ Cardinality({"depth"} \cup {"depth5"}) = Cardinality({"depth"}) + 1
    BY <1>1, <2>1, FS_AddElement, Zenon
  <2> QED BY <1>1, <2>1, <2>2
<1>3. /\ IsFiniteSet({"depth", "depth5", "trade"})
      /\ Cardinality({"depth", "depth5", "trade"}) = 3
  <2>1. /\ {"depth", "depth5", "trade"} = {"depth", "depth5"} \cup {"trade"}
        /\ "trade" \notin {"depth", "depth5"}
    OBVIOUS
  <2>2. /\ IsFiniteSet({"depth", "depth5"} \cup {"trade"})
        /\ Cardinality({"depth", "depth5"} \cup {"trade"}) = Cardinality({"depth", "depth5"}) + 1
    BY <1>2, <2>1, FS_AddElement, Zenon
  <2> QED BY <1>2, <2>1, <2>2
<1> QED
  BY <1>3, FS_Product DEF combined_streams, KStreamsPerSymbol

-----------------------------------------------------------------------------
(* from_args.                                                              *)

(* The symbols are those asked for, and once from_args has accepted a      *)
(* capture or refused it for its streams they are distinct and were        *)
(* counted.  ShardsFit does not say enough for a step: it holds of no      *)
(* symbols while the arguments are read.                                   *)
CfgInv ==
  /\ symbols \in Seq(Symbol) /\ shards \in Nat \ {0}
  /\ asked = ToSet(symbols)
  /\ ~parsed => err = "none"
  /\ parsed /\ ~replay /\ err \notin {"usage", "help"} =>
       /\ symbols # <<>> /\ IsInjective(symbols)
       /\ err = "none" => ~TooManyStreams(symbols)
       /\ err = "streams" => TooManyStreams(symbols)

(* Nothing is asked for before the arguments are read.                     *)
LEMMA CfgInit == ConfigInit => CfgInv
<1> SUFFICES ASSUME ConfigInit PROVE CfgInv
  OBVIOUS
<1>1. symbols = <<>> /\ shards = 1 /\ err = "none" /\ ~parsed /\ asked = {}
  BY DEF ConfigInit
<1>2. symbols \in Seq(Symbol) /\ ToSet(symbols) = {}
  BY <1>1 DEF ToSet
<1> QED
  BY <1>1, <1>2 DEF CfgInv

(* Every argument keeps the invariant, and so does the end of from_args.   *)
LEMMA CfgStep == CfgInv /\ (ConfigNext \/ UNCHANGED configVars) => CfgInv'
<1> SUFFICES ASSUME CfgInv, ConfigNext \/ UNCHANGED configVars PROVE CfgInv'
  OBVIOUS
<1>1. CASE ArgSymbols
  <2>1. PICK value \in BoundedSeq(Token, MaxTokens) :
          /\ symbols' = toupper(split_csv(value))
          /\ asked' = {s \in Symbol : \E i \in DOMAIN value : value[i] # <<>> /\ value[i][1] = s}
    BY <1>1 DEF ArgSymbols
  <2>2. symbols' \in Seq(Symbol) /\ asked' = ToSet(symbols)'
    BY <2>1, TokensAre
  <2> QED BY <1>1, <2>2 DEF ArgSymbols, NextArg, CfgInv
<1>2. CASE ArgShards
  <2>1. shards' \in Nat \ {0}
    <3>1. PICK v \in ShardArgs : shards' = IF v < 1 THEN 1 ELSE v
      BY <1>2 DEF ArgShards
    <3> QED BY <3>1, ConfigAssumption
  <2> QED BY <1>2, <2>1 DEF ArgShards, NextArg, CfgInv
<1>3. CASE ArgReplay
  BY <1>3 DEF ArgReplay, NextArg, CfgInv
<1>4. CASE ArgStops
  BY <1>4 DEF ArgStops, NextArg, CfgInv
<1>5. CASE ArgsEnd
  <2>1. /\ symbols' = Uniq(symbols) /\ parsed' /\ UNCHANGED <<shards, replay, asked>>
        /\ err' = IF replay THEN "none"
                  ELSE IF symbols' = <<>> THEN "usage"
                  ELSE IF TooManyStreams(symbols') THEN "streams"
                  ELSE "none"
    BY <1>5 DEF ArgsEnd
  <2>2. symbols' \in Seq(Symbol) /\ ToSet(symbols)' = ToSet(symbols) /\ IsInjective(symbols)'
    BY <2>1, UniqIs DEF CfgInv, IsInjective
  <2>3. TooManyStreams(symbols') <=> TooManyStreams(symbols)'
    BY <2>1 DEF TooManyStreams
  <2> QED BY <2>1, <2>2, <2>3 DEF CfgInv
<1>6. CASE UNCHANGED configVars
  <2>1. UNCHANGED <<symbols, shards, replay, err, parsed, asked>>
    BY <1>6 DEF configVars
  <2> QED BY <2>1 DEF CfgInv, TooManyStreams
<1> QED
  BY <1>1, <1>2, <1>3, <1>4, <1>5, <1>6 DEF ConfigNext

(* The smaller of two numbers, and the larger one.                         *)
LEMMA MinMaxOf ==
  ASSUME NEW a \in Nat, NEW b \in Nat
  PROVE  /\ Min({a, b}) = IF a <= b THEN a ELSE b
         /\ Max({a, b}) = IF a <= b THEN b ELSE a
BY DEF Min, Max

(* The check of from_args and shard_symbols agree on the number of shards. *)
LEMMA ShardCountIs ==
  ASSUME CfgInv
  PROVE  /\ ShardCount \in Nat \ {0}
         /\ symbols # <<>> =>
              /\ Len(symbols) \in Nat \ {0} /\ ShardCount \in 1..Len(symbols)
              /\ Min({Len(symbols), shards}) = ShardCount
<1>1. Len(symbols) \in Nat /\ shards \in Nat \ {0} /\ (symbols # <<>> => Len(symbols) # 0)
  BY DEF CfgInv
<1>2. Max({1, Len(symbols)}) = IF 1 <= Len(symbols) THEN Len(symbols) ELSE 1
  BY <1>1, MinMaxOf
<1>3. Min({Len(symbols), shards}) = IF Len(symbols) <= shards THEN Len(symbols) ELSE shards
  BY <1>1, MinMaxOf
<1> QED
  BY <1>1, <1>2, <1>3 DEF ShardCount

(* What from_args accepts can be captured, and what it refuses for its     *)
(* streams could not.                                                      *)
LEMMA CfgFits == CfgInv => ShardsFit
<1> SUFFICES ASSUME CfgInv, parsed, ~replay, err \in {"none", "streams"}
             PROVE  ShardsFit
  BY DEF ShardsFit
<1> DEFINE L == Len(symbols)
           c == ShardCount
           Fits(s) == Cardinality(combined_streams(shard_symbols[s])) <= KMaxCombinedStreams
<1>1. /\ symbols \in Seq(Symbol) /\ asked = ToSet(symbols)
      /\ symbols # <<>> /\ IsInjective(symbols)
      /\ err = "none" => ~TooManyStreams(symbols)
      /\ err = "streams" => TooManyStreams(symbols)
  BY DEF CfgInv
<1>2. L \in Nat \ {0} /\ c \in 1..L /\ Min({L, shards}) = c /\ DOMAIN symbols = 1..L
  BY <1>1, ShardCountIs
<1>3. TooManyStreams(symbols) <=> PerShard(L, c) * KStreamsPerSymbol > KMaxCombinedStreams
  BY <1>2 DEF TooManyStreams, PerShard
<1>4. \A s \in 1..c : shard_symbols[s] = Group(L, c, s)
  BY <1>2 DEF shard_symbols, Group
<1>5. PerShard(L, c) \in Nat /\ KMaxCombinedStreams \in Nat
  BY <1>2, PerShardIs, ConfigAssumption
<1> HIDE DEF L, c
<1>6. ASSUME NEW s \in 1..c
      PROVE  /\ shard_symbols[s] # {}
             /\ PerShard(L, c) * KStreamsPerSymbol <= KMaxCombinedStreams => Fits(s)
             /\ s = 1 /\ Fits(s) => PerShard(L, c) * KStreamsPerSymbol <= KMaxCombinedStreams
  <2> DEFINE n == Cardinality(Group(L, c, s))
             m == PerShard(L, c)
  <2>1. /\ IsFiniteSet(Group(L, c, s)) /\ n \in Nat /\ s \in Group(L, c, s)
        /\ n <= m /\ (s = 1 => n = m)
    BY <1>2, GroupSizes
  <2>2. Cardinality(combined_streams(shard_symbols[s])) = n * KStreamsPerSymbol
    BY <1>4, <2>1, StreamsOf
  <2>3. m \in Nat
    BY <1>5
  <2>4. shard_symbols[s] # {}
    BY <1>4, <2>1
  <2> HIDE DEF n, m
  <2>5. n * KStreamsPerSymbol <= m * KStreamsPerSymbol
    BY <2>1, <2>3 DEF KStreamsPerSymbol
  <2>6. m * KStreamsPerSymbol <= KMaxCombinedStreams => Fits(s)
    BY <1>5, <2>1, <2>2, <2>3, <2>5 DEF KStreamsPerSymbol
  <2>7. s = 1 /\ Fits(s) => m * KStreamsPerSymbol <= KMaxCombinedStreams
    BY <2>1, <2>2
  <2> QED BY <2>4, <2>6, <2>7 DEF m
<1>7. ASSUME NEW sym \in asked
      PROVE  Cardinality({p \in (1..c) \X DOMAIN symbols :
                            p[2] \in shard_symbols[p[1]] /\ symbols[p[2]] = sym}) = 1
  <2> DEFINE P == {p \in (1..c) \X DOMAIN symbols :
                     p[2] \in shard_symbols[p[1]] /\ symbols[p[2]] = sym}
  <2>1. PICK i \in 1..L : symbols[i] = sym
    BY <1>1, <1>2 DEF ToSet
  <2>2. \A j \in DOMAIN symbols : symbols[j] = sym => j = i
    BY <1>1, <1>2, <2>1 DEF IsInjective
  <2> DEFINE s == ((i - 1) % c) + 1
  <2>3. s \in 1..c /\ s - 1 = (i - 1) % c
    <3>1. i - 1 \in Nat /\ c \in Nat \ {0}
      BY <1>2
    <3>2. (i - 1) % c \in 0..(c - 1)
      BY <3>1, DivMod, Zenon
    <3> QED BY <3>1, <3>2
  <2> HIDE DEF s
  <2>4. i \in shard_symbols[s]
    BY <1>4, <2>3 DEF Group
  <2>5. ASSUME NEW t \in 1..c, i \in shard_symbols[t]
        PROVE  t = s
    <3>1. (i - 1) % c = t - 1
      BY <1>4, <2>5 DEF Group
    <3>2. t - 1 = s - 1 /\ t \in Int /\ s \in Int
      BY <2>3, <3>1
    <3> QED BY <3>2
  <2>6. P = {<<s, i>>}
    <3>1. <<s, i>> \in P
      BY <1>2, <2>1, <2>3, <2>4
    <3>2. ASSUME NEW p \in P PROVE p = <<s, i>>
      <4>1. p[1] \in 1..c /\ p[2] = i /\ i \in shard_symbols[p[1]] /\ p = <<p[1], p[2]>>
        BY <2>2
      <4> QED BY <2>5, <4>1
    <3> QED BY <3>1, <3>2
  <2> QED BY <2>6, FS_Singleton
<1>8. err = "none" => \A s \in 1..c : shard_symbols[s] # {} /\ Fits(s)
  BY <1>1, <1>3, <1>5, <1>6 DEF KStreamsPerSymbol
<1>9. err = "streams" => \E s \in 1..c : ~Fits(s)
  <2>1. 1 \in 1..c
    BY <1>2
  <2> QED BY <1>1, <1>3, <1>5, <1>6, <2>1 DEF KStreamsPerSymbol
<1> QED
  BY <1>1, <1>7, <1>8, <1>9 DEF ShardsFit, c

-----------------------------------------------------------------------------
(* The threads.                                                            *)

(* The shards are known once the arguments are accepted.                   *)
Shards ==
  /\ pc = "args" => thread = <<>>
  /\ thread = <<>> \/ Groups = 1..ShardCount
  /\ DOMAIN rcs = Groups /\ DOMAIN disk_failed = Groups
  /\ unopened \subseteq Groups

(* What rcs[s] says at each stage of shard s.                              *)
ShardCode ==
  \A s \in Groups :
    /\ thread[s] \in {"none", "open"} => s \notin unopened /\ ~disk_failed[s]
    /\ thread[s] \in {"run", "fetch"} => s \notin unopened /\ live /\ rcs[s] = 0
    /\ thread[s] = "flush" => s \notin unopened /\ rcs[s] = IF live THEN 0 ELSE 3
    /\ thread[s] = "returned" =>
         (rcs[s] = 0 <=> live /\ s \notin unopened /\ ~disk_failed[s])

(* main goes on when every thread has returned, and returns what rcs says. *)
Joined ==
  /\ pc \in {"join_watcher", "returned"} => \A s \in Groups : thread[s] = "returned"
  /\ pc = "returned" /\ thread # <<>> => (exit_code = 0 <=> \A s \in Groups : rcs[s] = 0)

MInv ==
  /\ CfgInv
  /\ Shards
  /\ ShardCode
  /\ Joined

-----------------------------------------------------------------------------

(* The loop over rcs yields 0 exactly if every entry is 0.                 *)
LEMMA ExitRcIs ==
  ASSUME NEW n \in Nat, DOMAIN rcs = 1..n
  PROVE  exit_rc = 0 <=> \A s \in 1..n : rcs[s] = 0
<1> DEFINE failed == {s \in DOMAIN rcs : rcs[s] # 0}
<1>1. exit_rc = IF failed = {} THEN 0 ELSE rcs[Max(failed)]
  BY DEF exit_rc
<1>2. ASSUME failed # {} PROVE Max(failed) \in failed
  <2>1. failed \in SUBSET (1..n)
    OBVIOUS
  <2> HIDE DEF failed
  <2>2. \E m \in failed : \A y \in failed : m >= y
    BY <1>2, <2>1, LastExists
  <2> QED BY <2>2 DEF Max
<1>3. CASE failed = {}
  BY <1>1, <1>3
<1>4. CASE failed # {}
  <2>1. exit_rc = rcs[Max(failed)] /\ Max(failed) \in failed
    BY <1>1, <1>2, <1>4
  <2> QED BY <2>1
<1> QED BY <1>3, <1>4

(* main.                                                                   *)
LEMMA MainInv ==
  ASSUME MInv, main
  PROVE  MInv'
<1> USE DEF MInv
<1>1. CASE from_args
  <2>1. /\ pc = "args" /\ ConfigNext
        /\ UNCHANGED <<live, pc, exit_code, thread, disk_failed, rcs, unopened>>
    BY <1>1 DEF from_args, mainVars, shardVars
  <2>2. CfgInv'
    BY <2>1, CfgStep
  <2>3. thread = <<>> /\ thread' = <<>> /\ pc' = "args"
    BY <2>1 DEF Shards
  <2>4. Shards'
    BY <2>1, <2>3 DEF Shards, Groups
  <2>5. ShardCode' /\ Joined'
    BY <2>1, <2>3 DEF ShardCode, Joined, Groups
  <2> QED BY <2>2, <2>4, <2>5
<1>2. CASE ArgsRejected \/ NoOutputDir \/ ReplayMode
  <2>1. /\ pc = "args" /\ pc' = "returned"
        /\ UNCHANGED <<configVars, live, thread, disk_failed, rcs, unopened>>
    BY <1>2 DEF ArgsRejected, NoOutputDir, ReplayMode, Return, shardVars
  <2>2. CfgInv'
    BY <2>1, CfgStep
  <2>3. thread = <<>> /\ thread' = <<>> /\ Groups = {}
    BY <2>1 DEF Shards, Groups
  <2>4. Shards' /\ ShardCode' /\ Joined'
    BY <2>1, <2>3 DEF Shards, ShardCode, Joined, Groups
  <2> QED BY <2>2, <2>4
<1>3. CASE Prepare
  <2>1. /\ pc = "args" /\ pc' = "spawn" /\ UNCHANGED <<configVars, live, unopened>>
        /\ thread' = [s \in 1..ShardCount |-> "none"]
        /\ disk_failed' = [s \in 1..ShardCount |-> FALSE]
        /\ rcs' = [s \in 1..ShardCount |-> 0]
    BY <1>3 DEF Prepare
  <2>2. CfgInv' /\ ShardCount' = ShardCount
    BY <2>1, CfgStep DEF ShardCount, configVars
  <2>3. unopened' = {}
    <3>1. thread = <<>> /\ Groups = {}
      BY <2>1 DEF Shards, Groups
    <3> QED BY <2>1, <3>1 DEF Shards
  <2>4. Groups' = 1..ShardCount
    BY <2>1 DEF Groups
  <2>5. Shards'
    BY <2>1, <2>2, <2>3, <2>4 DEF Shards
  <2>6. ShardCode'
    BY <2>1, <2>3, <2>4 DEF ShardCode
  <2>7. Joined'
    BY <2>1 DEF Joined
  <2> QED BY <2>2, <2>5, <2>6, <2>7
<1>4. CASE \E s \in Groups : SpawnShard(s)
  <2>1. PICK s \in Groups : SpawnShard(s)
    BY <1>4
  <2>2. /\ pc = "spawn" /\ thread[s] = "none" /\ thread' = [thread EXCEPT ![s] = "open"]
        /\ UNCHANGED <<configVars, live, pc, exit_code, disk_failed, rcs, unopened>>
    BY <2>1 DEF SpawnShard, mainVars
  <2>3. CfgInv' /\ ShardCount' = ShardCount
    BY <2>2, CfgStep DEF ShardCount, configVars
  <2>4. Groups' = Groups /\ thread # <<>> /\ thread'[s] = "open"
        /\ \A r \in Groups : r # s => thread'[r] = thread[r]
    BY <2>2 DEF Groups
  <2>5. Shards'
    BY <2>2, <2>3, <2>4 DEF Shards
  <2>6. ShardCode'
    BY <2>2, <2>4 DEF ShardCode
  <2>7. Joined'
    BY <2>2 DEF Joined
  <2> QED BY <2>3, <2>5, <2>6, <2>7
<1>5. CASE SpawnWatcher \/ JoinShards
  <2>1. /\ UNCHANGED <<configVars, live, thread, disk_failed, rcs, unopened>>
        /\ \/ pc' = "join"
           \/ pc' = "join_watcher" /\ \A s \in Groups : thread[s] = "returned"
    BY <1>5 DEF SpawnWatcher, JoinShards, shardVars
  <2>2. CfgInv' /\ ShardCount' = ShardCount
    BY <2>1, CfgStep DEF ShardCount, configVars
  <2>3. Shards' /\ Joined'
    BY <2>1, <2>2 DEF Shards, Joined, Groups
  <2>4. ShardCode'
    BY <2>1 DEF ShardCode, Groups
  <2> QED BY <2>2, <2>3, <2>4
<1>6. CASE JoinWatcher
  <2>1. /\ UNCHANGED <<configVars, live, thread, disk_failed, rcs, unopened>>
        /\ pc = "join_watcher" /\ pc' = "returned" /\ exit_code' = exit_rc
    BY <1>6 DEF JoinWatcher, Return, shardVars
  <2>2. CfgInv' /\ ShardCount' = ShardCount /\ ShardCount \in Nat
    BY <2>1, CfgStep, ShardCountIs DEF ShardCount, configVars
  <2>3. thread # <<>> => (exit_rc = 0 <=> \A s \in Groups : rcs[s] = 0)
    BY <2>2, ExitRcIs DEF Shards
  <2>4. Shards' /\ Joined'
    BY <2>1, <2>2, <2>3 DEF Shards, Joined, Groups
  <2>5. ShardCode'
    BY <2>1 DEF ShardCode, Groups
  <2> QED BY <2>2, <2>4, <2>5
<1> QED
  BY <1>1, <1>2, <1>3, <1>4, <1>5, <1>6 DEF main

(* The signal and the watcher leave what a shard did and main's code alone.*)
LEMMA WatchInv ==
  ASSUME MInv, watch \/ on_signal \/ UNCHANGED vars
  PROVE  MInv'
<1>1. UNCHANGED <<configVars, live, pc, exit_code, thread, disk_failed, rcs, unopened>>
  BY DEF watch, WatchDone, WatchSignal, WatchStop, on_signal, vars, mainVars, shardVars
<1>2. CfgInv' /\ ShardCount' = ShardCount
  BY <1>1, CfgStep DEF MInv, ShardCount, configVars
<1>3. Shards' /\ ShardCode' /\ Joined'
  BY <1>1, <1>2 DEF MInv, Shards, ShardCode, Joined, Groups
<1> QED BY <1>2, <1>3 DEF MInv

(* run_shard of shard s.                                                   *)
LEMMA ShardInv ==
  ASSUME MInv, NEW s \in Groups,
         \/ OpenFails(s) \/ Opens(s) \/ DiskFails(s)
         \/ FetchBegins(s) \/ FetchStep(s) \/ FetchReturns(s)
         \/ DurationOver(s) \/ RunStops(s) \/ FlushAndReturn(s)
  PROVE  MInv'
<1> USE DEF MInv
<1>1. /\ UNCHANGED <<configVars, live, pc, exit_code>> /\ thread[s] # "returned"
      /\ Groups' = Groups
      /\ \A r \in Groups : r # s => thread'[r] = thread[r]
  BY DEF OpenFails, Opens, DiskFails, FetchBegins, FetchStep, FetchReturns, DurationOver,
         RunStops, FlushAndReturn, At, mainVars, Groups
<1>2. /\ DOMAIN rcs' = DOMAIN rcs /\ DOMAIN disk_failed' = DOMAIN disk_failed
      /\ unopened' \subseteq unopened \cup {s}
      /\ \A r \in Groups : r # s =>
           /\ rcs'[r] = rcs[r] /\ (disk_failed'[r] <=> disk_failed[r])
           /\ r \in unopened' <=> r \in unopened
  BY DEF Shards, OpenFails, Opens, DiskFails, FetchBegins, FetchStep, FetchReturns,
         DurationOver, RunStops, FlushAndReturn
<1>3. CfgInv' /\ ShardCount' = ShardCount
  BY <1>1, CfgStep DEF ShardCount, configVars
<1>4. pc \notin {"args", "join_watcher", "returned"} /\ thread # <<>>
  BY <1>1 DEF Joined, Shards, Groups
<1>5. Shards' /\ Joined'
  BY <1>1, <1>2, <1>3, <1>4 DEF Shards, Joined
<1>6. s \in DOMAIN rcs /\ s \in DOMAIN disk_failed /\ s \in DOMAIN thread
  BY DEF Shards, Groups
<1>7. /\ thread'[s] \in {"none", "open"} => s \notin unopened' /\ ~disk_failed'[s]
      /\ thread'[s] \in {"run", "fetch"} => s \notin unopened' /\ live /\ rcs'[s] = 0
      /\ thread'[s] = "flush" => s \notin unopened' /\ rcs'[s] = IF live THEN 0 ELSE 3
      /\ thread'[s] = "returned" =>
           (rcs'[s] = 0 <=> live /\ s \notin unopened' /\ ~disk_failed'[s])
  <2>1. CASE OpenFails(s)
    BY <1>6, <2>1 DEF OpenFails, At
  <2>2. CASE Opens(s)
    BY <1>6, <2>2 DEF Opens, At, ShardCode
  <2>3. CASE DiskFails(s)
    BY <1>6, <2>3 DEF DiskFails, ShardCode
  <2>4. CASE FetchBegins(s) \/ FetchStep(s) \/ FetchReturns(s) \/ DurationOver(s) \/ RunStops(s)
    BY <1>6, <2>4 DEF FetchBegins, FetchStep, FetchReturns, DurationOver, RunStops, At, ShardCode
  <2>5. CASE FlushAndReturn(s)
    BY <1>6, <2>5 DEF FlushAndReturn, At, ShardCode
  <2> QED BY <2>1, <2>2, <2>3, <2>4, <2>5
<1>8. ShardCode'
  BY <1>1, <1>2, <1>7 DEF ShardCode
<1> QED BY <1>3, <1>5, <1>8

-----------------------------------------------------------------------------

(* The inductive invariant of the process.                                 *)
THEOREM MainInvariant == Spec => []MInv
<1>1. Init => MInv
  <2> SUFFICES ASSUME Init PROVE MInv
    OBVIOUS
  <2>1. /\ ConfigInit /\ pc = "args"
        /\ thread = <<>> /\ disk_failed = <<>> /\ rcs = <<>> /\ unopened = {}
    BY DEF Init
  <2>2. CfgInv
    BY <2>1, CfgInit
  <2> QED
    BY <2>1, <2>2 DEF MInv, Shards, ShardCode, Joined, Groups
<1>2. MInv /\ [Next]_vars => MInv'
  BY MainInv, WatchInv, ShardInv DEF Next
<1> QED
  BY <1>1, <1>2, PTL DEF Spec

(* Every symbol that is asked for is captured once, by a connection that   *)
(* carries no more streams than the exchange permits, whatever --symbols   *)
(* and --shards are; a refusal for too many streams is justified.          *)
THEOREM EveryShardFits == Spec => []ShardsFit
<1>1. MInv => ShardsFit
  BY CfgFits DEF MInv
<1> QED
  BY <1>1, MainInvariant, PTL

(* The exit code is 0 exactly if every shard opened its files, had a real  *)
(* client and none of its writers reports an error by failed().            *)
THEOREM ExitCodeIsTrue == Spec => []ExitCodeTells
<1>1. MInv => ExitCodeTells
  <2> SUFFICES ASSUME MInv, pc = "returned", thread # <<>>
               PROVE  /\ \A s \in Groups : thread[s] = "returned"
                      /\ exit_code = 0 <=>
                           live /\ unopened = {} /\ \A s \in Groups : ~disk_failed[s]
    BY DEF ExitCodeTells
  <2>1. \A s \in Groups : thread[s] = "returned"
    BY DEF MInv, Joined
  <2>2. exit_code = 0 <=> \A s \in Groups : rcs[s] = 0
    BY DEF MInv, Joined
  <2>3. \A s \in Groups : rcs[s] = 0 <=> live /\ s \notin unopened /\ ~disk_failed[s]
    BY <2>1 DEF MInv, ShardCode
  <2>4. unopened \subseteq Groups /\ Groups # {}
    <3>1. ShardCount \in Nat \ {0} /\ Groups = 1..ShardCount
      BY ShardCountIs DEF MInv, Shards
    <3>2. 1 \in Groups
      BY <3>1
    <3> QED BY <3>2 DEF MInv, Shards
  <2> QED BY <2>1, <2>2, <2>3, <2>4
<1> QED
  BY <1>1, MainInvariant, PTL

=============================================================================
