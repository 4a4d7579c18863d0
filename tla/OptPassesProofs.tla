--------------------------- MODULE OptPassesProofs ---------------------------
(* What the optimisation passes guarantee for every arena: of any length,   *)
(* with any handlers, capabilities, loops and requested passes.  First what *)
(* sorting the side table yields, for tables of any size and any emission   *)
(* orders: the ids a pass walks, the order the encoder emits, and the table *)
(* the scheduler leaves.                                                    *)
EXTENDS PassTurnsProofs, FiniteSetTheorems

-----------------------------------------------------------------------------
(* Sorting. *)

(* before gives, for every element of S, those that precede it in a strict  *)
(* total order.                                                             *)
StrictOrder(S, before) ==
  /\ \A x \in S : before[x] \subseteq S /\ x \notin before[x]
  /\ \A x, y \in S : y \in before[x] => before[y] \subseteq before[x]
  /\ \A x, y \in S : x # y => x \in before[y] \/ y \in before[x]

(* Elements further on have more predecessors. *)
LEMMA RankIncreases ==
  ASSUME NEW S, IsFiniteSet(S), NEW before, StrictOrder(S, before)
  PROVE  /\ Cardinality(S) \in Nat
         /\ \A x \in S : Cardinality(before[x]) \in 0..(Cardinality(S) - 1)
         /\ \A x, y \in S : y \in before[x] <=> Cardinality(before[y]) < Cardinality(before[x])
<1>0. Cardinality(S) \in Nat
  BY FS_CardinalityType, Zenon
<1>1. \A x \in S : before[x] \in SUBSET S /\ x \notin before[x]
  BY Zenon DEF StrictOrder
<1>2. ASSUME NEW x \in S
      PROVE  IsFiniteSet(before[x]) /\ Cardinality(before[x]) \in 0..(Cardinality(S) - 1)
  <2>1. /\ IsFiniteSet(before[x]) /\ Cardinality(before[x]) <= Cardinality(S)
        /\ Cardinality(S) = Cardinality(before[x]) => S = before[x]
    BY <1>1, FS_Subset, Zenon
  <2>2. Cardinality(before[x]) \in Nat
    BY <2>1, FS_CardinalityType, Zenon
  <2> QED BY <1>0, <1>1, <2>1, <2>2
<1>3. ASSUME NEW x \in S, NEW y \in S, y \in before[x]
      PROVE  Cardinality(before[y]) < Cardinality(before[x])
  <2>1. before[y] \in SUBSET before[x] /\ y \notin before[y]
    BY <1>3, Zenon DEF StrictOrder
  <2>2. /\ Cardinality(before[y]) <= Cardinality(before[x])
        /\ Cardinality(before[x]) = Cardinality(before[y]) => before[x] = before[y]
    BY <1>2, <2>1, FS_Subset, Zenon
  <2> QED BY <1>2, <1>3, <2>1, <2>2
<1>4. ASSUME NEW x \in S, NEW y \in S, Cardinality(before[y]) < Cardinality(before[x])
      PROVE  y \in before[x]
  <2>1. Cardinality(before[x]) \in Nat /\ Cardinality(before[y]) \in Nat
    BY <1>2
  <2>2. x # y
    BY <1>4, <2>1
  <2>3. x \notin before[y]
    BY <1>3, <1>4, <2>1
  <2> QED BY <2>2, <2>3, Zenon DEF StrictOrder
<1> QED BY <1>0, <1>2, <1>3, <1>4

(* Sorting lists every element, once and in order.                          *)
LEMMA SortingLists ==
  ASSUME NEW S, IsFiniteSet(S), NEW before, StrictOrder(S, before)
  PROVE  /\ Cardinality(S) \in Nat
         /\ InOrder(S, before) \in [1..Cardinality(S) -> S]
         /\ \A x \in S : \E k \in 1..Cardinality(S) : InOrder(S, before)[k] = x
         /\ \A k, l \in 1..Cardinality(S) :
              k < l <=> InOrder(S, before)[k] \in before[InOrder(S, before)[l]]
<1> DEFINE N == Cardinality(S)
           rank == [x \in S |-> Cardinality(before[x])]
           s == InOrder(S, before)
<1>0. N \in Nat /\ \A x \in S : rank[x] \in 0..(N - 1)
  BY RankIncreases, Zenon
<1>1. \A x, y \in S : y \in before[x] <=> rank[y] < rank[x]
  BY RankIncreases, Zenon
<1>2. \A x, y \in S : rank[x] = rank[y] => x = y
  <2> TAKE x, y \in S
  <2>1. rank[x] \in Int /\ rank[y] \in Int
    BY <1>0
  <2> HIDE DEF rank
  <2> QED BY <1>1, <2>1, Zenon DEF StrictOrder
<1>3. rank \in Injection(S, 0..(N - 1))
  BY <1>0, <1>2, Zenon DEF Injection, IsInjective
<1>4. IsFiniteSet(0..(N - 1)) /\ Cardinality(0..(N - 1)) = N
  <2>1. IsFiniteSet(0..(N - 1)) /\ Cardinality(0..(N - 1)) = IF 0 > N - 1 THEN 0 ELSE N - 1 - 0 + 1
    <3>1. 0 \in Int /\ N - 1 \in Int
      BY <1>0
    <3> QED BY <3>1, FS_Interval, Zenon
  <2> HIDE DEF N
  <2> QED BY <1>0, <2>1
<1>5. rank \in Surjection(S, 0..(N - 1))
  <2> HIDE DEF rank
  <2> QED BY <1>3, <1>4, FS_Injection, Zenon
<1>6. \A k \in 1..N : \E x \in S : Cardinality(before[x]) = k - 1
  <2> TAKE k \in 1..N
  <2>1. k - 1 \in 0..(N - 1)
    BY <1>0
  <2>2. \E x \in S : rank[x] = k - 1
    <3> HIDE DEF rank
    <3> QED BY <1>5, <2>1, Zenon DEF Surjection
  <2> QED BY <2>2, Zenon
<1>7. \A k \in 1..N : s[k] \in S /\ rank[s[k]] = k - 1
  BY <1>6, Zenon DEF InOrder
<1>8. s \in [1..N -> S]
  <2> DEFINE at_rank(k) == CHOOSE x \in S : Cardinality(before[x]) = k - 1
  <2>1. s = [k \in 1..N |-> at_rank(k)]
    BY Zenon DEF InOrder
  <2>2. \A k \in 1..N : at_rank(k) \in S
    BY <1>6, Zenon
  <2> HIDE DEF at_rank
  <2> QED BY <2>1, <2>2, Zenon
<1> HIDE DEF s, rank, N
<1>9. \A x \in S : \E k \in 1..N : s[k] = x
  <2> TAKE x \in S
  <2>1. \A r \in 0..(N - 1) : r + 1 \in 1..N /\ r + 1 - 1 = r
    BY <1>0
  <2>2. PICK k \in 1..N : k - 1 = rank[x]
    BY <1>0, <2>1
  <2>3. s[k] \in S /\ rank[s[k]] = rank[x]
    BY <1>7, <2>2, Zenon
  <2>4. s[k] = x
    BY <1>2, <2>3, Zenon
  <2> QED BY <2>4, Zenon
<1>10. \A k, l \in 1..N : k < l <=> s[k] \in before[s[l]]
  <2> TAKE k, l \in 1..N
  <2>1. s[k] \in before[s[l]] <=> k - 1 < l - 1
    BY <1>1, <1>7, Zenon
  <2> QED BY <1>0, <2>1
<1> QED BY <1>0, <1>8, <1>9, <1>10, Zenon DEF s, N

(* There is one way to list the elements in order.                          *)
LEMMA SortingUnique ==
  ASSUME NEW S, IsFiniteSet(S), NEW before, StrictOrder(S, before),
         NEW s \in [1..Cardinality(S) -> S],
         \A k, l \in 1..Cardinality(S) : k < l => s[k] \in before[s[l]]
  PROVE  s = InOrder(S, before)
<1> DEFINE N == Cardinality(S)
<1>0. /\ N \in Nat
      /\ \A x \in S : Cardinality(before[x]) \in Nat /\ before[x] \subseteq S /\ x \notin before[x]
      /\ \A x, y \in S : y \in before[x] <=> Cardinality(before[y]) < Cardinality(before[x])
  BY RankIncreases DEF StrictOrder
<1>1. \A x, y \in S : Cardinality(before[x]) = Cardinality(before[y]) => x = y
  BY <1>0, Zenon DEF StrictOrder
<1>2. \A k, l \in 1..N : s[k] = s[l] => k = l
  <2> SUFFICES ASSUME NEW k \in 1..N, NEW l \in 1..N, s[k] = s[l], k < l PROVE FALSE
    BY <1>0
  <2> QED BY <1>0, Zenon
<1>3. \A y \in S : \E j \in 1..N : s[j] = y
  <2>1. s \in Injection(1..N, S)
    BY <1>2, Zenon DEF Injection, IsInjective
  <2>2. Cardinality(1..N) = N
    <3>1. Cardinality(1..N) = IF 1 > N THEN 0 ELSE N - 1 + 1
      BY <1>0, FS_Interval, SMTT(30)
    <3> HIDE DEF N
    <3> QED BY <1>0, <3>1
  <2>3. s \in Surjection(1..N, S)
    BY <2>1, <2>2, FS_Injection, Zenon
  <2> QED BY <2>3, Zenon DEF Surjection
<1> HIDE DEF N
<1>4. ASSUME NEW k \in 1..N
      PROVE  Cardinality(before[s[k]]) = k - 1
  <2> DEFINE B == before[s[k]]
             g == [j \in 1..(k - 1) |-> s[j]]
  <2>0. s[k] \in S /\ k - 1 \in Nat /\ \A j \in 1..(k - 1) : j \in 1..N /\ j < k
    BY <1>0 DEF N
  <2>1. \A j \in 1..(k - 1) : s[j] \in B
    BY <2>0, Zenon DEF N
  <2>2. \A y \in B : \E j \in 1..(k - 1) : s[j] = y
    <3> TAKE y \in B
    <3>1. PICK j \in 1..N : s[j] = y
      BY <1>0, <1>3, <2>0, Zenon
    <3>2. j # k
      BY <1>0, <2>0, <3>1, Zenon
    <3>3. ~ (k < j)
      <4> SUFFICES ASSUME k < j PROVE FALSE
        BY Zenon
      <4>1. s[k] \in before[y] /\ y \in S
        BY <1>0, <2>0, <3>1, Zenon DEF N
      <4>2. Cardinality(before[s[k]]) < Cardinality(before[y])
        BY <1>0, <2>0, <4>1, Zenon
      <4>3. Cardinality(before[y]) < Cardinality(before[s[k]])
        BY <1>0, <2>0, <4>1, Zenon
      <4> QED BY <1>0, <2>0, <4>1, <4>2, <4>3, SMTT(30)
    <3>4. j \in 1..(k - 1)
      BY <1>0, <3>2, <3>3
    <3> QED BY <3>1, <3>4, Zenon
  <2>3. g \in Bijection(1..(k - 1), B)
    <3>1. g \in [1..(k - 1) -> B]
      BY <2>1, Zenon
    <3>2. \A a, b \in 1..(k - 1) : g[a] = g[b] => a = b
      BY <1>2, <2>0, Zenon
    <3>3. \A y \in B : \E j \in 1..(k - 1) : g[j] = y
      BY <2>2, Zenon
    <3> HIDE DEF g, B
    <3> QED BY <3>1, <3>2, <3>3, Zenon DEF Bijection, Injection, IsInjective, Surjection
  <2>4. ExistsBijection(1..(k - 1), B)
    BY <2>3, Zenon DEF ExistsBijection
  <2> QED BY <2>0, <2>4, FS_CountingElements, Zenon
<1>5. \A k \in 1..N : s[k] = CHOOSE x \in S : Cardinality(before[x]) = k - 1
  <2> TAKE k \in 1..N
  <2>1. s[k] \in S /\ Cardinality(before[s[k]]) = k - 1
    BY <1>4, Zenon DEF N
  <2>2. \A x \in S : Cardinality(before[x]) = k - 1 => x = s[k]
    BY <1>1, <2>1, Zenon
  <2> QED BY <2>1, <2>2, Zenon
<1> QED BY <1>5, Zenon DEF InOrder, N

-----------------------------------------------------------------------------
(* The side table. *)

LEMMA SmallerOrders ==
  ASSUME NEW S, S \subseteq Nat
  PROVE  StrictOrder(S, Smaller(S))
<1> DEFINE B == Smaller(S)
<1>1. \A x \in S : B[x] = {y \in S : y < x}
  BY Zenon DEF Smaller
<1> HIDE DEF B
<1>2. \A x \in S : x \in Nat
  BY Zenon
<1>3. \A x \in S : B[x] \subseteq S /\ x \notin B[x]
  <2> TAKE x \in S
  <2>1. B[x] = {y \in S : y < x}
    BY <1>1, Zenon
  <2>2. ~ (x < x)
    BY <1>2
  <2> QED BY <2>1, <2>2, Zenon
<1>4. \A x, y \in S : y \in B[x] => B[y] \subseteq B[x]
  <2> TAKE x, y \in S
  <2> SUFFICES ASSUME y \in B[x], NEW z \in B[y] PROVE z \in B[x]
    BY Zenon
  <2>1. y < x /\ z \in S /\ z < y
    BY <1>1, Zenon
  <2> QED BY <1>1, <1>2, <2>1
<1>5. \A x, y \in S : x # y => x \in B[y] \/ y \in B[x]
  <2> TAKE x, y \in S
  <2>1. x # y => x < y \/ y < x
    BY <1>2
  <2>2. (x < y => x \in B[y]) /\ (y < x => y \in B[x])
    BY <1>1, Zenon
  <2> QED BY <2>1, <2>2, Zenon
<1> QED BY <1>3, <1>4, <1>5, Zenon DEF StrictOrder, B

LEMMA EmissionOrders ==
  ASSUME NEW t, IsTable(t)
  PROVE  /\ StrictOrder(DOMAIN t, EmittedBefore(t))
         /\ \A x, y \in DOMAIN t :
              y \in EmittedBefore(t)[x] <=>
                \/ t[y].emission_order < t[x].emission_order
                \/ t[y].emission_order = t[x].emission_order /\ y < x
         /\ \A x \in DOMAIN t : x \in Nat /\ t[x].emission_order \in Nat
<1> DEFINE B == EmittedBefore(t)
           S == DOMAIN t
<1>1. \A x \in S : x \in Nat /\ t[x].emission_order \in Nat
  BY Zenon DEF IsTable, IsEntry
<1>2. \A x \in S : B[x] = {y \in S : \/ t[y].emission_order < t[x].emission_order
                                     \/ t[y].emission_order = t[x].emission_order /\ y < x}
  BY Zenon DEF EmittedBefore
<1> HIDE DEF B
<1>3. \A x, y \in S : y \in B[x] <=> \/ t[y].emission_order < t[x].emission_order
                                     \/ t[y].emission_order = t[x].emission_order /\ y < x
  BY <1>2, Zenon
<1>4. \A x \in S : B[x] \subseteq S
  BY <1>2, Zenon
<1>5. \A x \in S : x \notin B[x]
  BY <1>1, <1>3
<1>6. \A x, y \in S : y \in B[x] => B[y] \subseteq B[x]
  <2> SUFFICES ASSUME NEW x \in S, NEW y \in S, y \in B[x], NEW z \in B[y] PROVE z \in B[x]
    BY Zenon
  <2>1. z \in S
    BY <1>4, Zenon
  <2>2. /\ x \in Nat /\ y \in Nat /\ z \in Nat
        /\ t[x].emission_order \in Nat /\ t[y].emission_order \in Nat /\ t[z].emission_order \in Nat
    BY <1>1, <2>1, Zenon
  <2>3. /\ \/ t[y].emission_order < t[x].emission_order
           \/ t[y].emission_order = t[x].emission_order /\ y < x
        /\ \/ t[z].emission_order < t[y].emission_order
           \/ t[z].emission_order = t[y].emission_order /\ z < y
    BY <1>3, <2>1, Zenon
  <2>4. \/ t[z].emission_order < t[x].emission_order
        \/ t[z].emission_order = t[x].emission_order /\ z < x
    BY <2>2, <2>3
  <2> QED BY <1>3, <2>1, <2>4, Zenon
<1>7. \A x, y \in S : x # y => x \in B[y] \/ y \in B[x]
  BY <1>1, <1>3
<1> QED BY <1>1, <1>3, <1>4, <1>5, <1>6, <1>7, Zenon DEF StrictOrder, B

LEMMA SortedWalks ==
  ASSUME NEW t, IsTable(t)
  PROVE  Walks(t, SortedIds(t), 1)
<1> DEFINE S == DOMAIN t
           N == Cardinality(S)
           w == SortedIds(t)
<1>1. S \subseteq Nat /\ IsFiniteSet(S)
  BY Zenon DEF IsTable
<1>2. StrictOrder(S, Smaller(S))
  BY <1>1, SmallerOrders, Zenon
<1>3. /\ N \in Nat /\ w \in [1..N -> S]
      /\ \A k, l \in 1..N : k < l <=> w[k] \in Smaller(S)[w[l]]
  BY <1>1, <1>2, SortingLists, Zenon DEF SortedIds
<1> HIDE DEF w, N
<1>4. \A k, l \in 1..N : k < l => w[k] < w[l]
  <2>1. \A x \in S : Smaller(S)[x] = {y \in S : y < x}
    BY Zenon DEF Smaller
  <2> HIDE DEF S
  <2> QED BY <1>3, <2>1, Zenon
<1>5. w \in Seq(Nat) /\ Len(w) = N
  BY <1>1, <1>3
<1> QED BY <1>3, <1>4, <1>5, Zenon DEF Walks, w

LEMMA EmittedLists ==
  ASSUME NEW t, IsTable(t)
  PROVE  LET w == EmittedIds(t)
         IN  /\ w \in Seq(DOMAIN t) /\ Len(w) = Cardinality(DOMAIN t)
             /\ \A x \in DOMAIN t : \E k \in 1..Len(w) : w[k] = x
             /\ \A k, l \in 1..Len(w) : k < l <=> w[k] \in EmittedBefore(t)[w[l]]
<1> DEFINE S == DOMAIN t
           N == Cardinality(S)
           w == EmittedIds(t)
<1>1. IsFiniteSet(S)
  BY Zenon DEF IsTable
<1>2. StrictOrder(S, EmittedBefore(t))
  BY EmissionOrders, Zenon
<1>3. /\ N \in Nat /\ w \in [1..N -> S]
      /\ \A x \in S : \E k \in 1..N : w[k] = x
      /\ \A k, l \in 1..N : k < l <=> w[k] \in EmittedBefore(t)[w[l]]
  BY <1>1, <1>2, SortingLists DEF EmittedIds
<1> HIDE DEF w, N
<1>4. w \in Seq(S) /\ Len(w) = N
  BY <1>3
<1> QED BY <1>3, <1>4, Zenon DEF w, N

(* The list of stores that the dead-store pass looks at.                   *)
LEMMA StoresListed ==
  ASSUME IsTable(table)
  PROVE  /\ StoreIds \in Seq(Stores) /\ Len(StoreIds) = Cardinality(Stores)
         /\ \A x \in Stores : \E k \in 1..Len(StoreIds) : StoreIds[k] = x
         /\ \A k, l \in 1..Len(StoreIds) : k < l => StoreIds[k] < StoreIds[l]
<1> DEFINE S == Stores
           N == Cardinality(S)
           w == StoreIds
<1>1. S \subseteq Nat /\ S \in SUBSET DOMAIN table
  BY Zenon DEF IsTable, Stores, StoresIn
<1>2. IsFiniteSet(S)
  BY <1>1, FS_Subset, Zenon DEF IsTable
<1>3. StrictOrder(S, Smaller(S))
  BY <1>1, SmallerOrders, Zenon
<1>4. /\ N \in Nat /\ w \in [1..N -> S]
      /\ \A x \in S : \E k \in 1..N : w[k] = x
      /\ \A k, l \in 1..N : k < l <=> w[k] \in Smaller(S)[w[l]]
  BY <1>2, <1>3, SortingLists, SMTT(30) DEF StoreIds
<1> HIDE DEF w, N
<1>5. \A k, l \in 1..N : k < l => w[k] < w[l]
  <2>1. \A x \in S : Smaller(S)[x] = {y \in S : y < x}
    BY Zenon DEF Smaller
  <2> HIDE DEF S
  <2> QED BY <1>4, <2>1
<1>6. w \in Seq(S) /\ Len(w) = N
  BY <1>4
<1> QED BY <1>4, <1>5, <1>6, Zenon DEF w, N

(* A finite set of numbers has a greatest. *)
LEMMA Greatest ==
  ASSUME NEW S, IsFiniteSet(S), S \subseteq Nat, S # {}
  PROVE  \E m \in S : \A x \in S : x <= m
<1> DEFINE N == Cardinality(S)
           w == InOrder(S, Smaller(S))
<1>1. StrictOrder(S, Smaller(S))
  BY SmallerOrders, Zenon
<1>2. /\ N \in Nat /\ w \in [1..N -> S]
      /\ \A x \in S : \E k \in 1..N : w[k] = x
      /\ \A k, l \in 1..N : k < l <=> w[k] \in Smaller(S)[w[l]]
  BY <1>1, SortingLists
<1> HIDE DEF w, N
<1>3. \A x, y \in S : x \in Smaller(S)[y] => x < y
  BY Zenon DEF Smaller
<1>4. N \in 1..N
  <2>1. PICK x : x \in S
    BY Zenon
  <2>2. PICK k \in 1..N : w[k] = x
    BY <1>2, <2>1, Zenon
  <2> QED BY <1>2
<1>5. w[N] \in S
  BY <1>2, <1>4, Zenon
<1>6. ASSUME NEW k \in 1..N PROVE w[k] <= w[N]
  <2>1. k = N \/ k < N
    BY <1>2
  <2>2. w[k] \in S /\ w[k] \in Nat /\ w[N] \in Nat
    BY <1>2, <1>5, Zenon
  <2>3. k < N => w[k] < w[N]
    BY <1>2, <1>3, <1>4, <1>5, <2>2, Zenon
  <2> QED BY <2>1, <2>2, <2>3
<1>7. \A x \in S : x <= w[N]
  BY <1>2, <1>6, Zenon
<1> QED BY <1>5, <1>7, Zenon

(* The stores the reverse walk drops. *)
DeadIds == {StoreIds[k] : k \in {j \in 1..Len(StoreOps) : Dead(StoreOps, j)}}

(* For each of them a store with a greater id to the same address stays:    *)
(* the last one to that address is not dead.                                *)
LEMMA DeadAreOverwritten ==
  ASSUME IsTable(table), NEW n \in DeadIds
  PROVE  /\ n \in Stores
         /\ \E k \in Stores \ DeadIds :
              n < k /\ AddressKey(table[k].operands[1]) = AddressKey(table[n].operands[1])
<1> DEFINE Key(x) == AddressKey(table[x].operands[1])
           S == {x \in Stores : Key(x) = Key(n)}
<1>1. /\ StoreIds \in Seq(Stores) /\ Len(StoreIds) \in Nat
      /\ \A k, l \in 1..Len(StoreIds) : k < l => StoreIds[k] < StoreIds[l]
  <2>1. StoreIds \in Seq(Stores)
    BY StoresListed, Zenon
  <2>2. Len(StoreIds) \in Nat
    BY <2>1
  <2> QED BY <2>1, <2>2, StoresListed, Zenon
<1>2. Stores \subseteq Nat /\ Stores \in SUBSET DOMAIN table
  BY Zenon DEF IsTable, Stores, StoresIn
<1>3. Len(StoreOps) = Len(StoreIds)
  BY <1>1 DEF StoreOps
<1>4. ASSUME NEW p \in 1..Len(StoreIds), Dead(StoreOps, p)
      PROVE  \E q \in 1..Len(StoreIds) : p < q /\ Key(StoreIds[q]) = Key(StoreIds[p])
  <2>1. \A q \in 1..Len(StoreIds) : StoreOps[q].addr = Key(StoreIds[q])
    BY Zenon DEF StoreOps, Store
  <2>2. PICK q \in (p + 1)..Len(StoreIds) : StoreOps[q].addr = StoreOps[p].addr
    BY <1>3, <1>4, Zenon DEF Dead, CoveredFrom, PlainStore
  <2>3. q \in 1..Len(StoreIds) /\ p < q
    BY <1>1
  <2> HIDE DEF Key
  <2> QED BY <2>1, <2>2, <2>3, Zenon
<1>5. PICK p \in 1..Len(StoreIds) : n = StoreIds[p] /\ Dead(StoreOps, p)
  BY <1>3, Zenon DEF DeadIds
<1>6. n \in Stores
  BY <1>1, <1>5
<1>7. S \subseteq Nat /\ IsFiniteSet(S) /\ n \in S
  <2>1. S \in SUBSET DOMAIN table
    BY <1>2, Zenon
  <2>2. IsFiniteSet(S)
    BY <2>1, FS_Subset, Zenon DEF IsTable
  <2> QED BY <1>2, <1>6, <2>2, Zenon
<1> HIDE DEF Key
<1>8. PICK m \in S : \A x \in S : x <= m
  BY <1>7, Greatest, Zenon
<1>9. ASSUME NEW x \in S, x \in DeadIds
      PROVE  \E y \in S : x < y
  <2>1. PICK k \in 1..Len(StoreIds) : x = StoreIds[k] /\ Dead(StoreOps, k)
    BY <1>3, <1>9, Zenon DEF DeadIds
  <2>2. PICK q \in 1..Len(StoreIds) : k < q /\ Key(StoreIds[q]) = Key(StoreIds[k])
    BY <1>4, <2>1, Zenon
  <2>3. StoreIds[q] \in Stores /\ StoreIds[k] < StoreIds[q]
    BY <1>1, <2>2
  <2> QED BY <2>1, <2>2, <2>3, Zenon
<1>10. m \notin DeadIds
  BY <1>7, <1>8, <1>9
<1>11. PICK y \in S : n < y
  BY <1>7, <1>9, Zenon
<1>12. n < m
  BY <1>7, <1>8, <1>11
<1> QED BY <1>6, <1>8, <1>10, <1>12, Zenon DEF Key

(* The entry placed at k is the old one there with the order of position k. *)
Reordered(x, order) ==
  [op |-> x.op, operands |-> x.operands, emission_order |-> order, hint |-> x.hint]

LEMMA ReorderedIs ==
  ASSUME NEW x, NEW order
  PROVE  /\ Reordered(x, order).op = x.op
         /\ Reordered(x, order).operands = x.operands
         /\ Reordered(x, order).emission_order = order
         /\ order \in Nat => IsEntry(Reordered(x, order))
  BY Zenon DEF Reordered, IsEntry

-----------------------------------------------------------------------------
(* schedule.rs *)

(* The scheduler has placed the positions of the emitted order: result is a *)
(* permutation of them that is its own inverse.                             *)
Permuted ==
  /\ IsTable(table)
  /\ ids = EmittedIds(table)
  /\ Len(result) = Len(ids)
  /\ \A k \in 1..Len(ids) : result[k] \in 1..Len(ids) /\ result[result[k]] = k

LEMMA PermutedLists ==
  ASSUME Permuted
  PROVE  /\ Len(ids) \in Nat /\ Len(ids) = Cardinality(DOMAIN table)
         /\ \A k \in 1..Len(ids) : ids[k] \in DOMAIN table /\ table[ids[k]].emission_order \in Nat
         /\ \A x \in DOMAIN table : \E k \in 1..Len(ids) : ids[k] = x
         /\ \A k, l \in 1..Len(ids) : ids[k] = ids[l] => k = l
         /\ \A k, l \in 1..Len(ids) : k < l <=> ids[k] \in EmittedBefore(table)[ids[l]]
         /\ \A k, l \in 1..Len(ids) :
              k <= l => table[ids[k]].emission_order <= table[ids[l]].emission_order
<1>1. IsTable(table) /\ ids = EmittedIds(table)
  BY Zenon DEF Permuted
<1>2. /\ ids \in Seq(DOMAIN table) /\ Len(ids) = Cardinality(DOMAIN table)
      /\ \A x \in DOMAIN table : \E k \in 1..Len(ids) : ids[k] = x
      /\ \A k, l \in 1..Len(ids) : k < l <=> ids[k] \in EmittedBefore(table)[ids[l]]
  BY <1>1, EmittedLists, Zenon
<1>3. Len(ids) \in Nat /\ \A k \in 1..Len(ids) : ids[k] \in DOMAIN table
  BY <1>2
<1>4. \A k \in 1..Len(ids) : table[ids[k]].emission_order \in Nat
  BY <1>1, <1>3, EmissionOrders, Zenon
<1>5. \A k, l \in 1..Len(ids) : ids[k] = ids[l] => k = l
  <2> SUFFICES ASSUME NEW k \in 1..Len(ids), NEW l \in 1..Len(ids), ids[k] = ids[l], k < l
               PROVE  FALSE
    BY <1>3
  <2>1. ids[l] \in EmittedBefore(table)[ids[l]] /\ ids[l] \in DOMAIN table
    BY <1>2, <1>3, Zenon
  <2> QED BY <1>1, <2>1, EmissionOrders, Zenon DEF StrictOrder
<1>6. ASSUME NEW k \in 1..Len(ids), NEW l \in 1..Len(ids), k <= l
      PROVE  table[ids[k]].emission_order <= table[ids[l]].emission_order
  <2>1. table[ids[k]].emission_order \in Nat /\ table[ids[l]].emission_order \in Nat
    BY <1>4, Zenon
  <2>2. CASE k = l
    BY <2>1, <2>2
  <2>3. CASE k < l
    <3>1. \/ table[ids[k]].emission_order < table[ids[l]].emission_order
          \/ table[ids[k]].emission_order = table[ids[l]].emission_order
      <4>1. ids[k] \in EmittedBefore(table)[ids[l]] /\ ids[k] \in DOMAIN table /\ ids[l] \in DOMAIN table
        BY <1>2, <1>3, <2>3, Zenon
      <4> QED BY <1>1, <4>1, EmissionOrders, Zenon
    <3> QED BY <2>1, <3>1
  <2> QED BY <1>3, <1>6, <2>2, <2>3
<1> QED BY <1>2, <1>3, <1>4, <1>5, <1>6, Zenon

LEMMA RescheduledIs ==
  ASSUME Permuted
  PROVE  /\ DOMAIN Rescheduled = DOMAIN table
         /\ Rescheduled = [n \in DOMAIN table |-> Rescheduled[n]]
         /\ \A k \in 1..Len(ids) :
              /\ result[k] \in 1..Len(ids) /\ ids[result[k]] \in DOMAIN table
              /\ Rescheduled[ids[result[k]]] =
                   Reordered(table[ids[result[k]]], table[ids[k]].emission_order)
         /\ \A n \in DOMAIN table : \E k \in 1..Len(ids) : n = ids[result[k]]
<1> DEFINE N == Len(ids)
           D == DOMAIN table
           r == Rescheduled
           At_(n) == CHOOSE k \in 1..Len(result) : ids[result[k]] = n
<1>0. N \in Nat /\ Len(result) = N
  BY PermutedLists, Zenon DEF Permuted
<1>1. /\ \A x \in D : \E k \in 1..N : ids[k] = x
      /\ \A k \in 1..N : result[k] \in 1..N /\ result[result[k]] = k
  BY PermutedLists, Zenon DEF Permuted
<1>2. \A k \in 1..N : ids[k] \in D /\ IsEntry(table[ids[k]])
  BY PermutedLists, Zenon DEF Permuted, IsTable
<1>3. \A k, l \in 1..N : ids[k] = ids[l] => k = l
  BY PermutedLists, Zenon
<1>4. \A k, l \in 1..N : ids[result[k]] = ids[result[l]] => k = l
  BY <1>1, <1>3
<1>5. \A n \in D : \E k \in 1..N : n = ids[result[k]]
  BY <1>1
<1>6. r = [n \in D |-> [table[n] EXCEPT !.emission_order = table[ids[At_(n)]].emission_order]]
  BY Zenon DEF Rescheduled
<1>7. \A k \in 1..N : At_(ids[result[k]]) = k
  <2> TAKE k \in 1..N
  <2>1. \A l \in 1..Len(result) : ids[result[l]] = ids[result[k]] => l = k
    BY <1>0, <1>4, Zenon
  <2>2. k \in 1..Len(result)
    BY <1>0, Zenon
  <2> QED BY <2>1, <2>2, Zenon
<1> HIDE DEF At_, r
<1>8. \A x, e : IsEntry(x) => [x EXCEPT !.emission_order = e] = Reordered(x, e)
  <2> SUFFICES ASSUME NEW x, NEW e, IsEntry(x)
               PROVE  [x EXCEPT !.emission_order = e] = Reordered(x, e)
    BY Zenon
  <2> QED BY DEF IsEntry, Reordered
<1>9. ASSUME NEW k \in 1..N
      PROVE  /\ result[k] \in 1..N /\ ids[result[k]] \in D
             /\ r[ids[result[k]]] = Reordered(table[ids[result[k]]], table[ids[k]].emission_order)
  <2>1. result[k] \in 1..N /\ ids[result[k]] \in D /\ IsEntry(table[ids[result[k]]])
    BY <1>1, <1>2, Zenon
  <2> DEFINE n == ids[result[k]]
             old == table[n]
             order == table[ids[k]].emission_order
  <2>2. r[n] = [old EXCEPT !.emission_order = order]
    BY <1>6, <1>7, <2>1, Zenon
  <2>3. [old EXCEPT !.emission_order = order] = Reordered(old, order)
    BY <1>8, <2>1, Zenon
  <2> QED BY <2>1, <2>2, <2>3, Zenon
<1>10. DOMAIN r = D /\ r = [n \in D |-> r[n]]
  BY <1>6, Zenon
<1>11. DOMAIN r = D /\ r = [n \in D |-> r[n]]
  BY <1>10, Zenon
<1> QED BY <1>5, <1>9, <1>11, Zenon DEF r

LEMMA RescheduledTable ==
  ASSUME Permuted
  PROVE  /\ IsTable(Rescheduled)
         /\ \A n \in DOMAIN table : /\ Rescheduled[n].op = table[n].op
                                    /\ Rescheduled[n].operands = table[n].operands
<1> DEFINE r == Rescheduled
<1>1. /\ DOMAIN r = DOMAIN table /\ r = [n \in DOMAIN table |-> r[n]]
      /\ \A k \in 1..Len(ids) :
           /\ result[k] \in 1..Len(ids) /\ ids[result[k]] \in DOMAIN table
           /\ r[ids[result[k]]] = Reordered(table[ids[result[k]]], table[ids[k]].emission_order)
      /\ \A n \in DOMAIN table : \E k \in 1..Len(ids) : n = ids[result[k]]
  BY RescheduledIs, Zenon
<1>2. /\ IsTable(table)
      /\ \A k \in 1..Len(ids) : table[ids[k]].emission_order \in Nat
  BY PermutedLists, Zenon DEF Permuted
<1> HIDE DEF r
<1>3. \A n \in DOMAIN table : IsEntry(r[n]) /\ r[n].op = table[n].op /\ r[n].operands = table[n].operands
  <2> TAKE n \in DOMAIN table
  <2>1. PICK k \in 1..Len(ids) : n = ids[result[k]]
    BY <1>1, Zenon
  <2>2. r[n] = Reordered(table[n], table[ids[k]].emission_order)
    BY <1>1, <2>1, Zenon
  <2> QED BY <1>2, <2>2, ReorderedIs, SMTT(30)
<1> QED BY <1>1, <1>2, <1>3, SMTT(30) DEF IsTable, r

(* The order that a position has before the exchange is that of the         *)
(* instruction placed there after it.                                       *)
LEMMA PositionsKeepOrders ==
  ASSUME Permuted, NEW k \in 1..Len(ids)
  PROVE  /\ result[k] \in 1..Len(ids)
         /\ Rescheduled[ids[result[k]]].emission_order = table[ids[k]].emission_order
<1>1. /\ result[k] \in 1..Len(ids)
      /\ Rescheduled[ids[result[k]]] = Reordered(table[ids[result[k]]], table[ids[k]].emission_order)
  BY RescheduledIs, Zenon
<1> HIDE DEF Rescheduled
<1> QED BY <1>1, ReorderedIs

LEMMA DistinctRescheduled ==
  ASSUME Permuted, DistinctOrders(table)
  PROVE  DistinctOrders(Rescheduled)
<1> DEFINE r == Rescheduled
<1>1. /\ DOMAIN r = DOMAIN table
      /\ \A n \in DOMAIN table : \E k \in 1..Len(ids) : n = ids[result[k]]
  BY RescheduledIs, Zenon
<1>2. \A k \in 1..Len(ids) : r[ids[result[k]]].emission_order = table[ids[k]].emission_order
  BY PositionsKeepOrders, Zenon
<1> HIDE DEF r
<1> SUFFICES ASSUME NEW n \in DOMAIN table, NEW m \in DOMAIN table,
                    r[n].emission_order = r[m].emission_order
             PROVE  n = m
  BY <1>1, Zenon DEF DistinctOrders, r
<1>3. PICK k \in 1..Len(ids) : n = ids[result[k]]
  BY <1>1, Zenon
<1>4. PICK l \in 1..Len(ids) : m = ids[result[l]]
  BY <1>1, Zenon
<1>5. table[ids[k]].emission_order = table[ids[l]].emission_order
  BY <1>2, <1>3, <1>4, Zenon
<1>6. ids[k] = ids[l]
  BY <1>5, PermutedLists, Zenon DEF DistinctOrders
<1>7. k = l
  BY <1>6, PermutedLists, Zenon
<1> QED BY <1>3, <1>4, <1>7, Zenon

(* Sorting by the exchanged orders yields the computed permutation, if they *)
(* tell the instructions apart.                                             *)
LEMMA EmittedIsScheduled ==
  ASSUME Permuted, DistinctOrders(table)
  PROVE  EmittedIds(Rescheduled) = [k \in 1..Len(ids) |-> ids[result[k]]]
<1> DEFINE r == Rescheduled
           S == DOMAIN r
           s == [k \in 1..Len(ids) |-> ids[result[k]]]
<1>1. /\ S = DOMAIN table
      /\ \A k \in 1..Len(ids) :
           /\ result[k] \in 1..Len(ids) /\ ids[result[k]] \in DOMAIN table
           /\ r[ids[result[k]]] = Reordered(table[ids[result[k]]], table[ids[k]].emission_order)
  BY RescheduledIs, Zenon
<1>2. /\ Len(ids) = Cardinality(S)
      /\ \A k, l \in 1..Len(ids) : k < l => table[ids[k]].emission_order < table[ids[l]].emission_order
  <2>1. ASSUME NEW k \in 1..Len(ids), NEW l \in 1..Len(ids), k < l
        PROVE  table[ids[k]].emission_order < table[ids[l]].emission_order
    <3>1. k <= l /\ k # l
      BY <2>1, PermutedLists
    <3>2. /\ table[ids[k]].emission_order \in Nat /\ table[ids[l]].emission_order \in Nat
          /\ table[ids[k]].emission_order <= table[ids[l]].emission_order
      BY <3>1, PermutedLists, Zenon
    <3>3. table[ids[k]].emission_order # table[ids[l]].emission_order
      <4>1. ids[k] # ids[l] /\ ids[k] \in DOMAIN table /\ ids[l] \in DOMAIN table
        BY <3>1, PermutedLists, Zenon
      <4> QED BY <4>1, Zenon DEF DistinctOrders
    <3> QED BY <3>2, <3>3
  <2> QED BY <1>1, <2>1, PermutedLists, Zenon
<1>3. IsTable(r)
  BY RescheduledTable, Zenon
<1> HIDE DEF r
<1>4. s \in [1..Cardinality(S) -> S]
  BY <1>1, <1>2, Zenon
<1>5. \A k \in 1..Len(ids) : /\ s[k] = ids[result[k]] /\ s[k] \in S
                             /\ r[s[k]].emission_order = table[ids[k]].emission_order
  <2> TAKE k \in 1..Len(ids)
  <2>1. s[k] = ids[result[k]] /\ s[k] \in S
    BY <1>1, Zenon
  <2>2. r[s[k]] = Reordered(table[ids[result[k]]], table[ids[k]].emission_order)
    BY <1>1, <2>1, Zenon
  <2> QED BY <2>1, <2>2, ReorderedIs, SMTT(30)
<1> HIDE DEF s
<1>6. \A k, l \in 1..Cardinality(S) : k < l => s[k] \in EmittedBefore(r)[s[l]]
  <2> TAKE k, l \in 1..Cardinality(S)
  <2>1. k < l => r[s[k]].emission_order < r[s[l]].emission_order
    BY <1>2, <1>5, Zenon
  <2> QED BY <1>2, <1>3, <1>5, <2>1, EmissionOrders, SMTT(30)
<1>7. IsFiniteSet(S) /\ StrictOrder(S, EmittedBefore(r))
  BY <1>3, EmissionOrders, Zenon DEF IsTable
<1>8. s = InOrder(S, EmittedBefore(r))
  <2> HIDE DEF S
  <2> QED BY <1>4, <1>6, <1>7, SortingUnique, Zenon
<1> QED BY <1>8, Zenon DEF EmittedIds, r, s


-----------------------------------------------------------------------------
(* The passes. *)

(* What holds of the table while the passes run.                            *)
TableInv ==
  /\ WalkInv
  /\ DOMAIN table \subseteq DOMAIN source.table
  /\ pass = 3 => ids = EmittedIds(table) /\ PlacedBefore(Classes, i, result)
  /\ BlockedCallsStay

-----------------------------------------------------------------------------
(* The invariant of the table. *)

(* The scheduler's loop has placed the positions of the emitted order when  *)
(* it ends.                                                                 *)
LEMMA PassPermutes ==
  ASSUME TableInv, pass = 3
  PROVE  /\ ids = EmittedIds(table) /\ PlacedBefore(Classes, i, result) /\ Len(Classes) = Len(ids)
         /\ i > Len(ids) => Permuted
<1>1. IsTable(table) /\ ids = EmittedIds(table) /\ PlacedBefore(Classes, i, result)
  BY Zenon DEF TableInv, WalkInv
<1>2. Len(ids) \in Nat
  <2>1. ids \in Seq(DOMAIN table)
    BY <1>1, EmittedLists, Zenon
  <2> QED BY <2>1
<1>3. Len(Classes) = Len(ids)
  BY <1>2 DEF Classes
<1>4. i > Len(Classes) =>
        /\ Len(result) = Len(Classes)
        /\ \A k \in 1..Len(Classes) : result[k] \in 1..Len(Classes) /\ result[result[k]] = k
  <2> HIDE DEF Classes
  <2> QED BY <1>1, PlacedPermutes
<1> QED BY <1>1, <1>3, <1>4, Zenon DEF Permuted

(* A table changed in some entries is a table.                              *)
LEMMA ChangedTable ==
  ASSUME NEW t, NEW u, NEW C, IsTable(t), Changes(t, u, C)
  PROVE  IsTable(u)
<1>1. IsFiniteSet(DOMAIN u)
  BY FS_Subset, Zenon DEF IsTable, Changes
<1> QED BY <1>1, Zenon DEF IsTable, Changes

LEMMA TableInit == Init => TableInv
<1> SUFFICES ASSUME Init PROVE TableInv
  BY Zenon
<1>1. PICK family \in Arenas : \E x \in family : table = x.table /\ source.table = x.table
  BY DEF Init
<1>2. PICK x \in family : table = x.table /\ source.table = x.table
  BY <1>1, Zenon
<1>3. source.table = table
  BY <1>2, Zenon
<1>4. IsTable(table)
  BY <1>2, ArenaAssumption, Zenon DEF IsArena
<1>5. pass = 1 /\ i = 1
  BY Zenon DEF Init
<1>6. WalkInv
  BY <1>3, <1>4, <1>5 DEF WalkInv
<1>7. BlockedCallsStay
  BY <1>3, Zenon DEF BlockedCallsStay
<1> QED BY <1>3, <1>5, <1>6, <1>7 DEF TableInv

(* What the end of a pass must see to: the table it leaves has no new Ret   *)
(* and still has the blocked calls.                                         *)
Leaves(t) ==
  /\ IsTable(t)
  /\ DOMAIN t \subseteq DOMAIN table
  /\ \A n \in DOMAIN t : t[n].op = "ret" => table[n].op = "ret"
  /\ \A n \in DOMAIN table :
       table[n].op = "call" /\ Blocked(n) => n \in DOMAIN t /\ t[n].op = "call"

LEMMA BlockedCallsLeft ==
  ASSUME TableInv, NEW t, Leaves(t), table' = t, source' = source
  PROVE  /\ IsTable(table')
         /\ DOMAIN table' \subseteq DOMAIN source'.table
         /\ \A n \in DOMAIN table' :
              table'[n].op = "ret" => n \in DOMAIN source'.table /\ source'.table[n].op = "ret"
         /\ BlockedCallsStay'
<1>1. \A n : Blocked(n)' <=> Blocked(n)
  BY Zenon DEF Blocked, RetsAfter
<1>2. BlockedCallsStay'
  BY <1>1, Zenon DEF BlockedCallsStay, Leaves, TableInv
<1> QED BY <1>2, Zenon DEF Leaves, TableInv, WalkInv

LEMMA NextPassKeeps ==
  ASSUME TableInv, NEW t, Leaves(t), NextPass(t), source' = source
  PROVE  TableInv'
<1>0. pass \in Nat \ {0} /\ pass' = pass + 1 /\ table' = t /\ i' = 1 /\ result' = <<>>
      /\ ids' = Snapshot(pass + 1, t) /\ IsTable(t)
  BY Zenon DEF TableInv, WalkInv, NextPass, Leaves
<1>1. pass' \in {2, 9} => Walks(table, ids, i)'
  <2> SUFFICES ASSUME pass' \in {2, 9} PROVE Walks(table', ids', i')
    BY Zenon
  <2>1. ids' = SortedIds(t)
    BY <1>0 DEF Snapshot
  <2> QED BY <1>0, <2>1, SortedWalks, Zenon
<1>2. pass' = 3 => (ids = EmittedIds(table))' /\ PlacedBefore(Classes, i, result)'
  <2> SUFFICES ASSUME pass' = 3 PROVE ids' = EmittedIds(t) /\ PlacedBefore(Classes', 1, <<>>)
    BY <1>0, Zenon
  <2>1. ids' = EmittedIds(t)
    BY <1>0 DEF Snapshot
  <2>2. Len(ids') \in Nat
    <3>1. EmittedIds(t) \in Seq(DOMAIN t)
      BY <1>0, EmittedLists, Zenon
    <3> QED BY <2>1, <3>1
  <2>3. Len(Classes') \in Nat /\ DOMAIN Classes' = 1..Len(Classes')
    BY <2>2 DEF Classes
  <2> QED BY <2>1, <2>3, NothingPlaced
<1>3. /\ IsTable(table')
      /\ DOMAIN table' \subseteq DOMAIN source'.table
      /\ \A n \in DOMAIN table' :
           table'[n].op = "ret" => n \in DOMAIN source'.table /\ source'.table[n].op = "ret"
      /\ BlockedCallsStay'
  BY <1>0, BlockedCallsLeft, Zenon
<1>4. WalkInv'
  BY <1>0, <1>1, <1>3 DEF WalkInv
<1> QED BY <1>2, <1>3, <1>4, SMTT(30) DEF TableInv

(* A turn over a window leaves the rest of the walk where it is.            *)
LEMMA WindowKeeps ==
  ASSUME TableInv, pass \in {2, 9}, NEW n, NEW t, WindowTurn(n, t)
  PROVE  TableInv'
<1>1. PICK C : /\ Changes(table, t, C)
               /\ \A x \in C : \E k \in i..(i + n - 1) : x = ids[k]
               /\ \A x \in C : table[x].op = "call" => ~ Blocked(x)
  BY Zenon DEF WindowTurn
<1>2. /\ n \in 1..4 /\ i \in Nat \ {0} /\ i + n - 1 <= Len(ids)
      /\ table' = t /\ i' = i + n /\ UNCHANGED <<pass, ids, source>>
  BY Zenon DEF WindowTurn, Remaining, TurnTo, TurnOf, TableInv, WalkInv
<1>3. Leaves(t)
  <2>1. IsTable(t)
    BY <1>1, ChangedTable, Zenon DEF TableInv, WalkInv
  <2> QED BY <1>1, <2>1, Zenon DEF Leaves, Changes
<1>4. Walks(table', ids', i')
  <2>1. /\ ids \in Seq(Nat) /\ Len(ids) \in Nat
        /\ \A k, l \in 1..Len(ids) : k < l => ids[k] < ids[l]
        /\ \A k \in i..Len(ids) : ids[k] \in DOMAIN table
    BY DEF TableInv, WalkInv, Walks
  <2>2. ASSUME NEW k \in (i + n)..Len(ids)
        PROVE  ids[k] \in DOMAIN t
    <3>1. k \in i..Len(ids) /\ k \in 1..Len(ids) /\ ids[k] \in DOMAIN table /\ ids[k] \in Nat
      BY <1>2, <2>1
    <3>2. ids[k] \notin C
      <4> SUFFICES ASSUME ids[k] \in C PROVE FALSE
        BY Zenon
      <4>1. PICK l \in i..(i + n - 1) : ids[k] = ids[l]
        BY <1>1, Zenon
      <4>2. l \in 1..Len(ids) /\ l < k /\ ids[l] \in Nat
        BY <1>2, <2>1, <3>1
      <4>3. ids[l] < ids[k]
        BY <2>1, <3>1, <4>2, Zenon
      <4> QED BY <3>1, <4>1, <4>2, <4>3
    <3> QED BY <1>1, <3>1, <3>2, Zenon DEF Changes
  <2> QED BY <1>2, <2>1, <2>2, SMTT(30) DEF Walks
<1>5. /\ IsTable(table')
      /\ DOMAIN table' \subseteq DOMAIN source'.table
      /\ \A k \in DOMAIN table' :
           table'[k].op = "ret" => k \in DOMAIN source'.table /\ source'.table[k].op = "ret"
      /\ BlockedCallsStay'
  BY <1>2, <1>3, BlockedCallsLeft, ZenonT(40)
<1>6. i' \in Nat \ {0} /\ pass' = pass /\ pass \in Nat \ {0}
  BY <1>2 DEF TableInv, WalkInv
<1>7. WalkInv'
  BY <1>4, <1>5, <1>6, SMTT(30) DEF WalkInv
<1> QED BY <1>5, <1>6, <1>7, SMTT(30) DEF TableInv

(* Whatever the dead stores are, no call is among them.                     *)
LEMMA DseLeaves ==
  ASSUME TableInv, NEW R, R \subseteq Stores
  PROVE  Leaves(Without(table, R))
<1>1. Changes(table, Without(table, R), {} \union R)
  BY NothingChanges, WithoutChanges, Zenon DEF TableInv, WalkInv
<1>2. IsTable(Without(table, R))
  BY <1>1, ChangedTable, Zenon DEF TableInv, WalkInv
<1>3. \A n \in R : table[n].op # "call"
  BY Zenon DEF Stores, StoresIn, IsStore
<1> HIDE DEF Without
<1> QED BY <1>1, <1>2, <1>3, Zenon DEF Leaves, Changes

LEMMA TableStep == TableInv /\ [Next]_vars => TableInv'
<1> SUFFICES ASSUME TableInv, [Next]_vars PROVE TableInv'
  BY Zenon
<1>0. pass \in Nat \ {0} /\ IsTable(table) /\ WalkInv
  BY Zenon DEF TableInv, WalkInv
<1>1. Leaves(table)
  BY Zenon DEF TableInv, WalkInv, Leaves
<1>2. ASSUME NEW name, EndOfIds(name) PROVE TableInv'
  BY <1>1, <1>2, NextPassKeeps, Zenon DEF EndOfIds
<1>3. CASE UNCHANGED vars
  <2>1. UNCHANGED <<table, source, pass, ids, i, result>>
    BY <1>3, Zenon DEF vars
  <2>2. BlockedCallsStay'
    BY <1>1, <2>1, BlockedCallsLeft, SMTT(30)
  <2>3. Classes' = Classes
    BY <2>1, Zenon DEF Classes
  <2>4. WalkInv'
    BY <1>0, <2>1, Zenon DEF WalkInv
  <2> QED BY <2>1, <2>2, <2>3, <2>4, Zenon DEF TableInv
<1>4. CASE Skip
  BY <1>1, <1>4, NextPassKeeps DEF Skip
<1>5. CASE Peephole
  <2>1. CASE \E n, t : WindowTurn(n, t)
    <3>1. pass \in {2, 9}
      <4>1. Peephole => Applying("peephole")
        BY Zenon DEF Peephole, PeepholeRemove, PeepholeReduceMul, PeepholeFuse, PeepholePushPop,
               PeepholeTest, PeepholeKeep, EndOfIds
      <4> QED BY <1>0, <1>5, <4>1, PassNumbers, SMTT(30)
    <3> QED BY <2>1, <3>1, WindowKeeps
  <2>2. EndOfIds("peephole") \/ \E n, t : WindowTurn(n, t)
    BY <1>0, <1>5, PeepholeTurns, ZenonT(40)
  <2> QED BY <1>2, <2>1, <2>2
<1>6. CASE SchedulePlace
  <2>1. /\ pass = 3 /\ i <= Len(ids) /\ UNCHANGED <<table, pass, ids, source>>
        /\ i' = Turn(Classes, i, result).i /\ result' = Turn(Classes, i, result).result
    BY <1>0, <1>6, PassNumbers, SMTT(30) DEF SchedulePlace
  <2>2. ids = EmittedIds(table) /\ PlacedBefore(Classes, i, result) /\ Len(Classes) = Len(ids)
    BY <2>1, PassPermutes, Zenon
  <2>3. Classes' = Classes /\ BlockedCallsStay'
    <3>1. Classes' = Classes
      BY <2>1, Zenon DEF Classes
    <3>2. BlockedCallsStay'
      BY <1>1, <2>1, BlockedCallsLeft, SMTT(30)
    <3> QED BY <3>1, <3>2, Zenon
  <2>4. PlacedBefore(Classes, i', result')
    BY <2>1, <2>2, TurnPlaces
  <2>5. i' \in Nat \ {0}
    BY <2>4, Zenon DEF PlacedBefore
  <2>6. (ids = EmittedIds(table))' /\ PlacedBefore(Classes', i', result')
    BY <2>1, <2>2, <2>3, <2>4, SMTT(30)
  <2>7. WalkInv'
    BY <1>0, <2>1, <2>5, SMTT(30) DEF WalkInv
  <2> QED BY <2>1, <2>3, <2>6, <2>7, SMTT(30) DEF TableInv
<1>7. CASE ScheduleApply
  <2>1. pass = 3 /\ i > Len(ids) /\ NextPass(Rescheduled) /\ source' = source
    BY <1>0, <1>7, PassNumbers, SMTT(30) DEF ScheduleApply
  <2>2. Permuted /\ DOMAIN Rescheduled = DOMAIN table
    BY <2>1, PassPermutes, RescheduledIs, SMTT(30)
  <2>3. Leaves(Rescheduled)
    <3>1. /\ IsTable(Rescheduled)
          /\ \A n \in DOMAIN table : Rescheduled[n].op = table[n].op
      BY <2>2, RescheduledTable, Zenon
    <3> HIDE DEF Rescheduled
    <3> QED BY <2>2, <3>1, Zenon DEF Leaves
  <2> QED BY <2>1, <2>3, NextPassKeeps, SMTT(30)
<1>8. CASE Dse
  <2> DEFINE R == {StoreIds[k] : k \in {j \in 1..Len(StoreOps) : Dead(StoreOps, j)}}
  <2>1. NextPass(Without(table, R)) /\ source' = source
    BY <1>8, Zenon DEF Dse
  <2>2. R \subseteq Stores
    <3>1. StoreIds \in Seq(Stores) /\ Len(StoreIds) \in Nat
      BY <1>0, StoresListed
    <3>2. Len(StoreOps) = Len(StoreIds)
      BY <3>1 DEF StoreOps
    <3> QED BY <3>1, <3>2, SMTT(30)
  <2> HIDE DEF R
  <2>3. Leaves(Without(table, R))
    BY <2>2, DseLeaves, Zenon
  <2> QED BY <2>1, <2>3, NextPassKeeps, SMTT(30)
<1>9. ASSUME NEW S, NEW hint, NextPass(Hint(S, hint)), source' = source
      PROVE  TableInv'
  <2>1. Leaves(Hint(S, hint))
    BY <1>0, HintIs DEF Leaves
  <2> QED BY <1>9, <2>1, NextPassKeeps, Zenon
<1>10. CASE MacroFusion
  BY <1>9, <1>10, Zenon DEF MacroFusion
<1>11. CASE BranchHint
  BY <1>9, <1>11, Zenon DEF BranchHint
<1>12. CASE PoolConstants
  BY <1>1, <1>12, NextPassKeeps, SMTT(30) DEF PoolConstants
<1>13. CASE TailCall
  <2>1. CASE \E n, t : WindowTurn(n, t)
    <3>1. pass \in {2, 9}
      <4>1. TailCall => Applying("tailcall")
        BY Zenon DEF TailCall, TailAlignPad, TailPushPopBracket, TailPopRestore, TailTrailingPop,
               TailCallRet, TailKeep, EndOfIds
      <4> QED BY <1>0, <1>13, <4>1, PassNumbers, SMTT(30)
    <3> QED BY <2>1, <3>1, WindowKeeps, Zenon
  <2>2. EndOfIds("tailcall") \/ \E n, t : WindowTurn(n, t)
    BY <1>0, <1>13, TailTurns, ZenonT(40)
  <2> QED BY <1>2, <2>1, <2>2, SMTT(30)
<1>14. CASE UnrollLoop
  <2>1. pass = 10 /\ pass' = pass /\ i' = i + 1 /\ UNCHANGED <<table, source>>
    BY <1>0, <1>14, PassNumbers, SMTT(30) DEF UnrollLoop
  <2>2. i' \in Nat \ {0} /\ WalkInv'
    BY <1>0, <2>1 DEF WalkInv
  <2>3. BlockedCallsStay'
    BY <1>1, <2>1, BlockedCallsLeft, Zenon
  <2> QED BY <2>1, <2>2, <2>3, SMTT(30) DEF TableInv
<1>15. CASE Unroll
  BY <1>2, <1>14, <1>15 DEF Unroll
<1>16. CASE Done
  BY <1>3, <1>16, Zenon DEF Done
<1> QED BY <1>3, <1>4, <1>5, <1>6, <1>7, <1>8, <1>10, <1>11, <1>12, <1>13, <1>15, <1>16, SMTT(30) DEF Next

(* The table stays well formed while the passes run, for every arena.       *)
THEOREM TableInvariant == Spec => []TableInv
  BY TableInit, TableStep, PTL DEF Spec

(* For every arena and every choice of passes: a call behind a capability   *)
(* boundary, or with a handler installed before its Ret, stays a call.      *)
THEOREM BlockedCallsSurvive == Spec => []BlockedCallsStay
<1>1. TableInv => BlockedCallsStay
  BY Zenon DEF TableInv
<1> QED BY <1>1, TableInvariant, PTL

-----------------------------------------------------------------------------
(* What the orders and the stores of the source leave to those of the       *)
(* table: distinct orders stay distinct, stores numbered as emitted stay    *)
(* so, and no address comes in.                                             *)
OrdersInv ==
  /\ DistinctOrders(source.table) => DistinctOrders(table)
  /\ StoresInOrder(source.table) => StoresInOrder(table)
  /\ KeysTellApart(source.table) => KeysTellApart(table)

(* u has some of t's entries, in their order, and no store that t has not.  *)
Thins(t, u) ==
  /\ DOMAIN u \subseteq DOMAIN t
  /\ \A n \in DOMAIN u : /\ u[n].emission_order = t[n].emission_order
                         /\ IsStore(u[n]) => IsStore(t[n]) /\ u[n].operands = t[n].operands

LEMMA ThinnedOrders ==
  ASSUME OrdersInv, Thins(table, table'), source' = source
  PROVE  OrdersInv'
<1> DEFINE u == table'
<1>1. DistinctOrders(table) => DistinctOrders(u)
  BY Zenon DEF DistinctOrders, Thins
<1>2. \A n \in StoresIn(u) : /\ n \in StoresIn(table) /\ u[n].operands = table[n].operands
                             /\ u[n].emission_order = table[n].emission_order
  BY Zenon DEF StoresIn, Thins
<1>3. StoresInOrder(table) => StoresInOrder(u)
  BY <1>2, Zenon DEF StoresInOrder
<1>4. KeysTellApart(table) => KeysTellApart(u)
  BY <1>2 DEF KeysTellApart
<1>5. /\ DistinctOrders(source.table) => DistinctOrders(u)
      /\ StoresInOrder(source.table) => StoresInOrder(u)
      /\ KeysTellApart(source.table) => KeysTellApart(u)
  BY <1>1, <1>3, <1>4, Zenon DEF OrdersInv
<1> QED BY <1>5, Zenon DEF OrdersInv

(* Two stores are never exchanged: one has no higher latency than another.  *)
LEMMA StoresRescheduled ==
  ASSUME TableInv, pass = 3, i > Len(ids), StoresInOrder(table)
  PROVE  StoresInOrder(Rescheduled)
<1> DEFINE r == Rescheduled
<1>1. Permuted /\ InPairs(Classes, i, result) /\ Len(ids) \in Nat /\ DOMAIN result = 1..Len(ids)
  BY PassPermutes, PermutedLists, SMTT(30) DEF PlacedBefore, Permuted
<1>2. /\ DOMAIN r = DOMAIN table
      /\ \A n \in DOMAIN table : r[n].op = table[n].op /\ r[n].operands = table[n].operands
  BY <1>1, RescheduledIs, RescheduledTable, Zenon
<1>3. StoresIn(r) = StoresIn(table)
  BY <1>2, Zenon DEF StoresIn, IsStore
<1>4. \A k \in 1..Len(ids) : /\ result[k] \in 1..Len(ids) /\ result[result[k]] = k
                             /\ r[ids[result[k]]].emission_order = table[ids[k]].emission_order
  BY <1>1, PositionsKeepOrders, Zenon DEF Permuted
<1> HIDE DEF r
<1> SUFFICES ASSUME NEW n \in StoresIn(table), NEW m \in StoresIn(table), n < m
             PROVE  r[n].emission_order <= r[m].emission_order
  BY <1>3, Zenon DEF StoresInOrder, r
<1>5. n \in DOMAIN table /\ m \in DOMAIN table /\ table[n].op = "mov" /\ table[m].op = "mov"
  BY Zenon DEF StoresIn, IsStore
<1>6. PICK p \in 1..Len(ids) : ids[p] = n
  BY <1>1, <1>5, PermutedLists, Zenon
<1>7. PICK q \in 1..Len(ids) : ids[q] = m
  BY <1>1, <1>5, PermutedLists, Zenon
<1>8. p < q
  <2>1. table[n].emission_order <= table[m].emission_order
    BY Zenon DEF StoresInOrder
  <2>2. IsTable(table)
    BY Zenon DEF TableInv, WalkInv
  <2>3. table[n].emission_order \in Nat /\ table[m].emission_order \in Nat
    BY <1>5, <2>2, EmissionOrders, Zenon
  <2>4. table[n].emission_order < table[m].emission_order \/ table[n].emission_order = table[m].emission_order
    BY <2>1, <2>3
  <2>5. n \in EmittedBefore(table)[m]
    BY <1>5, <2>2, <2>4, EmissionOrders, Zenon
  <2> QED BY <1>1, <1>6, <1>7, <2>5, PermutedLists, Zenon
<1>9. /\ result[p] \in 1..Len(ids) /\ result[q] \in 1..Len(ids)
      /\ r[n].emission_order = table[ids[result[p]]].emission_order
      /\ r[m].emission_order = table[ids[result[q]]].emission_order
  BY <1>4, <1>6, <1>7, Zenon
<1>10. result[p] <= result[q]
  <2>1. ASSUME NEW k \in 1..Len(ids)
        PROVE  \/ result[k] = k
               \/ result[k] = k + 1 /\ latency(Classes[k + 1]) > latency(Classes[k])
               \/ result[k] = k - 1
    <3>1. \/ result[k] = k
          \/ Swapped(Classes, result, k)
          \/ k - 1 \in DOMAIN result /\ Swapped(Classes, result, k - 1)
      BY <1>1, Zenon DEF InPairs
    <3>2. Swapped(Classes, result, k) => result[k] = k + 1 /\ latency(Classes[k + 1]) > latency(Classes[k])
      BY Zenon DEF Swapped
    <3>3. Swapped(Classes, result, k - 1) => result[k] = k - 1
      BY DEF Swapped
    <3> QED BY <3>1, <3>2, <3>3, Zenon
  <2>2. Classes[p] = "AluReg" /\ Classes[q] = "AluReg"
    BY <1>5, <1>6, <1>7, Zenon DEF Classes, classify_mnemonic
  <2>3. q = p + 1 => ~ (latency(Classes[p + 1]) > latency(Classes[p]))
    <3>1. latency(Classes[p]) \in Nat
      BY <2>2, LatencyIsNatural, Zenon
    <3> QED BY <2>2, <3>1
  <2>4. p \in Nat /\ q \in Nat /\ result[p] \in Nat /\ result[q] \in Nat
    BY <1>1, <1>9
  <2>5. /\ result[p] = p \/ result[p] = p + 1 \/ result[p] = p - 1
        /\ result[q] = q \/ result[q] = q + 1 \/ result[q] = q - 1
        /\ result[p] = p + 1 => q # p + 1
    <3>1. p + 1 # p /\ p + 1 # p - 1
      BY <2>4
    <3> QED BY <2>1, <2>3, <3>1, Zenon
  <2> QED BY <1>8, <2>4, <2>5
<1> QED BY <1>1, <1>9, <1>10, PermutedLists, Zenon

LEMMA ScheduledOrders ==
  ASSUME TableInv, OrdersInv, pass = 3, i > Len(ids), table' = Rescheduled, source' = source
  PROVE  OrdersInv'
<1> DEFINE r == Rescheduled
<1>1. Permuted
  BY PassPermutes, Zenon
<1>2. DistinctOrders(table) => DistinctOrders(r)
  BY <1>1, DistinctRescheduled, Zenon
<1>3. StoresInOrder(table) => StoresInOrder(r)
  BY StoresRescheduled, Zenon
<1>4. KeysTellApart(table) => KeysTellApart(r)
  <2>1. /\ DOMAIN r = DOMAIN table
        /\ \A n \in DOMAIN table : r[n].op = table[n].op /\ r[n].operands = table[n].operands
    BY <1>1, RescheduledIs, RescheduledTable, Zenon
  <2> HIDE DEF r
  <2>2. \A n \in StoresIn(r) : n \in StoresIn(table) /\ r[n].operands = table[n].operands
    BY <2>1, Zenon DEF StoresIn, IsStore
  <2> QED BY <2>2 DEF KeysTellApart
<1> HIDE DEF r
<1>5. /\ DistinctOrders(source.table) => DistinctOrders(r)
      /\ StoresInOrder(source.table) => StoresInOrder(r)
      /\ KeysTellApart(source.table) => KeysTellApart(r)
  BY <1>2, <1>3, <1>4, Zenon DEF OrdersInv
<1>6. table' = r
  BY Zenon DEF r
<1> QED BY <1>5, <1>6, Zenon DEF OrdersInv

LEMMA OrdersInit == Init => OrdersInv
<1> SUFFICES ASSUME Init PROVE OrdersInv
  BY Zenon
<1>1. PICK family \in Arenas : \E x \in family : table = x.table /\ source.table = x.table
  BY DEF Init
<1>2. source.table = table
  BY <1>1, Zenon
<1> QED BY <1>2, Zenon DEF OrdersInv

LEMMA OrdersStep == TableInv /\ OrdersInv /\ [Next]_vars => OrdersInv'
<1> SUFFICES ASSUME TableInv, OrdersInv, [Next]_vars PROVE OrdersInv'
  BY Zenon
<1>0. pass \in Nat \ {0} /\ IsTable(table) /\ WalkInv
  BY Zenon DEF TableInv, WalkInv
<1>1. ASSUME NEW C, Changes(table, table', C), source' = source PROVE OrdersInv'
  BY <1>1, ThinnedOrders, Zenon DEF Changes, Thins
<1>2. ASSUME table' = table, source' = source PROVE OrdersInv'
  <2>1. Changes(table, table', {})
    BY <1>0, <1>2, NothingChanges, Zenon
  <2> QED BY <1>1, <1>2, <2>1, Zenon
<1>3. ASSUME NEW name, EndOfIds(name) PROVE OrdersInv'
  BY <1>2, <1>3, Zenon DEF EndOfIds, NextPass
<1>4. ASSUME NEW n, NEW t, WindowTurn(n, t) PROVE OrdersInv'
  <2>1. PICK C : Changes(table, t, C)
    BY <1>4, Zenon DEF WindowTurn
  <2>2. table' = t /\ source' = source
    BY <1>4, Zenon DEF WindowTurn, TurnTo, TurnOf
  <2> QED BY <1>1, <2>1, <2>2, Zenon
<1>5. CASE ScheduleApply
  <2>1. pass = 3 /\ i > Len(ids) /\ table' = Rescheduled /\ source' = source
    BY <1>0, <1>5, PassNumbers, SMTT(30) DEF ScheduleApply, NextPass
  <2> QED BY <2>1, ScheduledOrders, Zenon
<1>6. CASE Dse
  <2>1. table' = Without(table, DeadIds) /\ source' = source
    BY <1>6, Zenon DEF Dse, NextPass, DeadIds
  <2>2. Changes(table, Without(table, DeadIds), {} \union DeadIds)
    BY <1>0, NothingChanges, WithoutChanges, Zenon
  <2> QED BY <1>1, <2>1, <2>2, Zenon
<1>7. ASSUME NEW S, NEW hint, NextPass(Hint(S, hint)), source' = source PROVE OrdersInv'
  <2>1. table' = Hint(S, hint)
    BY <1>7, Zenon DEF NextPass
  <2>2. Thins(table, Hint(S, hint))
    <3>1. /\ DOMAIN Hint(S, hint) = DOMAIN table
          /\ \A n \in DOMAIN table :
               /\ Hint(S, hint)[n].op = table[n].op
               /\ Hint(S, hint)[n].operands = table[n].operands
               /\ Hint(S, hint)[n].emission_order = table[n].emission_order
      BY <1>0, HintIs, SMTT(30)
    <3> HIDE DEF Hint
    <3> QED BY <3>1, Zenon DEF Thins, IsStore
  <2> QED BY <1>7, <2>1, <2>2, ThinnedOrders, Zenon
<1>8. CASE Peephole
  BY <1>0, <1>3, <1>4, <1>8, PeepholeTurns, Zenon
<1>9. CASE TailCall
  BY <1>0, <1>3, <1>4, <1>9, TailTurns, Zenon
<1>10. CASE MacroFusion \/ BranchHint
  BY <1>7, <1>10, Zenon DEF MacroFusion, BranchHint
<1>11. CASE Skip \/ PoolConstants \/ Unroll
  BY <1>2, <1>3, <1>11, Zenon DEF Skip, PoolConstants, Unroll, UnrollLoop, NextPass
<1>12. CASE UNCHANGED vars \/ SchedulePlace \/ Done
  BY <1>2, <1>12, Zenon DEF vars, SchedulePlace, Done
<1> QED BY <1>5, <1>6, <1>8, <1>9, <1>10, <1>11, <1>12, Zenon DEF Next

(* No pass makes two orders equal, exchanges two stores or brings in a new  *)
(* address, for every arena.                                                *)
LEMMA OrdersInvariant == Spec => [](TableInv /\ OrdersInv)
  BY TableInit, TableStep, OrdersInit, OrdersStep, PTL DEF Spec

(* For every arena whose instructions have orders of their own: when the    *)
(* scheduler has exchanged the emission orders, the encoder emits the       *)
(* permutation it computed.                                                 *)
THEOREM SchedulesTakeEffect == Spec => EmittedAsScheduled
<1>1. TableInv /\ OrdersInv /\ ScheduleApply /\ DistinctOrders(source.table) =>
        EmittedIds(table)' = [k \in 1..Len(ids) |-> ids[result[k]]]
  <2> SUFFICES ASSUME TableInv, OrdersInv, ScheduleApply, DistinctOrders(source.table)
               PROVE  EmittedIds(table') = [k \in 1..Len(ids) |-> ids[result[k]]]
    BY Zenon
  <2>1. pass = 3 /\ i > Len(ids) /\ table' = Rescheduled
    BY PassNumbers, Zenon DEF ScheduleApply, NextPass, TableInv, WalkInv
  <2>2. DistinctOrders(table) /\ Permuted
    BY <2>1, PassPermutes, Zenon DEF OrdersInv
  <2> QED BY <2>1, <2>2, EmittedIsScheduled, Zenon
<1>2. TableInv /\ OrdersInv /\ [Next]_vars =>
        [ScheduleApply /\ DistinctOrders(source.table) =>
           EmittedIds(table)' = [k \in 1..Len(ids) |-> ids[result[k]]]]_vars
  BY <1>1, Zenon
<1> QED BY <1>2, OrdersInvariant, PTL DEF Spec, EmittedAsScheduled

(* For every arena in which the stores are numbered in the order they are   *)
(* emitted and address keys are not shared, whatever passes ran before:     *)
(* what dead-store elimination removes is a store that one to the same      *)
(* address is emitted behind.                                               *)
THEOREM RemovedStoresAreOverwritten == Spec => OverwrittenLater
<1> DEFINE Overwritten(n, t) ==
             /\ IsStore(table[n])
             /\ \E k \in DOMAIN t :
                  /\ IsStore(table[k]) /\ table[k].operands[1] = table[n].operands[1]
                  /\ n \in EmittedBefore(table)[k]
<1>1. ASSUME TableInv, OrdersInv, Dse, StoresInOrder(source.table), KeysTellApart(source.table),
             NEW n \in DOMAIN table \ DOMAIN table'
      PROVE  Overwritten(n, table')
  <2>1. StoresInOrder(table) /\ KeysTellApart(table) /\ IsTable(table)
    BY <1>1, Zenon DEF OrdersInv, TableInv, WalkInv
  <2>2. table' = Without(table, DeadIds)
    BY <1>1, Zenon DEF Dse, NextPass, DeadIds
  <2>3. DOMAIN table' = DOMAIN table \ DeadIds
    BY <2>2, Zenon DEF Without
  <2>4. n \in DeadIds
    BY <1>1, <2>3, Zenon
  <2>5. n \in Stores
    BY <2>1, <2>4, DeadAreOverwritten, Zenon
  <2>6. PICK k \in Stores \ DeadIds :
          n < k /\ AddressKey(table[k].operands[1]) = AddressKey(table[n].operands[1])
    BY <2>1, <2>4, DeadAreOverwritten, Zenon
  <2>7. /\ n \in StoresIn(table) /\ n \in DOMAIN table /\ IsStore(table[n])
        /\ k \in StoresIn(table) /\ k \in DOMAIN table /\ IsStore(table[k])
    BY <2>5, <2>6, Zenon DEF Stores, StoresIn
  <2>8. table[k].operands[1] = table[n].operands[1]
    BY <2>1, <2>6, <2>7, Zenon DEF KeysTellApart
  <2>9. table[n].emission_order <= table[k].emission_order
    BY <2>1, <2>6, <2>7, Zenon DEF StoresInOrder
  <2>10. \/ table[n].emission_order < table[k].emission_order
         \/ table[n].emission_order = table[k].emission_order /\ n < k
    <3>1. table[n].emission_order \in Nat /\ table[k].emission_order \in Nat
      BY <2>1, <2>7, EmissionOrders, Zenon
    <3> QED BY <2>6, <2>9, <3>1
  <2>11. n \in EmittedBefore(table)[k]
    BY <2>1, <2>7, <2>10, EmissionOrders, Zenon
  <2>12. k \in DOMAIN table'
    BY <2>3, <2>6, <2>7, Zenon
  <2> QED BY <2>7, <2>8, <2>11, <2>12, Zenon
<1>2. TableInv /\ OrdersInv /\ [Next]_vars =>
        [Dse /\ StoresInOrder(source.table) /\ KeysTellApart(source.table) =>
           \A n \in DOMAIN table \ DOMAIN table' :
             /\ IsStore(table[n])
             /\ \E k \in DOMAIN table' :
                  /\ IsStore(table[k]) /\ table[k].operands[1] = table[n].operands[1]
                  /\ n \in EmittedBefore(table)[k]]_vars
  BY <1>1, Zenon
<1> QED BY <1>2, OrdersInvariant, PTL DEF Spec, OverwrittenLater

=============================================================================
