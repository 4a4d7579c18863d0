--------------------------- MODULE PassTurnsProofs ---------------------------
(* What single walks and turns of the passes guarantee.  The scheduler's    *)
(* loop returns a permutation that nothing but neighbours of different      *)
(* latency differ in, for a block of any length and any mixture of classes. *)
(* The reverse walk finds exactly the dead stores, for every list of memory *)
(* operations over any set of addresses.  The unroller's turns keep what    *)
(* the loops run, and those that rewrite windows of instructions do to the  *)
(* side table what they are meant to, for every arena and every set of      *)
(* requested passes.                                                        *)
EXTENDS OptPasses, Schedule, DeadStores, TLAPS

-----------------------------------------------------------------------------
(* The walks over a basic block: schedule.rs and dse.rs *)

(* Latencies are numbers, so they can be compared. *)
LEMMA LatencyIsNatural == \A class : latency(class) \in Nat
  BY Zenon DEF latency

(* Positions placed so far by a loop over classes that has reached one.     *)
PlacedBefore(classes, reached, done) ==
  /\ reached \in Nat \ {0}
  /\ Len(classes) \in Nat /\ DOMAIN classes = 1..Len(classes)
  /\ done \in Seq(1..Len(classes))
  /\ Len(done) = reached - 1
  /\ InPairs(classes, reached, done)

(* Appending keeps the pairs that are there, ...                            *)
LEMMA PairsKept ==
  ASSUME NEW classes, NEW reached, NEW done, PlacedBefore(classes, reached, done),
         NEW longer, DOMAIN done \subseteq DOMAIN longer,
         \A k \in DOMAIN done : longer[k] = done[k]
  PROVE  \A k \in DOMAIN done :
           \/ longer[k] = k
           \/ Swapped(classes, longer, k)
           \/ k - 1 \in DOMAIN longer /\ Swapped(classes, longer, k - 1)
<1>1. \A k \in DOMAIN done : Swapped(classes, done, k) => Swapped(classes, longer, k)
  BY Zenon DEF Swapped
<1> QED BY <1>1, Zenon DEF PlacedBefore, InPairs

(* ... and a turn appends an instruction in its place or a hoisted pair.    *)
LEMMA TurnPlaces ==
  ASSUME NEW classes, NEW reached, NEW done,
         PlacedBefore(classes, reached, done), reached <= Len(classes)
  PROVE  PlacedBefore(classes, Turn(classes, reached, done).i, Turn(classes, reached, done).result)
<1>0. /\ reached \in Nat \ {0} /\ Len(classes) \in Nat /\ DOMAIN classes = 1..Len(classes)
      /\ done \in Seq(1..Len(classes)) /\ Len(done) = reached - 1
      /\ DOMAIN done = 1..(reached - 1)
  BY DEF PlacedBefore
<1>1. CASE ~ Hoists(classes, reached)
  <2> DEFINE longer == Append(done, reached)
  <2>1. Turn(classes, reached, done) = [i |-> reached + 1, result |-> longer]
    BY <1>1, Zenon DEF Turn
  <2>2. /\ DOMAIN longer = 1..reached /\ Len(longer) = reached
        /\ \A k \in 1..(reached - 1) : longer[k] = done[k]
        /\ longer[reached] = reached /\ longer \in Seq(1..Len(classes))
    BY <1>0
  <2>3. DOMAIN done \subseteq DOMAIN longer /\ \A k \in DOMAIN longer : k \in DOMAIN done \/ k = reached
    BY <1>0, <2>2
  <2> HIDE DEF longer
  <2>4. InPairs(classes, reached + 1, longer)
    <3>1. \A k \in DOMAIN done : longer[k] = done[k]
      BY <1>0, <2>2, Zenon
    <3>2. \A k \in DOMAIN done :
            \/ longer[k] = k
            \/ Swapped(classes, longer, k)
            \/ k - 1 \in DOMAIN longer /\ Swapped(classes, longer, k - 1)
      BY <2>3, <3>1, PairsKept, Zenon
    <3>3. reached + 1 <= Len(classes) + 1
      BY <1>0
    <3> QED BY <2>2, <2>3, <3>2, <3>3, Zenon DEF InPairs
  <2> QED BY <1>0, <2>1, <2>2, <2>4 DEF PlacedBefore
<1>2. CASE Hoists(classes, reached)
  <2> DEFINE longer == Append(Append(done, reached + 1), reached)
  <2>1. Turn(classes, reached, done) = [i |-> reached + 2, result |-> longer]
    BY <1>2, Zenon DEF Turn
  <2>2. reached + 1 \in 1..Len(classes)
    BY <1>0, <1>2, Zenon DEF Hoists
  <2>3. /\ DOMAIN longer = 1..(reached + 1) /\ Len(longer) = reached + 1
        /\ \A k \in 1..(reached - 1) : longer[k] = done[k]
        /\ longer[reached] = reached + 1 /\ longer[reached + 1] = reached /\ longer \in Seq(1..Len(classes))
    BY <1>0, <2>2
  <2>4. /\ DOMAIN done \subseteq DOMAIN longer
        /\ \A k \in DOMAIN longer :
             \/ k \in DOMAIN done
             \/ k = reached
             \/ k - 1 = reached /\ k - 1 \in DOMAIN longer
    BY <1>0, <2>3
  <2> HIDE DEF longer
  <2>5. Swapped(classes, longer, reached)
    BY <1>0, <1>2, <2>3 DEF Swapped, Hoists
  <2>6. \A k \in DOMAIN longer :
          \/ longer[k] = k
          \/ Swapped(classes, longer, k)
          \/ k - 1 \in DOMAIN longer /\ Swapped(classes, longer, k - 1)
    <3>1. \A k \in DOMAIN done : longer[k] = done[k]
      BY <1>0, <2>3, Zenon
    <3>2. \A k \in DOMAIN done :
            \/ longer[k] = k
            \/ Swapped(classes, longer, k)
            \/ k - 1 \in DOMAIN longer /\ Swapped(classes, longer, k - 1)
      BY <2>4, <3>1, PairsKept, Zenon
    <3> QED BY <2>4, <2>5, <3>2, Zenon
  <2>7. InPairs(classes, reached + 2, longer)
    BY <1>0, <2>2, <2>6 DEF InPairs
  <2> QED BY <1>0, <2>1, <2>3, <2>7 DEF PlacedBefore
<1> QED BY <1>1, <1>2, Zenon

(* The state of the loop is one of placed positions.                        *)
LEMMA ScheduleInvPlaces ==
  ScheduleInv <=> instructions \in Seq(InstructionClass) /\ PlacedBefore(instructions, cursor, placed)
<1>1. instructions \in Seq(InstructionClass) =>
        Len(instructions) \in Nat /\ DOMAIN instructions = 1..Len(instructions)
  OBVIOUS
<1> QED BY <1>1, Zenon DEF ScheduleInv, BlockTypeOK, PlacedBefore

(* Before the first turn nothing is placed. *)
LEMMA ScheduleInit == BlockInit => ScheduleInv
<1> SUFFICES ASSUME BlockInit PROVE ScheduleInv
  BY Zenon
<1>1. instructions \in Seq(InstructionClass)
  BY BlocksAreClassSequences, Zenon DEF BlockInit
<1> QED BY <1>1 DEF BlockInit, ScheduleInv, BlockTypeOK, InPairs

(* A turn extends the cut into instructions in place and hoisted pairs. *)
LEMMA ScheduleStep == ScheduleInv /\ [BlockNext]_blockVars => ScheduleInv'
<1> SUFFICES ASSUME ScheduleInv, [BlockNext]_blockVars PROVE ScheduleInv'
  BY Zenon
<1>0. instructions \in Seq(InstructionClass) /\ PlacedBefore(instructions, cursor, placed)
  BY ScheduleInvPlaces, Zenon
<1>1. instructions' \in Seq(InstructionClass) /\ PlacedBefore(instructions', cursor', placed')
  <2>1. CASE UNCHANGED blockVars
    BY <1>0, <2>1, Zenon DEF blockVars
  <2>2. CASE Place
    BY <1>0, <2>2, TurnPlaces, Zenon DEF Place
  <2> QED BY <2>1, <2>2, Zenon DEF BlockNext, BlockFinished
<1>2. (instructions \in Seq(InstructionClass) /\ PlacedBefore(instructions, cursor, placed) => ScheduleInv)'
  BY ScheduleInvPlaces, PTL
<1>3. PlacedBefore(instructions', cursor', placed') <=> PlacedBefore(instructions, cursor, placed)'
  BY Zenon
<1> QED BY <1>1, <1>2, <1>3, Zenon

(* The pair-cut holds whenever the loop test is reached. *)
THEOREM ScheduleInvariant == BlockSpec => []ScheduleInv
  BY ScheduleInit, ScheduleStep, PTL DEF BlockSpec

(* Where two placed positions are out of order they are one hoisted pair. *)
LEMMA InversionsArePairs ==
  ASSUME NEW classes, NEW reached, NEW done, PlacedBefore(classes, reached, done),
         NEW k \in DOMAIN done, NEW l \in DOMAIN done,
         k < l, done[k] > done[l]
  PROVE  l = k + 1 /\ Swapped(classes, done, k)
<1>1. /\ k \in Nat /\ l \in Nat
      /\ \A p \in DOMAIN done : p \in Nat /\ done[p] \in Nat
  BY DEF PlacedBefore
<1>0. /\ InPairs(classes, reached, done)
      /\ \A p : Swapped(classes, done, p) => done[p] = p + 1 /\ done[p + 1] = p
  BY Zenon DEF PlacedBefore, Swapped
<1>2. \/ done[k] = k
      \/ Swapped(classes, done, k) /\ done[k] = k + 1
      \/ k - 1 \in DOMAIN done /\ Swapped(classes, done, k - 1) /\ done[k] = k - 1
  BY <1>0, <1>1 DEF InPairs
<1>3. \/ done[l] = l
      \/ Swapped(classes, done, l) /\ done[l] = l + 1
      \/ l - 1 \in DOMAIN done /\ Swapped(classes, done, l - 1) /\ done[l] = l - 1
  BY <1>0, <1>1 DEF InPairs
<1>4. done[k] <= k + 1 /\ done[l] >= l - 1
  BY <1>1, <1>2, <1>3
<1>5. l = k + 1 \/ l = k + 2
  BY <1>1, <1>4
<1>6. CASE l = k + 2
  BY <1>1, <1>4, <1>6
<1>7. CASE l = k + 1
  <2>1. done[k] = k + 1 \/ done[l] = k
    BY <1>1, <1>2, <1>3, <1>7
  <2> QED BY <1>1, <1>2, <1>3, <1>7, <2>1 DEF Swapped
<1> QED BY <1>5, <1>6, <1>7, Zenon

(* A finished loop has placed every position once; it is its own inverse.   *)
LEMMA PlacedPermutes ==
  ASSUME NEW classes, NEW reached, NEW done, PlacedBefore(classes, reached, done), reached > Len(classes)
  PROVE  /\ Len(done) = Len(classes)
         /\ DOMAIN done = 1..Len(classes)
         /\ \A p \in 1..Len(classes) : done[p] \in 1..Len(classes) /\ done[done[p]] = p
<1>1. /\ reached \in Nat /\ Len(classes) \in Nat /\ done \in Seq(1..Len(classes))
      /\ Len(done) = reached - 1 /\ reached <= Len(classes) + 1
  BY Zenon DEF PlacedBefore, InPairs
<1>2. /\ Len(done) = Len(classes) /\ DOMAIN done = 1..Len(classes)
      /\ \A p \in DOMAIN done : done[p] \in Nat
  BY <1>1
<1>3. \A p \in DOMAIN done :
        \/ done[p] = p
        \/ p + 1 \in DOMAIN done /\ done[p] = p + 1 /\ done[p + 1] = p
        \/ p - 1 \in DOMAIN done /\ done[p] = p - 1 /\ done[p - 1] = p
  <2>1. InPairs(classes, reached, done)
    BY Zenon DEF PlacedBefore
  <2>2. \A p \in DOMAIN done : p - 1 + 1 = p
    BY <1>1, <1>2
  <2> QED BY <2>1, <2>2, Zenon DEF InPairs, Swapped
<1>4. \A p \in DOMAIN done : done[p] \in DOMAIN done /\ done[done[p]] = p
  <2> TAKE p \in DOMAIN done
  <2>1. CASE done[p] = p
    BY <2>1, Zenon
  <2>2. CASE p + 1 \in DOMAIN done /\ done[p] = p + 1 /\ done[p + 1] = p
    BY <2>2, Zenon
  <2>3. CASE p - 1 \in DOMAIN done /\ done[p] = p - 1 /\ done[p - 1] = p
    BY <2>3, Zenon
  <2> QED BY <1>3, <2>1, <2>2, <2>3, Zenon
<1> QED BY <1>2, <1>4, Zenon

(* For every block: of two instructions that changed order neither is a     *)
(* barrier, nor is any between them.                                        *)
THEOREM BarriersHold == BlockSpec => []NothingCrossesABarrier
<1>1. ScheduleInv => NothingCrossesABarrier
  <2> SUFFICES ASSUME ScheduleInv,
                      NEW k \in DOMAIN placed, NEW l \in DOMAIN placed,
                      k < l, placed[k] > placed[l],
                      NEW p \in placed[l]..placed[k]
               PROVE  ~ is_barrier(instructions[p])
    BY Zenon DEF NothingCrossesABarrier
  <2>1. l = k + 1 /\ Swapped(instructions, placed, k)
    BY ScheduleInvPlaces, InversionsArePairs, Zenon
  <2>2. k \in Nat /\ (p = k \/ p = k + 1)
    BY <2>1 DEF Swapped, ScheduleInv, BlockTypeOK
  <2> QED BY <2>1, <2>2, Zenon DEF Swapped
<1> QED BY <1>1, ScheduleInvariant, PTL

(* For every block: only a neighbour of higher latency passes an            *)
(* instruction, so instructions of equal latency keep their order.          *)
THEOREM OnlyLatencyReorders == BlockSpec => []OnlySlowerNeighboursPass
<1>1. ScheduleInv => OnlySlowerNeighboursPass
  <2> SUFFICES ASSUME ScheduleInv,
                      NEW k \in DOMAIN placed, NEW l \in DOMAIN placed,
                      k < l, placed[k] > placed[l]
               PROVE  /\ placed[k] = placed[l] + 1
                      /\ latency(instructions[placed[k]]) > latency(instructions[placed[l]])
    BY Zenon DEF OnlySlowerNeighboursPass
  <2>1. l = k + 1 /\ Swapped(instructions, placed, k)
    BY ScheduleInvPlaces, InversionsArePairs, Zenon
  <2> QED BY <2>1, Zenon DEF Swapped
<1> QED BY <1>1, ScheduleInvariant, PTL

(* For every block: the returned positions are a permutation of the block.  *)
THEOREM SchedulePermutes == BlockSpec => []ReturnsPermutation
<1>1. ScheduleInv => ReturnsPermutation
  <2> SUFFICES ASSUME ScheduleInv, BlockDone PROVE
           /\ Len(placed) = Len(instructions)
           /\ \A p \in 1..Len(instructions) : \E k \in DOMAIN placed : placed[k] = p
           /\ \A k, l \in DOMAIN placed : placed[k] = placed[l] => k = l
    BY Zenon DEF ReturnsPermutation
  <2>1. PlacedBefore(instructions, cursor, placed)
    BY ScheduleInvPlaces, Zenon
  <2>2. /\ Len(placed) = Len(instructions) /\ DOMAIN placed = 1..Len(instructions)
        /\ \A p \in 1..Len(instructions) : placed[p] \in 1..Len(instructions) /\ placed[placed[p]] = p
    BY <2>1, PlacedPermutes DEF BlockDone
  <2> QED BY <2>2
<1> QED BY <1>1, ScheduleInvariant, PTL

-----------------------------------------------------------------------------
(* Coverage from one position earlier: the operation there may break it,    *)
(* provide it, or leave it as it was.                                       *)
LEMMA CoverageStep ==
  ASSUME NEW list \in Seq(MemOp), NEW k \in 1..Len(list), NEW a \in Addresses
  PROVE  CoveredFrom(list, k, a) <=>
           /\ ~ Breaks(list[k], a)
           /\ PlainStore(list[k], a) \/ CoveredFrom(list, k + 1, a)
<1>0. Len(list) \in Nat /\ k \in Nat
  OBVIOUS
<1>1. ASSUME CoveredFrom(list, k, a)
      PROVE  /\ ~ Breaks(list[k], a)
             /\ PlainStore(list[k], a) \/ CoveredFrom(list, k + 1, a)
  <2>1. PICK j \in k..Len(list) :
          PlainStore(list[j], a) /\ \A h \in k..j : ~ Breaks(list[h], a)
    BY <1>1, Zenon DEF CoveredFrom
  <2>2. CASE j = k
    BY <1>0, <2>1, <2>2
  <2>3. CASE j # k
    <3>1. j \in (k + 1)..Len(list) /\ k \in k..j /\ \A h \in (k + 1)..j : h \in k..j
      BY <1>0, <2>3
    <3> QED BY <2>1, <3>1, Zenon DEF CoveredFrom
  <2> QED BY <2>2, <2>3, Zenon
<1>2. ASSUME ~ Breaks(list[k], a), PlainStore(list[k], a)
      PROVE  CoveredFrom(list, k, a)
  <2>1. k \in k..Len(list) /\ \A h \in k..k : h = k
    BY <1>0
  <2> QED BY <1>2, <2>1, Zenon DEF CoveredFrom
<1>3. ASSUME ~ Breaks(list[k], a), CoveredFrom(list, k + 1, a)
      PROVE  CoveredFrom(list, k, a)
  <2>1. PICK j \in (k + 1)..Len(list) :
          PlainStore(list[j], a) /\ \A h \in (k + 1)..j : ~ Breaks(list[h], a)
    BY <1>3, Zenon DEF CoveredFrom
  <2>2. j \in k..Len(list) /\ \A h \in k..j : h = k \/ h \in (k + 1)..j
    BY <1>0
  <2> QED BY <1>3, <2>1, <2>2, Zenon DEF CoveredFrom
<1> QED BY <1>1, <1>2, <1>3, Zenon

(* After the last operation nothing is covered. *)
LEMMA DeadStoresInit == WalkInit => DeadStoresInv
<1> SUFFICES ASSUME WalkInit PROVE DeadStoresInv
  BY Zenon
<1>1. ops \in Seq(MemOp) /\ Len(ops) \in Nat
  BY OpListsAreMemOps DEF WalkInit
<1>2. WalkTypeOK
  BY <1>1 DEF WalkInit, WalkTypeOK
<1>3. CoverageIsExact
  <2>1. (at + 1)..Len(ops) = {}
    BY <1>1 DEF WalkInit
  <2> QED BY <2>1, Zenon DEF WalkInit, CoverageIsExact, CoveredFrom
<1>4. DropsExactlyTheDead
  <2>1. \A k \in 1..Len(ops) : ~ (k > at)
    BY <1>1 DEF WalkInit
  <2>2. \A k \in 1..Len(ops) : keep[k] = TRUE
    BY Zenon DEF WalkInit
  <2> QED BY <2>1, <2>2, Zenon DEF DropsExactlyTheDead
<1> QED BY <1>2, <1>3, <1>4, Zenon DEF DeadStoresInv

(* Visiting one operation moves the exactness of coverage and of the flags  *)
(* one position down.                                                       *)
LEMMA DeadStoresStep == DeadStoresInv /\ [WalkNext]_walk => DeadStoresInv'
<1> SUFFICES ASSUME DeadStoresInv, [WalkNext]_walk PROVE DeadStoresInv'
  BY Zenon
<1>1. CASE UNCHANGED walk
  BY <1>1, Zenon DEF walk, DeadStoresInv, WalkTypeOK, CoverageIsExact, DropsExactlyTheDead
<1>2. CASE Visit
  <2>0. /\ ops \in Seq(MemOp) /\ Len(ops) \in Nat
        /\ at \in 1..Len(ops) /\ at' = at - 1 /\ at' + 1 = at
        /\ ops' = ops
        /\ ops[at] \in MemOp
        /\ covered \subseteq Addresses
        /\ keep \in [1..Len(ops) -> BOOLEAN]
    BY <1>2 DEF Visit, DeadStoresInv, WalkTypeOK
  <2>1. \A a \in Addresses :
          CoveredFrom(ops, at, a) <=>
            /\ ~ Breaks(ops[at], a)
            /\ PlainStore(ops[at], a) \/ a \in covered
    BY <2>0, CoverageStep, Zenon DEF DeadStoresInv, CoverageIsExact
  <2>2. Dead(ops, at) <=> PlainStore(ops[at], ops[at].addr) /\ ops[at].addr \in covered
    <3>1. ops[at].addr \in Addresses
      BY <2>0, Zenon DEF MemOp
    <3> QED BY <2>0, <3>1, Zenon DEF DeadStoresInv, CoverageIsExact, Dead
  <2>3. /\ covered' \subseteq Addresses
        /\ \A a \in Addresses :
             a \in covered' <=> ~ Breaks(ops[at], a) /\ (PlainStore(ops[at], a) \/ a \in covered)
        /\ keep' \in [1..Len(ops) -> BOOLEAN]
        /\ keep'[at] = ~ Dead(ops, at)
        /\ \A k \in 1..Len(ops) : k # at => keep'[k] = keep[k]
    <3>0. keep[at] = TRUE
      BY <2>0 DEF DeadStoresInv, DropsExactlyTheDead
    <3>1. ops[at].addr \in Addresses /\ ops[at].mmio \in BOOLEAN
      BY <2>0, Zenon DEF MemOp
    <3>2. CASE VisitBarrier
      BY <2>0, <2>2, <3>0, <3>2, Zenon DEF VisitBarrier, Breaks, PlainStore
    <3>3. CASE VisitLoad
      BY <2>0, <2>2, <3>0, <3>3, Zenon DEF VisitLoad, Breaks, PlainStore
    <3>4. CASE VisitStore /\ ops[at].mmio
      BY <2>0, <2>2, <3>0, <3>1, <3>4, Zenon DEF VisitStore, Breaks, PlainStore
    <3>5. CASE VisitStore /\ ~ ops[at].mmio
      <4>1. /\ keep' = [keep EXCEPT ![at] = ops[at].addr \notin covered]
            /\ covered' = covered \union {ops[at].addr}
            /\ ops[at].kind = "store" /\ ~ ops[at].mmio
        BY <3>5, Zenon DEF VisitStore
      <4>2. \A a : ~ Breaks(ops[at], a) /\ (PlainStore(ops[at], a) <=> ops[at].addr = a)
        BY <4>1, Zenon DEF Breaks, PlainStore
      <4> QED BY <2>0, <2>2, <3>1, <4>1, <4>2, Zenon
    <3> QED BY <1>2, <3>2, <3>3, <3>4, <3>5, Zenon DEF Visit
  <2>4. WalkTypeOK'
    BY <2>0, <2>3 DEF WalkTypeOK
  <2>5. CoverageIsExact'
    BY <2>0, <2>1, <2>3, Zenon DEF CoverageIsExact
  <2>6. DropsExactlyTheDead'
    <3> SUFFICES ASSUME NEW k \in 1..Len(ops)
                 PROVE  keep'[k] = ~ (k > at' /\ Dead(ops, k))
      BY <2>0, Zenon DEF DropsExactlyTheDead
    <3>1. CASE k = at
      BY <2>0, <2>3, <3>1
    <3>2. CASE k # at
      <4>1. k > at' <=> k > at
        BY <2>0, <3>2
      <4>2. keep[k] = ~ (k > at /\ Dead(ops, k))
        BY Zenon DEF DeadStoresInv, DropsExactlyTheDead
      <4> QED BY <2>3, <3>2, <4>1, <4>2, Zenon
    <3> QED BY <3>1, <3>2, Zenon
  <2> QED BY <2>4, <2>5, <2>6, Zenon DEF DeadStoresInv
<1>3. CASE WalkFinished
  BY <1>1, <1>3, Zenon DEF WalkFinished
<1> QED BY <1>1, <1>2, <1>3, Zenon DEF WalkNext

(* The walk's coverage set and flags are exact at every turn of the loop,   *)
(* for every list of operations.                                            *)
THEOREM DeadStoresInvariant == WalkSpec => []DeadStoresInv
  BY DeadStoresInit, DeadStoresStep, PTL DEF WalkSpec

(* For every list of operations: what the walk drops is dead, and what is   *)
(* dead it drops.                                                           *)
THEOREM DropsDeadStores == WalkSpec => []DropsExactlyTheDead
<1>1. DeadStoresInv => DropsExactlyTheDead
  BY Zenon DEF DeadStoresInv
<1> QED BY <1>1, DeadStoresInvariant, PTL

(* Positions of a fresh snapshot: nothing is placed yet.                    *)
LEMMA NothingPlaced ==
  ASSUME NEW classes, Len(classes) \in Nat, DOMAIN classes = 1..Len(classes)
  PROVE  PlacedBefore(classes, 1, <<>>)
  BY DEF PlacedBefore, InPairs


-----------------------------------------------------------------------------
(* The dispatcher. *)

(* Which position of the catalog each pass has. *)
LEMMA PassNumbers ==
  ASSUME pass \in Nat \ {0}
  PROVE  /\ Applying("peephole") => pass = 2
         /\ Applying("schedule") => pass = 3
         /\ Applying("dse") => pass = 4
         /\ Applying("macro-fusion") => pass = 5
         /\ Applying("branch-hint") => pass = 6
         /\ Applying("pool-constants") => pass = 8
         /\ Applying("tailcall") => pass = 9
         /\ Applying("unroll") => pass = 10
<1>1. Len(canonical_catalog) = 10
  BY Zenon DEF canonical_catalog
<1>2. ASSUME pass <= 10
      PROVE  pass \in {1, 2, 3, 4, 5, 6, 7, 8, 9, 10}
  BY <1>2
<1> QED BY <1>1, <1>2 DEF Applying, canonical_catalog

-----------------------------------------------------------------------------
(* unroll.rs *)

(* How often the n-th loop of ls runs its body. *)
Adds(ls, n) ==
  ls[n].trip * ls[n].bodies + IF ls[n].remainder = NoLoop THEN 0 ELSE ls[ls[n].remainder].trip

(* A loop is as the passes found it, or it has been unrolled: its remainder *)
(* loop, if any, is a new one, and the iterations are the same.             *)
Unrolled(n, old, new) ==
  /\ new[n].remainder = NoLoop \/ new[n].remainder \in (Len(old) + 1)..Len(new)
  /\ old[n].bodies = 1 => Adds(new, n) = old[n].trip

UnrollInv ==
  /\ pass \in Nat \ {0} /\ i \in Nat \ {0}
  /\ source.loops \in Seq(SourceLoop)
  /\ loops \in Seq(Loop)
  /\ Len(loops) >= Len(source.loops)
  /\ pass = 10 => ids = [k \in 1..Len(source.loops) |-> k]
  /\ pass < 10 => loops = source.loops
  /\ \A n \in 1..Len(source.loops) :
       \/ loops[n] = source.loops[n]
       \/ /\ pass > 10 \/ (pass = 10 /\ n < i)
          /\ Unrolled(n, source.loops, loops)

LEMMA UnrollInit == Init => UnrollInv
<1> SUFFICES ASSUME Init PROVE UnrollInv
  BY Zenon
<1>1. PICK family \in Arenas : \E a \in family : loops = a.loops /\ source.loops = a.loops
  BY DEF Init
<1>2. PICK a \in family : loops = a.loops /\ source.loops = a.loops
  BY <1>1, Zenon
<1>3. a.loops \in Seq(SourceLoop)
  BY ArenaAssumption, Zenon DEF IsArena
<1>4. a.loops \in Seq(Loop)
  BY <1>3 DEF SourceLoop
<1> QED BY <1>2, <1>3, <1>4 DEF Init, UnrollInv

(* What a step other than a turn of the unroller does to the loops: it is   *)
(* a turn of another pass or goes on to the next one.                       *)
PassGoesOn ==
  /\ UNCHANGED <<loops, source, pass, ids>>
  /\ i' \in Nat \ {0}
  /\ pass # 10 \/ i' = i

PassReturns ==
  /\ UNCHANGED <<loops, source>>
  /\ NextPass(table')

LEMMA PassSteps ==
  ASSUME pass \in Nat \ {0}, i \in Nat \ {0}, [Next]_vars
  PROVE  PassGoesOn \/ PassReturns \/ UnrollLoop
<1>1. ASSUME NEW t, NextPass(t), UNCHANGED <<loops, source>>
      PROVE  PassReturns
  BY <1>1, Zenon DEF NextPass, PassReturns
<1>2. ASSUME NEW n \in Nat, NEW t, NEW names, TurnOf(n, t, names), pass # 10
      PROVE  PassGoesOn
  BY <1>2 DEF TurnOf, PassGoesOn
<1>3. ASSUME NEW name, EndOfIds(name)
      PROVE  PassReturns
  BY <1>3, <1>1, Zenon DEF EndOfIds
<1>4. CASE UNCHANGED vars
  BY <1>4, Zenon DEF vars, PassGoesOn
<1>5. CASE Skip
  BY <1>5, <1>1, Zenon DEF Skip
<1>6. CASE Peephole
  <2>1. CASE PeepholeRemove
    BY <1>2, <2>1, PassNumbers DEF PeepholeRemove
  <2>2. CASE PeepholeReduceMul
    <3>1. PICK s : TurnOf(1, Replace(table, ids[i], "shl", <<At(0).operands[1], Imm64(s)>>), FlagsUse(ids[i]))
      BY <2>2, Zenon DEF PeepholeReduceMul
    <3> QED BY <1>2, <2>2, <3>1, PassNumbers DEF PeepholeReduceMul
  <2>3. CASE PeepholeFuse
    BY <1>2, <2>3, PassNumbers DEF PeepholeFuse
  <2>4. CASE PeepholePushPop
    BY <1>2, <2>4, PassNumbers DEF PeepholePushPop
  <2>5. CASE PeepholeTest
    BY <1>2, <2>5, PassNumbers DEF PeepholeTest
  <2>6. CASE PeepholeKeep
    BY <1>2, <2>6, PassNumbers DEF PeepholeKeep
  <2> QED BY <1>3, <1>6, <2>1, <2>2, <2>3, <2>4, <2>5, <2>6, Zenon DEF Peephole
<1>7. CASE SchedulePlace
  <2>1. Turn(Classes, i, result).i \in Nat \ {0}
    BY DEF Turn
  <2> QED BY <1>7, <2>1, PassNumbers DEF SchedulePlace, PassGoesOn
<1>8. CASE ScheduleApply
  BY <1>8, <1>1, Zenon DEF ScheduleApply
<1>9. CASE Dse
  BY <1>9, <1>1, Zenon DEF Dse
<1>10. CASE MacroFusion
  BY <1>10, <1>1, Zenon DEF MacroFusion
<1>11. CASE BranchHint
  BY <1>11, <1>1, Zenon DEF BranchHint
<1>12. CASE PoolConstants
  BY <1>12, <1>1, Zenon DEF PoolConstants
<1>13. CASE TailCall
  <2>0. ASSUME NEW name, NEW c, NEW n \in Nat, NEW t, Eliminate(name, c, n, t), pass # 10
        PROVE  PassGoesOn
    BY <1>2, <2>0, Zenon DEF Eliminate
  <2>1. CASE TailAlignPad
    BY <2>0, <2>1, PassNumbers DEF TailAlignPad
  <2>2. CASE TailPushPopBracket
    BY <2>0, <2>2, PassNumbers DEF TailPushPopBracket
  <2>3. CASE TailPopRestore
    BY <2>0, <2>3, PassNumbers DEF TailPopRestore
  <2>4. CASE TailTrailingPop
    <3>1. \E n \in Nat : \E t, names : TurnOf(n, t, names)
      BY <2>4, Zenon DEF TailTrailingPop
    <3> QED BY <1>2, <2>4, <3>1, PassNumbers DEF TailTrailingPop
  <2>5. CASE TailCallRet
    BY <2>0, <2>5, PassNumbers DEF TailCallRet
  <2>6. CASE TailKeep
    BY <1>2, <2>6, PassNumbers DEF TailKeep
  <2> QED BY <1>3, <1>13, <2>1, <2>2, <2>3, <2>4, <2>5, <2>6, Zenon DEF TailCall
<1>14. CASE Unroll
  BY <1>14, <1>3, Zenon DEF Unroll
<1>15. CASE Done
  BY <1>15, <1>4, Zenon DEF Done
<1> QED BY <1>4, <1>5, <1>6, <1>7, <1>8, <1>9, <1>10, <1>11, <1>12, <1>13, <1>14, <1>15, Zenon DEF Next

(* The parts add up to the trip count. *)
LEMMA FactorDivides ==
  ASSUME NEW t \in Nat
  PROVE  /\ t \div Factor \in Nat /\ t % Factor \in Nat
         /\ (t \div Factor) * 4 + (t % Factor) = t
  BY DEF Factor

LEMMA MainLoopIs ==
  ASSUME NEW l \in Loop, NEW m
  PROVE  MainLoop(l, m) = [trip |-> l.trip \div Factor, bodies |-> l.bodies + Factor - 1,
                           blocked |-> l.blocked, remainder |-> m]
<1> DEFINE l1 == [l EXCEPT !.trip = l.trip \div Factor]
           l2 == [l1 EXCEPT !.bodies = l.bodies + Factor - 1]
           l3 == [l2 EXCEPT !.remainder = m]
           fields == {"trip", "bodies", "blocked", "remainder"}
           whole == [trip |-> l.trip \div Factor, bodies |-> l.bodies + Factor - 1,
                     blocked |-> l.blocked, remainder |-> m]
<1>1. l = [f \in fields |-> l[f]]
  BY Zenon DEF Loop
<1>2. DOMAIN l = fields
  BY <1>1, Zenon
<1>3. DOMAIN l1 = fields /\ \A f \in fields : l1[f] = IF f = "trip" THEN l.trip \div Factor ELSE l[f]
  BY <1>2, Zenon
<1>4. l2 = [[l EXCEPT !.trip = l.trip \div Factor] EXCEPT !.bodies = @ + Factor - 1]
  BY <1>3, Zenon
<1>5. MainLoop(l, m) = l3
  BY <1>4, Zenon DEF MainLoop
<1> HIDE DEF l1
<1>6. /\ DOMAIN l2 = fields
      /\ \A f \in fields : l2[f] = IF f = "bodies" THEN l.bodies + Factor - 1 ELSE l1[f]
  BY <1>3, Zenon
<1> HIDE DEF l2
<1>7. l3 = [f \in fields |-> IF f = "remainder" THEN m ELSE l2[f]]
  BY <1>6, Zenon
<1> HIDE DEF l3
<1>8. l3 = whole
  BY <1>3, <1>6, <1>7, Zenon
<1> QED BY <1>5, <1>8, Zenon

(* One turn: loop c becomes the main loop, and the remainder loop, if there *)
(* is a remainder, is added at the end.                                     *)
UnrollTurn(new, ls, c, m) ==
  new = IF m = NoLoop THEN [ls EXCEPT ![c] = MainLoop(ls[c], m)]
        ELSE Append([ls EXCEPT ![c] = MainLoop(ls[c], m)], RemainderLoop(ls[c]))

LEMMA TurnUnrolls ==
  ASSUME NEW ls \in Seq(Loop), NEW new, NEW c \in 1..Len(ls), NEW m,
         Unrolls(ls[c]),
         m = IF ls[c].trip % Factor = 0 THEN NoLoop ELSE Len(ls) + 1,
         UnrollTurn(new, ls, c, m)
  PROVE  /\ new \in Seq(Loop) /\ Len(new) \in {Len(ls), Len(ls) + 1}
         /\ \A n \in 1..Len(ls) : n # c => new[n] = ls[n]
         /\ new[c].remainder = m /\ (m = NoLoop \/ (m = Len(new) /\ m = Len(ls) + 1))
         /\ ls[c].bodies = 1 => Adds(new, c) = ls[c].trip
<1> DEFINE l == ls[c]
           main == MainLoop(l, m)
           rest == RemainderLoop(l)
           base == [ls EXCEPT ![c] = main]
<1>0. Len(ls) \in Nat /\ l \in Loop
  OBVIOUS
<1>1. l.trip \in Nat /\ l.bodies \in Nat /\ l.blocked \in BOOLEAN
  BY <1>0 DEF Unrolls, Loop, Factor, NoTrip
<1> DEFINE quotient == l.trip \div Factor
           left == l.trip % Factor
<1>2. quotient \in Nat /\ left \in Nat /\ quotient * 4 + left = l.trip
  <2>1. /\ l.trip \div Factor \in Nat /\ l.trip % Factor \in Nat
        /\ (l.trip \div Factor) * 4 + (l.trip % Factor) = l.trip
    BY <1>1, FactorDivides, Zenon
  <2> QED BY <2>1, Zenon
<1>3. m \in Nat
  BY <1>0 DEF NoLoop
<1>4. /\ main = [trip |-> quotient, bodies |-> l.bodies + Factor - 1,
                 blocked |-> l.blocked, remainder |-> m]
      /\ main \in Loop
  <2>1. main = [trip |-> quotient, bodies |-> l.bodies + Factor - 1,
                blocked |-> l.blocked, remainder |-> m]
    BY <1>0, MainLoopIs, Zenon
  <2> HIDE DEF quotient, main
  <2>2. l.bodies + Factor - 1 \in Nat
    BY <1>1 DEF Factor
  <2> QED BY <1>1, <1>2, <1>3, <2>1, <2>2, Zenon DEF Loop
<1>5. rest \in Loop /\ rest.trip = left
  BY <1>2, Zenon DEF RemainderLoop, Loop, NoLoop
<1>6. new = IF m = NoLoop THEN base ELSE Append(base, rest)
  BY Zenon DEF UnrollTurn
<1>7. m = IF left = 0 THEN NoLoop ELSE Len(ls) + 1
  BY Zenon
<1>8. m = NoLoop <=> left = 0
  BY <1>0, SMTT(30) DEF NoLoop
<1>9. main.trip = quotient /\ main.bodies = l.bodies + 3 /\ main.remainder = m
  BY <1>1, <1>4 DEF Factor
<1> HIDE DEF main, rest, quotient, left
<1>10. /\ base \in Seq(Loop) /\ Len(base) = Len(ls) /\ base[c] = main
       /\ \A n \in 1..Len(ls) : n # c => base[n] = ls[n]
  BY <1>0, <1>4
<1> HIDE DEF base
<1>11. CASE m = NoLoop
  <2>1. new = base
    BY <1>6, <1>11, Zenon
  <2>2. Adds(new, c) = quotient * (l.bodies + 3) + 0
    BY <1>9, <1>10, <1>11, <2>1, Zenon DEF Adds
  <2>3. ls[c].bodies = 1 => Adds(new, c) = ls[c].trip
    BY <1>2, <1>8, <1>11, <2>2
  <2> QED BY <1>0, <1>9, <1>10, <1>11, <2>1, <2>3, Zenon
<1>12. CASE m # NoLoop
  <2>1. new = Append(base, rest) /\ m = Len(ls) + 1
    BY <1>6, <1>7, <1>8, <1>12, Zenon
  <2>2. /\ new \in Seq(Loop) /\ Len(new) = Len(ls) + 1 /\ new[c] = main /\ new[m] = rest
        /\ \A n \in 1..Len(ls) : n # c => new[n] = ls[n]
    BY <1>0, <1>5, <1>10, <2>1, SMTT(30)
  <2>3. Adds(new, c) = quotient * (l.bodies + 3) + left
    BY <1>5, <1>9, <1>12, <2>2, Zenon DEF Adds
  <2>4. ls[c].bodies = 1 => Adds(new, c) = ls[c].trip
    BY <1>2, <2>3
  <2> QED BY <1>0, <1>9, <2>1, <2>2, <2>4, Zenon
<1> QED BY <1>11, <1>12, Zenon

LEMMA UnrollStep == UnrollInv /\ [Next]_vars => UnrollInv'
<1> SUFFICES ASSUME UnrollInv, [Next]_vars PROVE UnrollInv'
  BY Zenon
<1>0. pass \in Nat \ {0} /\ i \in Nat \ {0} /\ Len(source.loops) \in Nat /\ Len(loops) \in Nat
  BY DEF UnrollInv
<1>1. CASE PassGoesOn
  BY <1>0, <1>1, Zenon DEF PassGoesOn, UnrollInv
<1>2. CASE PassReturns
  <2>1. pass' = pass + 1 /\ i' = 1 /\ UNCHANGED <<loops, source>>
    BY <1>2, Zenon DEF PassReturns, NextPass
  <2>2. pass' = 10 => ids' = [k \in 1..Len(source.loops) |-> k]
    <3>1. pass' = 10 => pass + 1 = 10 /\ loops = source.loops
      BY <1>0, <2>1 DEF UnrollInv
    <3> QED BY <1>2, <3>1 DEF PassReturns, NextPass, Snapshot
  <2> QED BY <1>0, <2>1, <2>2 DEF UnrollInv
<1>3. CASE UnrollLoop
  <2>0. /\ pass = 10 /\ i \in 1..Len(source.loops) /\ ids[i] = i
        /\ i' = i + 1 /\ UNCHANGED <<source, pass, ids>>
    <3>1. pass = 10
      BY <1>0, <1>3, PassNumbers, Zenon DEF UnrollLoop
    <3>2. ids = [k \in 1..Len(source.loops) |-> k] /\ Len(ids) = Len(source.loops)
      BY <1>0, <3>1 DEF UnrollInv
    <3> QED BY <1>0, <1>3, <3>1, <3>2 DEF UnrollLoop, Remaining
  <2>1. loops[i] = source.loops[i] /\ i \in 1..Len(loops)
    BY <1>0, <2>0 DEF UnrollInv
  <2>2. CASE ~ Unrolls(loops[i])
    <3>1. loops' = loops
      BY <1>3, <2>0, <2>2, Zenon DEF UnrollLoop
    <3> QED BY <1>0, <2>0, <3>1 DEF UnrollInv
  <2>3. CASE Unrolls(loops[i])
    <3> DEFINE m == IF loops[i].trip % Factor = 0 THEN NoLoop ELSE Len(loops) + 1
    <3>1. UnrollTurn(loops', loops, i, m)
      <4>1. Len(loops) + 1 # NoLoop
        BY <1>0 DEF NoLoop
      <4>2. CASE loops[i].trip % Factor = 0
        <5>1. m = NoLoop /\ loops' = [loops EXCEPT ![i] = MainLoop(loops[i], NoLoop)]
          BY <1>3, <2>0, <2>3, <4>2, Zenon DEF UnrollLoop
        <5> HIDE DEF m
        <5> QED BY <5>1, Zenon DEF UnrollTurn
      <4>3. CASE loops[i].trip % Factor # 0
        <5>1. /\ m = Len(loops) + 1
              /\ loops' = Append([loops EXCEPT ![i] = MainLoop(loops[i], Len(loops) + 1)],
                                 RemainderLoop(loops[i]))
          BY <1>3, <2>0, <2>3, <4>3, Zenon DEF UnrollLoop
        <5> HIDE DEF m
        <5> QED BY <4>1, <5>1, Zenon DEF UnrollTurn
      <4> QED BY <4>2, <4>3, Zenon
    <3>2. m = IF loops[i].trip % Factor = 0 THEN NoLoop ELSE Len(loops) + 1
      BY Zenon
    <3> HIDE DEF m
    <3>3. /\ loops' \in Seq(Loop) /\ Len(loops') \in {Len(loops), Len(loops) + 1}
          /\ \A n \in 1..Len(loops) : n # i => loops'[n] = loops[n]
          /\ loops'[i].remainder = m /\ (m = NoLoop \/ (m = Len(loops') /\ m = Len(loops) + 1))
          /\ loops[i].bodies = 1 => Adds(loops', i) = loops[i].trip
      BY <2>1, <2>3, <3>1, <3>2, TurnUnrolls, SMTT(30) DEF UnrollInv
    <3>4. Len(loops') \in Nat /\ Len(loops') >= Len(loops)
      BY <1>0, <3>3
    <3>5. Unrolled(i, source.loops, loops')
      BY <1>0, <2>1, <3>3, <3>4 DEF Unrolled, UnrollInv
    <3>6. ASSUME NEW n \in 1..Len(source.loops), n # i
          PROVE  \/ loops'[n] = source.loops[n]
                 \/ n < i' /\ Unrolled(n, source.loops, loops')
      <4>1. n \in 1..Len(loops) /\ loops'[n] = loops[n]
        BY <1>0, <3>3, <3>6 DEF UnrollInv
      <4>2. CASE loops[n] # source.loops[n]
        <5>1. n < i' /\ Unrolled(n, source.loops, loops)
          BY <1>0, <2>0, <4>2 DEF UnrollInv
        <5>2. loops[n].remainder \in (Len(source.loops) + 1)..Len(loops) =>
                /\ loops[n].remainder \in (Len(source.loops) + 1)..Len(loops')
                /\ loops'[loops[n].remainder] = loops[loops[n].remainder]
          <6> DEFINE rest == loops[n].remainder
          <6> SUFFICES ASSUME rest \in (Len(source.loops) + 1)..Len(loops)
                       PROVE  rest \in (Len(source.loops) + 1)..Len(loops') /\ loops'[rest] = loops[rest]
            BY Zenon
          <6> HIDE DEF rest
          <6>1. rest \in 1..Len(loops) /\ rest # i /\ rest \in (Len(source.loops) + 1)..Len(loops')
            BY <1>0, <2>0, <3>4
          <6> QED BY <3>3, <6>1, Zenon
        <5>3. Adds(loops', n) = Adds(loops, n)
          BY <4>1, <5>1, <5>2, Zenon DEF Adds, Unrolled
        <5> QED BY <4>1, <5>1, <5>2, <5>3, Zenon DEF Unrolled
      <4> QED BY <4>1, <4>2, Zenon
    <3>7. \A n \in 1..Len(source.loops) :
            \/ loops'[n] = source.loops[n]
            \/ n < i' /\ Unrolled(n, source.loops, loops')
      BY <1>0, <2>0, <3>5, <3>6
    <3> QED BY <1>0, <2>0, <3>3, <3>4, <3>7 DEF UnrollInv
  <2> QED BY <2>2, <2>3, Zenon
<1> QED BY <1>0, <1>1, <1>2, <1>3, PassSteps, Zenon

(* For every set of loops: whatever their trip counts, and however many are *)
(* unrolled, each runs its body as often as before.                         *)
THEOREM UnrollingCounts == Spec => []UnrollKeepsIterations
<1>1. UnrollInv => UnrollKeepsIterations
  <2> SUFFICES ASSUME UnrollInv, NEW n \in 1..Len(source.loops),
                      source.loops[n].bodies = 1, source.loops[n].trip # NoTrip
               PROVE  Iterations(n) = source.loops[n].trip
    BY Zenon DEF UnrollKeepsIterations
  <2>1. source.loops[n] \in SourceLoop
    BY DEF UnrollInv
  <2>2. CASE loops[n] = source.loops[n]
    <3>1. loops[n].remainder = NoLoop /\ loops[n].trip \in Nat /\ loops[n].bodies = 1
      BY <2>1, <2>2, Zenon DEF SourceLoop, Loop
    <3> QED BY <2>2, <3>1 DEF Iterations
  <2>3. CASE Unrolled(n, source.loops, loops)
    BY <2>3, Zenon DEF Unrolled, Adds, Iterations
  <2> QED BY <2>2, <2>3, Zenon DEF UnrollInv
<1> QED BY <1>1, UnrollInit, UnrollStep, PTL DEF Spec

-----------------------------------------------------------------------------
(* The side table. *)

LEMMA NewEntry ==
  ASSUME NEW op, NEW operands, NEW order \in Nat, NEW hint
  PROVE  IsEntry([op |-> op, operands |-> operands, emission_order |-> order, hint |-> hint])
  BY Zenon DEF IsEntry

(* u is t with entries of C rewritten or removed, no entry made a Ret or a  *)
(* store, and no emission order changed.                                    *)
Changes(t, u, C) ==
  /\ u = [n \in DOMAIN u |-> u[n]]
  /\ DOMAIN u \subseteq DOMAIN t
  /\ DOMAIN t \ DOMAIN u \subseteq C
  /\ \A n \in DOMAIN u : /\ IsEntry(u[n])
                         /\ u[n].emission_order = t[n].emission_order
                         /\ n \notin C => u[n] = t[n]
                         /\ u[n].op = "ret" => t[n].op = "ret"
                         /\ IsStore(u[n]) => IsStore(t[n]) /\ u[n].operands = t[n].operands

LEMMA NothingChanges ==
  ASSUME NEW t, IsTable(t)
  PROVE  Changes(t, t, {})
  BY Zenon DEF IsTable, Changes

LEMMA WithoutChanges ==
  ASSUME NEW t, NEW u, NEW C, Changes(t, u, C), NEW R
  PROVE  Changes(t, Without(u, R), C \union R)
<1> DEFINE v == Without(u, R)
<1>1. v = [n \in DOMAIN u \ R |-> u[n]]
  BY Zenon DEF Without
<1>2. DOMAIN v = DOMAIN u \ R /\ \A n \in DOMAIN v : n \in DOMAIN u /\ v[n] = u[n]
  BY <1>1, Zenon
<1>3. v = [n \in DOMAIN v |-> v[n]]
  BY <1>1, Zenon
<1> HIDE DEF v
<1>4. Changes(t, v, C \union R)
  BY <1>2, <1>3, Zenon DEF Changes
<1> QED BY <1>4, Zenon DEF v

LEMMA ReplaceChanges ==
  ASSUME NEW t, NEW u, NEW C, Changes(t, u, C), NEW a \in DOMAIN u,
         NEW op, op # "ret", NEW operands, op = "mov" => operands[1].kind = "reg"
  PROVE  Changes(t, Replace(u, a, op, operands), C \union {a})
<1> DEFINE x == u[a]
           y == [op |-> op, operands |-> operands, emission_order |-> x.emission_order, hint |-> x.hint]
           v == Replace(u, a, op, operands)
<1>0. IsEntry(x) /\ u = [n \in DOMAIN u |-> u[n]]
  BY Zenon DEF Changes
<1>1. /\ x = [op |-> x.op, operands |-> x.operands, emission_order |-> x.emission_order, hint |-> x.hint]
      /\ x.emission_order \in Nat
  BY <1>0, Zenon DEF IsEntry
<1>2. [[x EXCEPT !.op = op] EXCEPT !.operands = operands] = y
  <2> DEFINE r == [x EXCEPT !.op = op]
  <2>1. r = [op |-> op, operands |-> x.operands, emission_order |-> x.emission_order, hint |-> x.hint]
    BY <1>1
  <2> HIDE DEF r, x
  <2>2. [r EXCEPT !.operands = operands] = y
    BY <2>1
  <2> QED BY <2>2, Zenon DEF r
<1>3. v = [n \in DOMAIN u |-> IF n = a THEN y ELSE u[n]]
  <2> DEFINE x1 == [x EXCEPT !.op = op]
             u1 == [u EXCEPT ![a] = x1]
  <2>1. v = [u1 EXCEPT ![a] = [u1[a] EXCEPT !.operands = operands]]
    BY Zenon DEF Replace
  <2>2. [x1 EXCEPT !.operands = operands] = y
    BY <1>2, Zenon
  <2> HIDE DEF x1, y
  <2>3. u1[a] = x1 /\ u1 = [n \in DOMAIN u |-> IF n = a THEN x1 ELSE u[n]]
    BY <1>0, Zenon
  <2> HIDE DEF u1
  <2>4. v = [u1 EXCEPT ![a] = y]
    BY <2>1, <2>2, <2>3, Zenon
  <2> HIDE DEF v
  <2> QED BY <2>3, <2>4, Zenon
<1>4. IsEntry(y) /\ y.emission_order = x.emission_order /\ y.op = op /\ ~ IsStore(y)
  BY <1>1, NewEntry DEF IsStore
<1> HIDE DEF y, v
<1>5. DOMAIN v = DOMAIN u /\ \A n \in DOMAIN v : v[n] = IF n = a THEN y ELSE u[n]
  BY <1>3, Zenon
<1>6. v = [n \in DOMAIN v |-> v[n]]
  BY <1>3, <1>5, Zenon
<1>7. Changes(t, v, C \union {a})
  BY <1>4, <1>5, <1>6 DEF Changes
<1> QED BY <1>7, Zenon DEF v

LEMMA HintIs ==
  ASSUME IsTable(table), NEW S, NEW hint
  PROVE  /\ IsTable(Hint(S, hint)) /\ DOMAIN Hint(S, hint) = DOMAIN table
         /\ \A n \in DOMAIN table :
              /\ Hint(S, hint)[n].op = table[n].op
              /\ Hint(S, hint)[n].operands = table[n].operands
              /\ Hint(S, hint)[n].emission_order = table[n].emission_order
<1> DEFINE u == Hint(S, hint)
<1>1. u = [n \in DOMAIN table |->
             IF n \in S /\ table[n].hint = NoHint THEN [table[n] EXCEPT !.hint = hint] ELSE table[n]]
  BY Zenon DEF Hint
<1>2. ASSUME NEW x, IsEntry(x)
      PROVE  LET y == [x EXCEPT !.hint = hint]
             IN  IsEntry(y) /\ y.op = x.op /\ y.operands = x.operands /\ y.emission_order = x.emission_order
  <2>1. [x EXCEPT !.hint = hint] =
          [op |-> x.op, operands |-> x.operands, emission_order |-> x.emission_order, hint |-> hint]
    BY <1>2 DEF IsEntry
  <2>2. x.emission_order \in Nat
    BY <1>2, Zenon DEF IsEntry
  <2> QED BY <2>1, <2>2, NewEntry
<1> HIDE DEF u
<1>3. DOMAIN u = DOMAIN table /\ u = [n \in DOMAIN u |-> u[n]]
  BY <1>1, Zenon
<1>4. ASSUME NEW n \in DOMAIN table
      PROVE  /\ IsEntry(u[n])
             /\ u[n].op = table[n].op
             /\ u[n].operands = table[n].operands
             /\ u[n].emission_order = table[n].emission_order
  <2>1. u[n] = [table[n] EXCEPT !.hint = hint] \/ u[n] = table[n]
    BY <1>1, Zenon
  <2>2. IsEntry(table[n])
    BY Zenon DEF IsTable
  <2> QED BY <1>2, <2>1, <2>2, Zenon
<1>5. IsTable(u)
  BY <1>3, <1>4 DEF IsTable
<1> QED BY <1>3, <1>4, <1>5, Zenon DEF u

-----------------------------------------------------------------------------
(* peephole.rs and tailcall.rs *)

(* What the walks of the two passes that rewrite windows rely on.           *)
WalkInv ==
  /\ pass \in Nat \ {0} /\ i \in Nat \ {0}
  /\ IsTable(table)
  /\ \A n \in DOMAIN table : table[n].op = "ret" => n \in DOMAIN source.table /\ source.table[n].op = "ret"
  /\ pass \in {2, 9} => Walks(table, ids, i)

(* A turn, whatever it records. *)
TurnTo(n, t) == \E names : TurnOf(n, t, names)

(* A turn over a window of n instructions: it turns the table into t by     *)
(* changing instructions of the window only, and no blocked call.           *)
WindowTurn(n, t) ==
  /\ n \in 1..4
  /\ Remaining(n)
  /\ TurnTo(n, t)
  /\ \E C : /\ Changes(table, t, C)
            /\ \A x \in C : \E k \in i..(i + n - 1) : x = ids[k]
            /\ \A x \in C : table[x].op = "call" => ~ Blocked(x)

LEMMA WindowTurns ==
  ASSUME WalkInv, NEW n \in 1..4, Remaining(n), NEW t, TurnTo(n, t),
         NEW C, Changes(table, t, C),
         \A x \in C : \E k \in i..(i + n - 1) : x = ids[k],
         \A x \in C : table[x].op = "call" => ~ Blocked(x)
  PROVE  \E m, u : WindowTurn(m, u)
<1>1. WindowTurn(n, t)
  BY Zenon DEF WindowTurn
<1> QED BY <1>1, Zenon

(* The instructions of a window are there. *)
LEMMA WindowIsThere ==
  ASSUME WalkInv, pass \in {2, 9}, NEW n \in 1..4, Remaining(n), NEW k \in 0..(n - 1)
  PROVE  i + k \in i..(i + n - 1) /\ ids[i + k] \in DOMAIN table /\ i + k \in 1..Len(ids)
  BY DEF WalkInv, Walks, Remaining

LEMMA PeepholeTurns ==
  ASSUME WalkInv, Peephole
  PROVE  EndOfIds("peephole") \/ \E n, t : WindowTurn(n, t)
<1>0. IsTable(table) /\ Changes(table, table, {})
  BY NothingChanges, Zenon DEF WalkInv
<1>1. Applying("peephole") => pass \in {2, 9}
  BY PassNumbers, Zenon DEF WalkInv
<1> DEFINE a == ids[i]
           b == ids[i + 1]
<1>2. ASSUME Applying("peephole"), Remaining(1)
      PROVE  i \in i..(i + 1 - 1) /\ a \in DOMAIN table /\ At(0) = table[a]
  <2>1. i + 0 = i
    BY DEF WalkInv
  <2> QED BY <1>1, <1>2, <2>1, WindowIsThere DEF At
<1>3. ASSUME Applying("peephole"), Remaining(2)
      PROVE  /\ i \in i..(i + 2 - 1) /\ a \in DOMAIN table /\ At(0) = table[a]
             /\ i + 1 \in i..(i + 2 - 1) /\ b \in DOMAIN table /\ At(1) = table[b]
  <2>1. i + 0 = i
    BY DEF WalkInv
  <2> QED BY <1>1, <1>3, <2>1, WindowIsThere, SMTT(30) DEF At
<1>4. CASE PeepholeRemove
  <2>1. /\ Applying("peephole") /\ Remaining(1) /\ At(0).op # "call"
        /\ TurnTo(1, Without(table, {a}))
    BY <1>4, Zenon DEF TurnTo, PeepholeRemove, try_remove_nop_mov, try_simplify_zero
  <2>2. Changes(table, Without(table, {a}), {} \union {a})
    BY <1>0, WithoutChanges, Zenon
  <2> QED BY <1>2, <2>1, <2>2, WindowTurns, SMTT(30)
<1>5. CASE PeepholeReduceMul
  <2>1. /\ Applying("peephole") /\ Remaining(1) /\ At(0).op # "call"
        /\ \E s : TurnTo(1, Replace(table, a, "shl", <<At(0).operands[1], Imm64(s)>>))
    BY <1>5, Zenon DEF TurnTo, PeepholeReduceMul, try_strength_reduce_mul
  <2>2. PICK s : TurnTo(1, Replace(table, a, "shl", <<At(0).operands[1], Imm64(s)>>))
    BY <2>1, Zenon
  <2>3. Changes(table, Replace(table, a, "shl", <<At(0).operands[1], Imm64(s)>>), {} \union {a})
    BY <1>0, <1>2, <2>1, ReplaceChanges, Zenon
  <2> QED BY <1>2, <2>1, <2>2, <2>3, WindowTurns
<1>6. CASE PeepholeFuse
  <2>1. /\ Applying("peephole") /\ Remaining(2) /\ At(0).op # "call" /\ At(1).op # "call"
        /\ TurnTo(2, Without(table, {a, b}))
    BY <1>6, Zenon DEF TurnTo, PeepholeFuse, try_fuse_load_store
  <2>2. Changes(table, Without(table, {a, b}), {} \union {a, b})
    BY <1>0, WithoutChanges, Zenon
  <2> QED BY <1>3, <2>1, <2>2, WindowTurns, SMTT(30)
<1>7. CASE PeepholePushPop
  <2> DEFINE t == Replace(table, a, "mov", <<At(1).operands[1], At(0).operands[1]>>)
  <2>1. /\ Applying("peephole") /\ Remaining(2) /\ At(0).op # "call" /\ At(1).op # "call"
        /\ At(1).operands[1].kind = "reg"
        /\ \/ TurnTo(2, Without(table, {a, b}))
           \/ TurnTo(2, Without(t, {b}))
    BY <1>7, Zenon DEF TurnTo, PeepholePushPop, try_combine_push_pop
  <2>2. Changes(table, Without(table, {a, b}), {} \union {a, b})
    BY <1>0, WithoutChanges, Zenon
  <2>3. Changes(table, t, {} \union {a})
    BY <1>0, <1>3, <2>1, ReplaceChanges, Zenon
  <2> HIDE DEF t
  <2>4. Changes(table, Without(t, {b}), {} \union {a} \union {b})
    BY <2>3, WithoutChanges, Zenon
  <2>5. CASE TurnTo(2, Without(table, {a, b}))
    BY <1>3, <2>1, <2>2, <2>5, WindowTurns, SMTT(30)
  <2>6. CASE TurnTo(2, Without(t, {b}))
    BY <1>3, <2>1, <2>4, <2>6, WindowTurns, SMTT(30)
  <2> QED BY <2>1, <2>5, <2>6, Zenon
<1>8. CASE PeepholeTest
  <2> DEFINE r == At(0).operands[1]
  <2>1. /\ Applying("peephole") /\ Remaining(2) /\ At(0).op # "call"
        /\ TurnTo(1, Replace(table, a, "test", <<r, r>>))
    BY <1>8, Zenon DEF TurnTo, PeepholeTest, try_compare_to_test
  <2>2. Remaining(1)
    BY <2>1, SMTT(30) DEF Remaining, WalkInv
  <2>3. Changes(table, Replace(table, a, "test", <<r, r>>), {} \union {a})
    BY <1>0, <1>2, <2>1, <2>2, ReplaceChanges, Zenon
  <2> QED BY <1>2, <2>1, <2>2, <2>3, WindowTurns, SMTT(30)
<1>9. CASE PeepholeKeep
  <2>1. Remaining(1) /\ TurnTo(1, table)
    BY <1>9, Zenon DEF TurnTo, PeepholeKeep
  <2> QED BY <1>0, <2>1, WindowTurns
<1> QED BY <1>4, <1>5, <1>6, <1>7, <1>8, <1>9, Zenon DEF Peephole

(* A call is not blocked if none of its blockers lies before the Ret of its *)
(* window: that Ret was one in the source too.                              *)
LEMMA Unblocked ==
  ASSUME WalkInv, NEW c \in DOMAIN table, NEW r \in DOMAIN table, c < r,
         IsRet(table[r]), ~ tco_arena_blocker(c, r)
  PROVE  ~ Blocked(c)
<1>1. r \in RetsAfter(c)
  BY Zenon DEF RetsAfter, IsRet, WalkInv
<1> QED BY <1>1, Zenon DEF Blocked, tco_arena_blocker

(* Windows of four, with the call second and the Ret last. *)
LEMMA FourWindow ==
  ASSUME WalkInv, Applying("tailcall"), Remaining(4),
         IsRet(At(3)), At(0).op # "call", At(2).op # "call",
         NEW name, NEW t, Eliminate(name, 1, 4, t),
         NEW C, Changes(table, t, C),
         C \subseteq {ids[i], ids[i + 1], ids[i + 2], ids[i + 3]}
  PROVE  \E m, u : WindowTurn(m, u)
<1>0. pass = 9 /\ i \in Nat \ {0} /\ i + 4 - 1 = i + 3
  BY PassNumbers DEF WalkInv
<1>1. \A k \in 0..3 : i + k \in i..(i + 4 - 1) /\ ids[i + k] \in DOMAIN table /\ i + k \in 1..Len(ids)
  BY <1>0, WindowIsThere
<1>2. i + 0 = i /\ 0 \in 0..3 /\ 1 \in 0..3 /\ 2 \in 0..3 /\ 3 \in 0..3
  BY <1>0, SMTT(30)
<1>3. CASE tco_arena_blocker(ids[i + 1], ids[i + 3])
  <2>1. TurnTo(1, table) /\ Remaining(1)
    BY <1>0, <1>3, SMTT(30) DEF TurnTo, Eliminate, Remaining, WalkInv
  <2>2. Changes(table, table, {})
    BY NothingChanges, Zenon DEF WalkInv
  <2> QED BY <2>1, <2>2, WindowTurns, SMTT(30)
<1>4. CASE ~ tco_arena_blocker(ids[i + 1], ids[i + 3])
  <2>1. TurnTo(4, t)
    BY <1>0, <1>4, Zenon DEF TurnTo, Eliminate
  <2>2. ids[i + 1] < ids[i + 3]
    BY <1>0, <1>1, <1>2, SMTT(30) DEF WalkInv, Walks
  <2>3. ~ Blocked(ids[i + 1])
    BY <1>1, <1>2, <1>4, <2>2, Unblocked, Zenon DEF At
  <2>4. \A x \in C : table[x].op = "call" => ~ Blocked(x)
    BY <1>2, <2>3, Zenon DEF At, IsRet
  <2>5. \A x \in C : \E k \in i..(i + 4 - 1) : x = ids[k]
    BY <1>1, <1>2, Zenon
  <2> QED BY <2>1, <2>4, <2>5, WindowTurns
<1> QED BY <1>3, <1>4, Zenon

LEMMA TailTurns ==
  ASSUME WalkInv, TailCall
  PROVE  EndOfIds("tailcall") \/ \E n, t : WindowTurn(n, t)
<1>0. IsTable(table) /\ Changes(table, table, {}) /\ i \in Nat \ {0}
  BY NothingChanges, Zenon DEF WalkInv
<1>1. Applying("tailcall") => pass \in {2, 9}
  BY PassNumbers, Zenon DEF WalkInv
<1> DEFINE a == ids[i]
           b == ids[i + 1]
           c == ids[i + 2]
           d == ids[i + 3]
<1>2. ASSUME Applying("tailcall"), Remaining(4)
      PROVE  a \in DOMAIN table /\ b \in DOMAIN table /\ c \in DOMAIN table /\ d \in DOMAIN table
  <2>1. i + 0 = i
    BY <1>0
  <2> QED BY <1>1, <1>2, <2>1, WindowIsThere
<1>3. CASE TailAlignPad
  <2>1. /\ Applying("tailcall") /\ Remaining(4) /\ IsRet(At(3))
        /\ At(0).op # "call" /\ At(2).op # "call"
        /\ Eliminate("align-pad", 1, 4, Without(Jump(table, b), {a, d}))
    BY <1>3, Zenon DEF TailAlignPad, align_pad_window, MovesRsp
  <2>2. Changes(table, Jump(table, b), {} \union {b})
    BY <1>0, <1>2, <2>1, ReplaceChanges, Zenon DEF Jump
  <2>3. Changes(table, Without(Jump(table, b), {a, d}), {} \union {b} \union {a, d})
    BY <2>2, WithoutChanges, Zenon
  <2> QED BY <2>1, <2>3, FourWindow, Zenon
<1>4. CASE TailPushPopBracket
  <2> DEFINE t == Replace(table, a, "pop", At(0).operands)
  <2>1. /\ Applying("tailcall") /\ Remaining(4) /\ IsRet(At(3))
        /\ At(0).op # "call" /\ At(2).op # "call"
        /\ Eliminate("push-pop-bracket", 1, 4, Without(Jump(t, b), {c, d}))
    BY <1>4, Zenon DEF TailPushPopBracket, push_pop_window
  <2>2. Changes(table, t, {} \union {a})
    BY <1>0, <1>2, <2>1, ReplaceChanges, Zenon
  <2>3. b \in DOMAIN t
    BY <1>2, <2>1, Zenon DEF Replace
  <2> HIDE DEF t
  <2>4. Changes(table, Jump(t, b), {} \union {a} \union {b})
    BY <2>2, <2>3, ReplaceChanges, Zenon DEF Jump
  <2>5. Changes(table, Without(Jump(t, b), {c, d}), {} \union {a} \union {b} \union {c, d})
    BY <2>4, WithoutChanges, Zenon
  <2> QED BY <2>1, <2>5, FourWindow, Zenon
<1>5. CASE TailPopRestore
  <2>1. /\ Applying("tailcall") /\ Remaining(4) /\ IsRet(At(3))
        /\ At(0).op # "call" /\ At(2).op # "call"
        /\ Eliminate("pop-restore", 1, 4, Without(Jump(table, b), {c, d}))
    BY <1>5, Zenon DEF TailPopRestore, pop_restore_window
  <2>2. Changes(table, Jump(table, b), {} \union {b})
    BY <1>0, <1>2, <2>1, ReplaceChanges, Zenon DEF Jump
  <2>3. Changes(table, Without(Jump(table, b), {c, d}), {} \union {b} \union {c, d})
    BY <2>2, WithoutChanges, Zenon
  <2> QED BY <2>1, <2>3, FourWindow, Zenon
<1>6. CASE TailTrailingPop
  <2> DEFINE t == Replace(table, a, "pop", At(1).operands)
             u == Replace(t, b, "jmp", At(0).operands)
  <2>1. /\ Applying("tailcall") /\ Remaining(3) /\ At(1).op # "call" /\ IsRet(At(2))
        /\ \/ TurnTo(1, table)
           \/ /\ ~ tco_arena_blocker(a, c)
              /\ TurnTo(3, Without(u, {c}))
    BY <1>6, ZenonT(40) DEF TurnTo, TailTrailingPop, trailing_pop_window, tco_arena_blocker_with_earlier
  <2>2. i + 0 = i /\ 0 \in 0..(3 - 1) /\ 1 \in 0..(3 - 1) /\ 2 \in 0..(3 - 1) /\ Remaining(1)
    BY <1>0, <2>1, SMTT(30) DEF Remaining, WalkInv
  <2>3. \A k \in 0..(3 - 1) : i + k \in i..(i + 3 - 1) /\ ids[i + k] \in DOMAIN table /\ i + k \in 1..Len(ids)
    BY <1>1, <2>1, WindowIsThere, SMTT(30)
  <2>4. a \in DOMAIN table /\ b \in DOMAIN table /\ c \in DOMAIN table
    BY <2>2, <2>3, Zenon
  <2>5. Changes(table, t, {} \union {a})
    BY <1>0, <2>4, ReplaceChanges, Zenon
  <2>6. b \in DOMAIN t
    BY <2>4, Zenon DEF Replace
  <2> HIDE DEF t
  <2>7. Changes(table, u, {} \union {a} \union {b})
    BY <2>5, <2>6, ReplaceChanges, Zenon
  <2> HIDE DEF u
  <2>8. Changes(table, Without(u, {c}), {} \union {a} \union {b} \union {c})
    BY <2>7, WithoutChanges, Zenon
  <2>9. CASE TurnTo(1, table)
    BY <1>0, <2>2, <2>9, WindowTurns, SMTT(30)
  <2>10. CASE ~ tco_arena_blocker(a, c) /\ TurnTo(3, Without(u, {c}))
    <3>2. a < c
      BY <1>0, <1>1, <2>1, <2>2, <2>3 DEF WalkInv, Walks
    <3>3. ~ Blocked(a)
      BY <2>1, <2>4, <2>10, <3>2, Unblocked, Zenon DEF At
    <3>4. table[b].op # "call" /\ table[c].op # "call"
      BY <2>1, Zenon DEF At, IsRet
    <3>5. \A x \in {} \union {a} \union {b} \union {c} : \E k \in i..(i + 3 - 1) : x = ids[k]
      BY <2>2, <2>3, Zenon
    <3> QED BY <2>1, <2>8, <2>10, <3>3, <3>4, <3>5, WindowTurns, SMTT(30)
  <2> QED BY <2>1, <2>9, <2>10, Zenon
<1>7. CASE TailCallRet
  <2>1. /\ Applying("tailcall") /\ Remaining(2) /\ IsRet(At(1))
        /\ Eliminate("call-ret", 0, 2, Without(Jump(table, a), {b}))
    BY <1>7, Zenon DEF TailCallRet, call_ret_window
  <2>2. i + 0 = i /\ 0 \in 0..(2 - 1) /\ 1 \in 0..(2 - 1) /\ Remaining(1) /\ i + 2 - 1 = i + 1
    BY <1>0, <2>1, SMTT(30) DEF Remaining, WalkInv
  <2>3. \A k \in 0..(2 - 1) : i + k \in i..(i + 2 - 1) /\ ids[i + k] \in DOMAIN table /\ i + k \in 1..Len(ids)
    BY <1>1, <2>1, WindowIsThere
  <2>4. a \in DOMAIN table /\ b \in DOMAIN table
    BY <2>2, <2>3, Zenon
  <2>5. Changes(table, Jump(table, a), {} \union {a})
    BY <1>0, <2>4, ReplaceChanges, Zenon DEF Jump
  <2>6. Changes(table, Without(Jump(table, a), {b}), {} \union {a} \union {b})
    BY <2>5, WithoutChanges, Zenon
  <2>7. CASE tco_arena_blocker(a, b)
    <3>1. TurnTo(1, table)
      BY <2>1, <2>2, <2>7, Zenon DEF TurnTo, Eliminate
    <3> QED BY <1>0, <2>2, <3>1, WindowTurns
  <2>8. CASE ~ tco_arena_blocker(a, b)
    <3>1. TurnTo(2, Without(Jump(table, a), {b}))
      BY <2>1, <2>2, <2>8, Zenon DEF TurnTo, Eliminate
    <3>2. a < b
      BY <1>0, <1>1, <2>1, <2>2, <2>3, SMTT(30) DEF WalkInv, Walks
    <3>3. ~ Blocked(a) /\ table[b].op # "call"
      BY <2>1, <2>4, <2>8, <3>2, Unblocked, Zenon DEF At, IsRet
    <3>4. \A x \in {} \union {a} \union {b} : \E k \in i..(i + 2 - 1) : x = ids[k]
      BY <2>2, <2>3, Zenon
    <3> QED BY <2>1, <2>6, <3>1, <3>3, <3>4, WindowTurns
  <2> QED BY <2>7, <2>8, Zenon
<1>8. CASE TailKeep
  <2>1. Remaining(1) /\ TurnTo(1, table)
    BY <1>8, Zenon DEF TurnTo, TailKeep
  <2> QED BY <1>0, <2>1, WindowTurns
<1> QED BY <1>3, <1>4, <1>5, <1>6, <1>7, <1>8, Zenon DEF TailCall

=============================================================================
