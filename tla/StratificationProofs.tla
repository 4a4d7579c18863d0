------------------------ MODULE StratificationProofs ------------------------
(***************************************************************************)
(* The verdict and the strata of compute_strata, for any number of         *)
(* predicates, any edges and every order in which the relaxation takes     *)
(* them.                                                                   *)
(***************************************************************************)
EXTENDS TarjanProofs, FiniteSetTheorems, WellFoundedInduction

VerdictInv ==
    /\ pc # "done" => result = "none"
    /\ pc = "pass" \/ (pc = "done" /\ result = "ok") =>
          \A k \in 1..Len(sccs) : ~NegatedInside(sccs[k])
    /\ pc = "done" /\ result # "ok" =>
          /\ result = "cycle"
          /\ \E k \in 1..Len(sccs) : cycle = sccs[k] /\ NegatedInside(sccs[k])

(* The components that component k depends on, k among them.               *)
Below(k) == {j \in 1..Len(sccs) : \E u \in sccs[j], v \in sccs[k] : Reaches(u, v)}

Satisfied(e) == scc_stratum[e[2]] >= scc_stratum[e[1]] + (IF e[3] THEN 1 ELSE 0)

(* last[c] is the pass that raised c last, 0 if none has.  A component is  *)
(* raised in a later pass than something it depends on, so never in more   *)
(* passes than there are components below it.  An edge is satisfied unless *)
(* its source was raised after the edge was last relaxed.                  *)
LastRaised(last) ==
    /\ \A c \in 1..Len(sccs) :
          last[c] < Cardinality(Below(c)) /\ (~changed => last[c] < passes)
    /\ \A e \in scc_edges :
          Satisfied(e) \/ last[e[1]] >= IF e \in pending THEN passes - 1 ELSE passes

(* What lifts a component: a negated goal one stratum down, or higher.     *)
Supported ==
    \A c \in 1..Len(sccs) : scc_stratum[c] > 0 =>
        \E e \in edges : /\ e[3] /\ scc_stratum[scc_of(e[1])] >= scc_stratum[c] - 1
                         /\ \A v \in sccs[c] : Reaches(e[2], v)

RelaxTypeOK ==
    /\ scc_stratum \in [1..Len(sccs) -> Nat]
    /\ passes \in Nat \ {0}
    /\ pending \subseteq scc_edges
    /\ changed \in BOOLEAN

RelaxInv ==
    pc = "pass" \/ (pc = "done" /\ result = "ok") =>
        /\ RelaxTypeOK
        /\ Supported
        /\ IF pc = "pass" THEN \E last \in [1..Len(sccs) -> 0..passes] : LastRaised(last)
           ELSE \A e \in scc_edges : Satisfied(e)

-----------------------------------------------------------------------------
(* The verdict. *)

(* A set of naturals has a least element.                                  *)
LEMMA LeastNat ==
  ASSUME NEW T, T \subseteq Nat, T # {}
  PROVE  \E x \in T : \A y \in T : x <= y
<1> DEFINE R == {ss \in Nat \X Nat : ss[1] < ss[2]}
<1>1. IsWellFoundedOn(R, Nat)
  BY NatLessThanWellFounded, Zenon DEF OpToRel
<1>2. \A x, y \in Nat : y < x => <<y, x>> \in R
  BY Zenon
<1> HIDE DEF R
<1>3. PICK x \in T : \A y \in T : <<y, x>> \notin R
  BY <1>1, WFMin, Zenon
<1>4. ASSUME NEW y \in T PROVE x <= y
  <2>1. x \in Nat /\ y \in Nat
    BY <1>3, Zenon
  <2>2. ~(y < x)
    BY <1>2, <1>3, <2>1, Zenon
  <2> QED  BY <2>1, <2>2
<1> QED  BY <1>4, Zenon

LEMMA SameNegatedInside ==
  ASSUME edges' = edges
  PROVE  \A c : NegatedInside(c)' <=> NegatedInside(c)
  BY Zenon DEF NegatedInside

LEMMA VerdictStep ==
  ASSUME SccInv, VerdictInv, [Next]_vars
  PROVE  VerdictInv'
<1>1. CASE UNCHANGED vars
  <2>1. UNCHANGED <<edges, pc, sccs, result, cycle>>
    BY <1>1, Zenon DEF vars
  <2> QED BY <2>1, SameNegatedInside, Zenon DEF VerdictInv
<1>2. CASE NextRoot \/ VisitChild \/ CloseFrame \/ SearchDone
  <2>1. pc = "search" /\ pc' \in {"search", "reject"} /\ result' = result
    BY <1>2, Zenon DEF NextRoot, VisitChild, CloseFrame, SearchDone, verdict
  <2> QED BY <2>1, Zenon DEF VerdictInv
<1>3. CASE Reject
  <2> DEFINE bad == {k \in 1..Len(sccs) : NegatedInside(sccs[k])}
             k0 == CHOOSE k \in bad : \A j \in bad : k <= j
  <2>1. UNCHANGED <<edges, sccs>> /\ pc = "reject" /\ result = "none"
    BY <1>3, Zenon DEF Reject, search, VerdictInv
  <2>2. CASE bad = {}
    <3>1. pc' = "pass" /\ result' = result
      BY <1>3, <2>2, Zenon DEF Reject, verdict
    <3>2. \A k \in 1..Len(sccs) : ~NegatedInside(sccs[k])
      BY <2>2, Zenon
    <3> QED BY <2>1, <3>1, <3>2, SameNegatedInside, Zenon DEF VerdictInv
  <2>3. CASE bad # {}
    <3>1. pc' = "done" /\ result' = "cycle" /\ cycle' = sccs[k0]
      BY <1>3, <2>3, Zenon DEF Reject
    <3>2. \E k \in bad : \A j \in bad : k <= j
      <4>1. bad \subseteq Nat
        OBVIOUS
      <4> HIDE DEF bad
      <4> QED BY <2>3, <4>1, LeastNat, Zenon
    <3>3. k0 \in bad
      BY <3>2, Zenon
    <3> QED BY <2>1, <3>1, <3>3, SameNegatedInside, Zenon DEF VerdictInv
  <2> QED BY <2>2, <2>3, Zenon
<1>4. CASE Relax
  <2>1. UNCHANGED <<edges, sccs, pc, result, cycle>>
    BY <1>4, Zenon DEF Relax, search, verdict
  <2> QED BY <2>1, SameNegatedInside, Zenon DEF VerdictInv
<1>5. CASE EndPass
  <2>1. /\ UNCHANGED <<edges, sccs>> /\ pc = "pass"
        /\ \/ pc' = "pass" /\ result' = result
           \/ pc' = "done" /\ result' = "ok"
    BY <1>5, Zenon DEF EndPass, search, verdict
  <2> QED BY <2>1, SameNegatedInside, Zenon DEF VerdictInv
<1> QED BY <1>1, <1>2, <1>3, <1>4, <1>5, Zenon DEF Next

LEMMA VerdictHolds == Spec => [](SccInv /\ VerdictInv)
<1>1. Init => VerdictInv
  BY Zenon DEF Init, VerdictInv
<1>2. SccInv /\ VerdictInv /\ [Next]_vars => VerdictInv'
  BY VerdictStep, Zenon
<1> QED BY <1>1, <1>2, SccInvHolds, PTL DEF Spec

(* compute_strata refuses a program exactly when some negated goal lies on *)
(* a cycle, and the component it reports is the class of such a goal.      *)
THEOREM RejectionIsExact == Spec => []RejectsExactly
<1>1. SccInv /\ VerdictInv => RejectsExactly
  <2> SUFFICES ASSUME SccInv, VerdictInv, pc = "done" PROVE RejectsExactly
    BY Zenon DEF RejectsExactly
  <2> DEFINE rec == {e \in edges : e[3] /\ Reaches(e[2], e[1])}
  <2>1. Partition /\ edges \in Graph
    BY Zenon DEF SccInv
  <2>2. ASSUME NEW e \in rec PROVE \E k \in 1..Len(sccs) : NegatedInside(sccs[k])
    <3>1. e \in edges /\ e[3] /\ e[1] \in Preds /\ e[2] \in Preds
      BY <2>1, EdgesTyped, Zenon
    <3>2. PICK k \in 1..Len(sccs) : e[1] \in sccs[k]
      BY <2>1, <3>1, Zenon DEF Partition
    <3>3. e[2] \in sccs[k]
      BY <2>1, <3>1, <3>2, ReachEdge, Zenon DEF Partition, Class
    <3> QED BY <3>1, <3>2, <3>3, Zenon DEF NegatedInside
  <2>3. ASSUME NEW k \in 1..Len(sccs), NegatedInside(sccs[k])
        PROVE  \E e \in rec : sccs[k] = Class(e[1])
    <3>1. PICK e \in edges : e[3] /\ e[1] \in sccs[k] /\ e[2] \in sccs[k]
      BY <2>3, Zenon DEF NegatedInside
    <3>2. sccs[k] = Class(e[1])
      BY <2>1, <3>1, Zenon DEF Partition
    <3>3. Reaches(e[2], e[1])
      BY <3>1, <3>2, Zenon DEF Class
    <3> QED BY <3>1, <3>2, <3>3, Zenon
  <2> HIDE DEF rec
  <2>4. CASE rec = {}
    <3>1. result = "ok"
      BY <2>3, <2>4, Zenon DEF VerdictInv
    <3> QED BY <2>4, <3>1, Zenon DEF RejectsExactly, rec
  <2>5. CASE rec # {}
    <3>1. result # "ok"
      BY <2>2, <2>5, Zenon DEF VerdictInv
    <3>2. result = "cycle" /\ \E e \in rec : cycle = Class(e[1])
      BY <2>3, <3>1, Zenon DEF VerdictInv
    <3>3. \E e \in rec : cycle = {w \in Preds : Reaches(e[1], w) /\ Reaches(w, e[1])}
      BY <3>2, Zenon DEF Class
    <3> QED BY <2>5, <3>2, <3>3, Zenon DEF RejectsExactly, rec
  <2> QED BY <2>4, <2>5, Zenon
<1> QED BY <1>1, VerdictHolds, PTL

-----------------------------------------------------------------------------
(* The strata. *)

LEMMA SccOf ==
  ASSUME Partition, NEW v \in Preds
  PROVE  /\ scc_of(v) \in 1..Len(sccs) /\ v \in sccs[scc_of(v)]
         /\ \A k \in 1..Len(sccs) : v \in sccs[k] => k = scc_of(v)
<1>1. \E k \in 1..Len(sccs) : v \in sccs[k]
  BY Zenon DEF Partition
<1>2. scc_of(v) \in 1..Len(sccs) /\ v \in sccs[scc_of(v)]
  BY <1>1, Zenon DEF scc_of
<1>3. ASSUME NEW k \in 1..Len(sccs), v \in sccs[k] PROVE k = scc_of(v)
  <2>1. sccs[k] \intersect sccs[scc_of(v)] # {}
    BY <1>2, <1>3, Zenon
  <2> QED BY <1>2, <2>1, Zenon DEF Partition
<1> QED BY <1>2, <1>3, Zenon

(* In a component everything reaches everything.                           *)
LEMMA WithinComponent ==
  ASSUME Partition, NEW k \in 1..Len(sccs), NEW u \in sccs[k], NEW v \in sccs[k]
  PROVE  Reaches(u, v) /\ u \in Preds
<1>1. sccs[k] = Class(u) /\ sccs[k] \in SUBSET Preds
  BY Element, Zenon DEF Partition
<1> QED BY <1>1, Zenon DEF Class

(* An edge of the component graph stands for edges between the components, *)
(* a negated one for a negated edge among others; and every edge between   *)
(* two components has one that is negated whenever it is.                  *)
LEMMA EdgeBetween ==
  ASSUME Partition, edges \in Graph, NEW a \in scc_edges
  PROVE  /\ a[1] \in 1..Len(sccs) /\ a[2] \in 1..Len(sccs) /\ a[1] # a[2] /\ a[3] \in BOOLEAN
         /\ \E e \in edges : scc_of(e[1]) = a[1] /\ scc_of(e[2]) = a[2] /\ (a[3] => e[3])
<1> DEFINE pairs == {<<scc_of(e[1]), scc_of(e[2])>> : e \in edges}
           Neg(p) == \E e \in edges : e[3] /\ scc_of(e[1]) = p[1] /\ scc_of(e[2]) = p[2]
<1>1. scc_edges = {<<p[1], p[2], Neg(p)>> : p \in {q \in pairs : q[1] # q[2]}}
  BY Zenon DEF scc_edges
<1>2. PICK p \in pairs : p[1] # p[2] /\ a = <<p[1], p[2], Neg(p)>>
  BY <1>1, Zenon
<1>3. PICK e \in edges : p = <<scc_of(e[1]), scc_of(e[2])>>
  BY Zenon
<1>4. a[1] = p[1] /\ a[2] = p[2] /\ a[3] = Neg(p) /\ a[3] \in BOOLEAN
  BY <1>2, Zenon
<1>5. p[1] = scc_of(e[1]) /\ p[2] = scc_of(e[2]) /\ e[1] \in Preds /\ e[2] \in Preds
  BY <1>3, EdgesTyped, Zenon
<1>6. a[1] \in 1..Len(sccs) /\ a[2] \in 1..Len(sccs) /\ a[1] # a[2]
  BY <1>2, <1>4, <1>5, SccOf, Zenon
<1>7. \E f \in edges : scc_of(f[1]) = a[1] /\ scc_of(f[2]) = a[2] /\ (a[3] => f[3])
  <2>1. CASE a[3]
    BY <1>4, <2>1, Zenon
  <2>2. CASE ~a[3]
    BY <1>4, <1>5, <2>2, Zenon
  <2> QED BY <2>1, <2>2, Zenon
<1> QED BY <1>4, <1>6, <1>7, Zenon

LEMMA EdgeCovered ==
  ASSUME Partition, edges \in Graph, NEW e \in edges, scc_of(e[1]) # scc_of(e[2])
  PROVE  \E a \in scc_edges :
            a[1] = scc_of(e[1]) /\ a[2] = scc_of(e[2]) /\ (e[3] => a[3])
<1> DEFINE pairs == {<<scc_of(f[1]), scc_of(f[2])>> : f \in edges}
           Neg(p) == \E f \in edges : f[3] /\ scc_of(f[1]) = p[1] /\ scc_of(f[2]) = p[2]
           p0 == <<scc_of(e[1]), scc_of(e[2])>>
           a0 == <<p0[1], p0[2], Neg(p0)>>
<1>1. scc_edges = {<<p[1], p[2], Neg(p)>> : p \in {q \in pairs : q[1] # q[2]}}
  BY Zenon DEF scc_edges
<1>2. p0 \in pairs /\ p0[1] # p0[2] /\ p0[1] = scc_of(e[1]) /\ p0[2] = scc_of(e[2])
  BY Zenon
<1>3. a0 \in scc_edges
  BY <1>1, <1>2, Zenon
<1>4. a0[1] = p0[1] /\ a0[2] = p0[2] /\ a0[3] = Neg(p0)
  BY Zenon
<1>5. e[3] => a0[3]
  BY <1>2, <1>4, Zenon
<1> QED BY <1>2, <1>3, <1>4, <1>5, Zenon

(* A component has fewer components below it than what depends on it.      *)
LEMMA BelowCounts ==
  ASSUME Partition, NEW c \in 1..Len(sccs)
  PROVE  /\ IsFiniteSet(Below(c)) /\ Cardinality(Below(c)) \in Nat
         /\ Cardinality(Below(c)) <= Len(sccs) /\ Cardinality(Below(c)) > 0
<1> DEFINE N == Len(sccs)
<1>1. N \in Nat /\ IsFiniteSet(1..N) /\ Cardinality(1..N) = N
  BY FS_Interval DEF Partition
<1>2. Below(c) \in SUBSET (1..N)
  BY Zenon DEF Below
<1>3. IsFiniteSet(Below(c)) /\ Cardinality(Below(c)) <= N
  BY <1>1, <1>2, FS_Subset
<1>4. Cardinality(Below(c)) \in Nat
  BY <1>3, FS_CardinalityType, Zenon
<1>5. Cardinality(Below(c)) > 0
  <2>1. c \in Below(c)
    BY ReachSelf DEF Below, Partition
  <2>2. Cardinality(Below(c)) # 0
    BY <1>3, <2>1, FS_EmptySet, Zenon
  <2> QED BY <1>4, <2>2
<1> QED BY <1>3, <1>4, <1>5, Zenon

LEMMA BelowGrows ==
  ASSUME Partition, edges \in Graph, NEW a \in scc_edges
  PROVE  Cardinality(Below(a[1])) < Cardinality(Below(a[2]))
<1> DEFINE B1 == Below(a[1])
           B2 == Below(a[2])
<1>1. a[1] \in 1..Len(sccs) /\ a[2] \in 1..Len(sccs) /\ a[1] # a[2]
  BY EdgeBetween, Zenon
<1>2. PICK e \in edges : scc_of(e[1]) = a[1] /\ scc_of(e[2]) = a[2]
  BY EdgeBetween
<1>3. e[1] \in sccs[a[1]] /\ e[2] \in sccs[a[2]]
  BY <1>2, EdgesTyped, SccOf, Zenon
<1>4. B1 \subseteq B2
  <2> SUFFICES ASSUME NEW j \in B1 PROVE j \in B2
    BY Zenon
  <2>1. PICK u \in sccs[j], v \in sccs[a[1]] : Reaches(u, v)
    BY Zenon DEF Below
  <2>2. Reaches(v, e[1]) /\ Reaches(e[1], e[2])
    BY <1>1, <1>3, WithinComponent, ReachEdge, Zenon
  <2>3. Reaches(u, e[2])
    BY <2>1, <2>2, ReachTrans, Zenon
  <2> QED BY <1>3, <2>3, Zenon DEF Below
<1>5. a[2] \in B2
  BY <1>1, <1>3, ReachSelf, Zenon DEF Below
<1>6. a[2] \notin B1
  <2> SUFFICES ASSUME a[2] \in B1 PROVE FALSE
    BY Zenon
  <2>1. PICK u \in sccs[a[2]], v \in sccs[a[1]] : Reaches(u, v)
    BY Zenon DEF Below
  <2>2. Reaches(e[2], u) /\ Reaches(v, e[1])
    BY <1>1, <1>3, <2>1, WithinComponent, Zenon
  <2>3. Reaches(e[2], e[1]) /\ Reaches(e[1], e[2])
    BY <2>1, <2>2, ReachTrans, ReachEdge, Zenon
  <2>4. e[2] \in Class(e[1]) /\ sccs[a[1]] = Class(e[1])
    BY <1>1, <1>3, <2>3, EdgesTyped, Zenon DEF Class, Partition
  <2> QED BY <1>1, <1>3, <2>4 DEF Partition
<1>7. IsFiniteSet(B1) /\ IsFiniteSet(B2) /\ Cardinality(B1) \in Nat /\ Cardinality(B2) \in Nat
  BY <1>1, BelowCounts, Zenon
<1> HIDE DEF B1, B2
<1>8. Cardinality(B1) <= Cardinality(B2) /\ (Cardinality(B2) = Cardinality(B1) => B2 = B1)
  BY <1>4, <1>7, FS_Subset, Zenon
<1> QED BY <1>5, <1>6, <1>7, <1>8 DEF B1, B2

LEMMA SameComponents ==
  ASSUME UNCHANGED <<edges, sccs>>
  PROVE  /\ scc_edges' = scc_edges
         /\ \A v : scc_of(v)' = scc_of(v)
         /\ \A c : Below(c)' = Below(c)
<1>1. \A v : scc_of(v)' = scc_of(v)
  BY Zenon DEF scc_of
<1>2. scc_edges' = scc_edges
  BY DEF scc_edges, scc_of
<1>3. \A c : Below(c)' = Below(c)
  BY SameReach DEF Below
<1> QED BY <1>1, <1>2, <1>3, Zenon

(* Before the first pass no component has been raised.                     *)
LEMMA RejectRelax ==
  ASSUME Partition, edges \in Graph, Reject, pc' = "pass"
  PROVE  RelaxInv'
<1> DEFINE N == Len(sccs)
<1>1. /\ UNCHANGED <<edges, sccs>> /\ scc_stratum' = [k \in 1..N |-> 0] /\ passes' = 1
      /\ pending' = scc_edges /\ changed' = FALSE
  BY Zenon DEF Reject, search
<1>2. scc_edges' = scc_edges /\ \A c : Below(c)' = Below(c)
  BY <1>1, SameComponents, Zenon
<1>3. Supported'
  BY <1>1 DEF Supported
<1>4. PICK last \in [1..N -> 0..1] : \A c \in 1..N : last[c] = 0
  <2>1. [c \in 1..N |-> 0] \in [1..N -> 0..1]
    OBVIOUS
  <2> QED BY <2>1, Zenon
<1>5. ASSUME NEW c \in 1..N PROVE last[c] < Cardinality(Below(c)') /\ last[c] < passes'
  BY <1>1, <1>2, <1>4, BelowCounts
<1>6. ASSUME NEW e \in scc_edges PROVE last[e[1]] >= passes' - 1
  BY <1>1, <1>4, EdgeBetween
<1>7. LastRaised(last)'
  BY <1>1, <1>2, <1>5, <1>6, Zenon DEF LastRaised
<1>8. \E l \in [1..Len(sccs') -> 0..passes'] : LastRaised(l)'
  BY <1>1, <1>4, <1>7, Zenon
<1>9. scc_stratum' \in [1..Len(sccs') -> Nat] /\ passes' \in Nat \ {0}
  BY <1>1
<1> QED BY <1>1, <1>2, <1>3, <1>8, <1>9, Zenon DEF RelaxInv, RelaxTypeOK

(* The relaxed edge a raises its target: it was unsatisfied, so its source *)
(* was raised in this pass or in the one before.                           *)
Raises(a) ==
    /\ UNCHANGED <<edges, sccs, passes>>
    /\ a \in pending /\ pending' = pending \ {a}
    /\ LET s == scc_stratum[a[1]] + (IF a[3] THEN 1 ELSE 0)
       IN s > scc_stratum[a[2]] /\ scc_stratum' = [scc_stratum EXCEPT ![a[2]] = s]
    /\ changed' = TRUE

LEMMA Raised ==
  ASSUME Partition, edges \in Graph, RelaxTypeOK, NEW a, Raises(a)
  PROVE  /\ a \in scc_edges /\ a[1] \in 1..Len(sccs) /\ a[2] \in 1..Len(sccs) /\ a[1] # a[2]
         /\ a[3] \in BOOLEAN
         /\ scc_stratum'[a[2]] = scc_stratum[a[1]] + (IF a[3] THEN 1 ELSE 0)
         /\ scc_stratum'[a[2]] > scc_stratum[a[2]]
         /\ \A c \in 1..Len(sccs) :
               /\ c # a[2] => scc_stratum'[c] = scc_stratum[c]
               /\ scc_stratum[c] \in Nat /\ scc_stratum'[c] \in Nat
               /\ scc_stratum'[c] >= scc_stratum[c]
         /\ scc_stratum' \in [1..Len(sccs) -> Nat]
<1> DEFINE s == scc_stratum[a[1]] + (IF a[3] THEN 1 ELSE 0)
<1>1. a \in scc_edges
  BY Zenon DEF Raises, RelaxTypeOK
<1>2. a[1] \in 1..Len(sccs) /\ a[2] \in 1..Len(sccs) /\ a[1] # a[2] /\ a[3] \in BOOLEAN
  BY <1>1, EdgeBetween, Zenon
<1>3. s \in Nat /\ scc_stratum \in [1..Len(sccs) -> Nat]
  BY <1>2 DEF RelaxTypeOK
<1>4. s > scc_stratum[a[2]] /\ scc_stratum' = [scc_stratum EXCEPT ![a[2]] = s]
  BY Zenon DEF Raises
<1> HIDE DEF s
<1>5. scc_stratum'[a[2]] = s /\ scc_stratum' \in [1..Len(sccs) -> Nat]
  BY <1>2, <1>3, <1>4, Zenon
<1>6. ASSUME NEW c \in 1..Len(sccs)
      PROVE  /\ c # a[2] => scc_stratum'[c] = scc_stratum[c]
             /\ scc_stratum[c] \in Nat /\ scc_stratum'[c] \in Nat
             /\ scc_stratum'[c] >= scc_stratum[c]
  BY <1>2, <1>3, <1>4, SMTT(30)
<1> QED BY <1>1, <1>2, <1>4, <1>5, <1>6, Zenon DEF s

LEMMA RaiseLast ==
  ASSUME Partition, edges \in Graph, RelaxTypeOK, NEW a, Raises(a),
         NEW last \in [1..Len(sccs) -> 0..passes], LastRaised(last)
  PROVE  \E l \in [1..Len(sccs) -> 0..passes] : LastRaised(l)'
<1> DEFINE N == Len(sccs)
<1>1. /\ a \in scc_edges /\ a[1] \in 1..N /\ a[2] \in 1..N /\ a[1] # a[2]
      /\ passes \in Nat \ {0} /\ a \in pending
  BY Raised, Zenon DEF RelaxTypeOK, Raises
<1>2. scc_edges' = scc_edges /\ \A c : Below(c)' = Below(c)
  BY SameComponents, Zenon DEF Raises
<1>3. PICK l \in [1..N -> 0..passes] :
         l[a[2]] = passes /\ \A c \in 1..N : c # a[2] => l[c] = last[c]
  <2>1. [last EXCEPT ![a[2]] = passes] \in [1..N -> 0..passes]
    BY <1>1
  <2> QED BY <1>1, <2>1, Zenon
<1>4. /\ scc_stratum'[a[2]] = scc_stratum[a[1]] + (IF a[3] THEN 1 ELSE 0)
      /\ scc_stratum'[a[2]] > scc_stratum[a[2]]
      /\ \A c \in 1..N : /\ c # a[2] => scc_stratum'[c] = scc_stratum[c]
                         /\ scc_stratum[c] \in Nat /\ scc_stratum'[c] \in Nat
                         /\ scc_stratum'[c] >= scc_stratum[c]
  BY Raised, Zenon
<1>5. ~Satisfied(a)
  BY <1>1, <1>4, SMTT(30) DEF Satisfied
<1>6. last[a[1]] >= passes - 1 /\ last[a[1]] \in Nat /\ last[a[1]] < Cardinality(Below(a[1]))
  BY <1>1, <1>5 DEF LastRaised
<1>7. passes < Cardinality(Below(a[2]))
  <2>1. /\ Cardinality(Below(a[1])) \in Nat /\ Cardinality(Below(a[2])) \in Nat
        /\ Cardinality(Below(a[1])) < Cardinality(Below(a[2]))
    BY <1>1, BelowCounts, BelowGrows, Zenon
  <2> QED BY <1>1, <1>6, <2>1
<1>8. ASSUME NEW c \in 1..N PROVE l[c] < Cardinality(Below(c)')
  BY <1>2, <1>3, <1>7, Zenon DEF LastRaised
<1>9. ASSUME NEW e \in scc_edges
      PROVE  Satisfied(e)' \/ l[e[1]] >= IF e \in pending' THEN passes - 1 ELSE passes
  <2>1. e[1] \in 1..N /\ e[2] \in 1..N /\ e[1] # e[2]
    BY EdgeBetween, Zenon
  <2>2. CASE e[1] = a[2]
    BY <1>1, <1>3, <2>2
  <2>3. CASE e[1] # a[2]
    <3>1. l[e[1]] = last[e[1]] /\ scc_stratum'[e[1]] = scc_stratum[e[1]]
      BY <1>3, <1>4, <2>1, <2>3, Zenon
    <3>2. scc_stratum'[e[2]] >= scc_stratum[e[2]]
      BY <1>4, <2>1, Zenon
    <3>3. CASE Satisfied(e)
      BY <1>4, <2>1, <3>1, <3>2, <3>3, SMTT(30) DEF Satisfied
    <3>4. CASE ~Satisfied(e) /\ e # a
      <4>1. e \in pending' <=> e \in pending
        BY <3>4, Zenon DEF Raises
      <4> QED BY <3>1, <3>4, <4>1, Zenon DEF LastRaised
    <3>5. CASE e = a
      BY <1>4, <2>1, <3>1, <3>5, SMTT(30) DEF Satisfied
    <3> QED BY <3>3, <3>4, <3>5, Zenon
  <2> QED BY <2>2, <2>3, Zenon
<1>10. LastRaised(l)'
  BY <1>2, <1>8, <1>9, Zenon DEF LastRaised, Raises
<1> QED BY <1>3, <1>10, Zenon

(* What supports the source of the raised edge supports its target, or the *)
(* edge does itself.                                                       *)
LEMMA RaiseSupport ==
  ASSUME Partition, edges \in Graph, RelaxTypeOK, NEW a, Raises(a), Supported
  PROVE  Supported'
<1> DEFINE N == Len(sccs)
<1>1. /\ a \in scc_edges /\ a[1] \in 1..N /\ a[2] \in 1..N /\ a[1] # a[2] /\ a[3] \in BOOLEAN
      /\ scc_stratum'[a[2]] = scc_stratum[a[1]] + (IF a[3] THEN 1 ELSE 0)
      /\ scc_stratum'[a[2]] > scc_stratum[a[2]]
      /\ \A c \in 1..N : /\ c # a[2] => scc_stratum'[c] = scc_stratum[c]
                         /\ scc_stratum[c] \in Nat /\ scc_stratum'[c] \in Nat
                         /\ scc_stratum'[c] >= scc_stratum[c]
  BY Raised, Zenon
<1>2. PICK f \in edges : scc_of(f[1]) = a[1] /\ scc_of(f[2]) = a[2] /\ (a[3] => f[3])
  BY <1>1, EdgeBetween, Zenon
<1>3. \A e \in edges : scc_of(e[1]) \in 1..N
  BY EdgesTyped, SccOf, Zenon
<1>4. f[1] \in sccs[a[1]] /\ f[2] \in sccs[a[2]]
  BY <1>2, EdgesTyped, SccOf, Zenon
<1>5. ASSUME NEW c \in 1..N, scc_stratum'[c] > 0
      PROVE  \E e \in edges : /\ e[3] /\ scc_stratum'[scc_of(e[1])] >= scc_stratum'[c] - 1
                              /\ \A v \in sccs[c] : Reaches(e[2], v)
  <2>1. CASE c # a[2]
    <3>1. scc_stratum[c] > 0 /\ scc_stratum'[c] = scc_stratum[c]
      BY <1>1, <1>5, <2>1, Zenon
    <3>2. PICK e \in edges : /\ e[3] /\ scc_stratum[scc_of(e[1])] >= scc_stratum[c] - 1
                             /\ \A v \in sccs[c] : Reaches(e[2], v)
      BY <3>1, Zenon DEF Supported
    <3>3. scc_stratum'[scc_of(e[1])] >= scc_stratum'[c] - 1
      BY <1>1, <1>3, <3>1, <3>2, SMTT(30)
    <3> QED BY <3>2, <3>3, Zenon
  <2>2. CASE c = a[2] /\ a[3]
    <3>1. f[3] /\ scc_stratum'[scc_of(f[1])] >= scc_stratum'[c] - 1
      BY <1>1, <1>2, <2>2, SMTT(30)
    <3>2. \A v \in sccs[c] : Reaches(f[2], v)
      BY <1>4, <2>2, WithinComponent, Zenon
    <3> QED BY <3>1, <3>2, Zenon
  <2>3. CASE c = a[2] /\ ~a[3]
    <3>1. scc_stratum[a[1]] > 0 /\ scc_stratum'[c] = scc_stratum[a[1]]
      BY <1>1, <1>5, <2>3
    <3>2. PICK e \in edges : /\ e[3] /\ scc_stratum[scc_of(e[1])] >= scc_stratum[a[1]] - 1
                             /\ \A v \in sccs[a[1]] : Reaches(e[2], v)
      BY <1>1, <3>1, Zenon DEF Supported
    <3>3. scc_stratum'[scc_of(e[1])] >= scc_stratum'[c] - 1
      BY <1>1, <1>3, <3>1, <3>2, SMTT(30)
    <3>4. Reaches(e[2], f[2])
      BY <1>4, <3>2, ReachEdge, ReachTrans, Zenon
    <3>5. \A v \in sccs[c] : Reaches(f[2], v)
      BY <1>4, <2>3, WithinComponent, Zenon
    <3>6. \A v \in sccs[c] : Reaches(e[2], v)
      BY <3>4, <3>5, ReachTrans, Zenon
    <3> QED BY <3>2, <3>3, <3>6, Zenon
  <2> QED BY <1>1, <2>1, <2>2, <2>3, Zenon
<1>6. UNCHANGED <<edges, sccs>>
  BY Zenon DEF Raises
<1>7. (\A v : scc_of(v)' = scc_of(v)) /\ (\A u, v : Reaches(u, v)' = Reaches(u, v))
  BY <1>6, SameComponents, SameReach, Zenon
<1> QED BY <1>5, <1>6, <1>7, Zenon DEF Supported

LEMMA RelaxKeeps ==
  ASSUME Partition, edges \in Graph, RelaxInv, Relax
  PROVE  RelaxInv'
<1> DEFINE N == Len(sccs)
<1>1. pc = "pass" /\ pc' = "pass" /\ UNCHANGED <<edges, sccs, passes>>
  BY Zenon DEF Relax, search
<1>2. RelaxTypeOK /\ Supported
  BY <1>1, Zenon DEF RelaxInv
<1>3. PICK last \in [1..N -> 0..passes] : LastRaised(last)
  BY <1>1, Zenon DEF RelaxInv
<1>4. PICK a \in pending :
        LET candidate == scc_stratum[a[1]] + (IF a[3] THEN 1 ELSE 0)
        IN /\ pending' = pending \ {a}
           /\ IF candidate > scc_stratum[a[2]]
              THEN scc_stratum' = [scc_stratum EXCEPT ![a[2]] = candidate] /\ changed' = TRUE
              ELSE UNCHANGED <<scc_stratum, changed>>
  BY Zenon DEF Relax
<1> DEFINE s == scc_stratum[a[1]] + (IF a[3] THEN 1 ELSE 0)
<1>5. scc_edges' = scc_edges
  BY <1>1, SameComponents, Zenon
<1>6. pending' = pending \ {a} /\ pending' \subseteq scc_edges'
  BY <1>2, <1>4, <1>5, Zenon DEF RelaxTypeOK
<1>7. CASE s > scc_stratum[a[2]]
  <2>1. Raises(a)
    BY <1>1, <1>4, <1>7, Zenon DEF Raises
  <2>2. \E l \in [1..N -> 0..passes] : LastRaised(l)'
    BY <1>2, <1>3, <2>1, RaiseLast, Zenon
  <2>3. Supported'
    BY <1>2, <2>1, RaiseSupport, Zenon
  <2>4. RelaxTypeOK'
    BY <1>1, <1>2, <1>6, <2>1, Raised, Zenon DEF RelaxTypeOK, Raises
  <2> QED BY <1>1, <2>2, <2>3, <2>4, Zenon DEF RelaxInv
<1>8. CASE ~(s > scc_stratum[a[2]])
  <2>1. UNCHANGED <<scc_stratum, changed>>
    BY <1>4, <1>8, Zenon
  <2>2. a \in scc_edges /\ Satisfied(a)
    <3>1. a \in scc_edges /\ scc_stratum \in [1..N -> Nat]
      BY <1>2, Zenon DEF RelaxTypeOK
    <3>2. a[1] \in 1..N /\ a[2] \in 1..N
      BY <3>1, EdgeBetween, Zenon
    <3> QED BY <1>8, <3>1, <3>2 DEF Satisfied
  <2>3. (\A e : Satisfied(e)' <=> Satisfied(e)) /\ (\A c : Below(c)' = Below(c))
    BY <1>1, <2>1, SameComponents, Zenon DEF Satisfied
  <2>4. ASSUME NEW e \in scc_edges
        PROVE  Satisfied(e)' \/ last[e[1]] >= IF e \in pending' THEN passes - 1 ELSE passes
    <3>1. CASE e = a
      BY <2>2, <2>3, <3>1, Zenon
    <3>2. CASE e # a
      <4>1. e \in pending' <=> e \in pending
        BY <1>6, <3>2, Zenon
      <4> QED BY <1>3, <2>3, <4>1, Zenon DEF LastRaised
    <3> QED BY <3>1, <3>2, Zenon
  <2>5. \A c \in 1..N : last[c] < Cardinality(Below(c)') /\ (~changed' => last[c] < passes)
    BY <1>3, <2>1, <2>3, Zenon DEF LastRaised
  <2>6. LastRaised(last)'
    BY <1>1, <1>5, <2>4, <2>5, Zenon DEF LastRaised
  <2>7. Supported'
    BY <1>1, <1>2, <2>1, SameComponents, SameReach DEF Supported
  <2>8. RelaxTypeOK'
    BY <1>1, <1>2, <1>6, <2>1, Zenon DEF RelaxTypeOK
  <2> QED BY <1>1, <1>3, <2>6, <2>7, <2>8, Zenon DEF RelaxInv
<1> QED BY <1>7, <1>8, Zenon

(* At the end of a pass every edge has been relaxed.  The limit on the     *)
(* passes is never what leaves one unsatisfied: a component raised in the  *)
(* last pass would have more components below it than there are.           *)
LEMMA EndPassKeeps ==
  ASSUME Partition, edges \in Graph, RelaxInv, EndPass
  PROVE  RelaxInv'
<1> DEFINE N == Len(sccs)
<1>1. pc = "pass" /\ pending = {} /\ UNCHANGED <<edges, sccs, scc_stratum>>
  BY Zenon DEF EndPass, search
<1>2. RelaxTypeOK /\ Supported /\ N \in Nat
  BY <1>1 DEF RelaxInv, Partition
<1>3. PICK last \in [1..N -> 0..passes] : LastRaised(last)
  BY <1>1, Zenon DEF RelaxInv
<1>4. /\ \A c \in 1..N : /\ last[c] \in Nat /\ last[c] <= passes
                         /\ last[c] < Cardinality(Below(c)) /\ (~changed => last[c] < passes)
      /\ \A e \in scc_edges : Satisfied(e) \/ last[e[1]] >= passes
      /\ passes \in Nat \ {0} /\ changed \in BOOLEAN
  BY <1>1, <1>2, <1>3 DEF LastRaised, RelaxTypeOK
<1>5. scc_edges' = scc_edges /\ (\A e : Satisfied(e)' <=> Satisfied(e)) /\ (\A c : Below(c)' = Below(c))
  BY <1>1, SameComponents, Zenon DEF Satisfied
<1>6. Supported'
  BY <1>1, <1>2, SameComponents, SameReach DEF Supported
<1>7. CASE changed /\ passes < N
  <2>1. passes' = passes + 1 /\ pending' = scc_edges /\ changed' = FALSE /\ pc' = "pass"
    BY <1>1, <1>7, Zenon DEF EndPass
  <2>2. last \in [1..N -> 0..passes']
    <3>1. 0..passes \subseteq 0..passes'
      BY <1>4, <2>1
    <3> HIDE DEF N
    <3> QED BY <3>1, Zenon
  <2>3. \A c \in 1..N : last[c] < Cardinality(Below(c)') /\ last[c] < passes'
    BY <1>4, <1>5, <2>1
  <2>4. \A e \in scc_edges : Satisfied(e)' \/ last[e[1]] >= passes' - 1
    BY <1>4, <1>5, <2>1
  <2>5. LastRaised(last)'
    BY <1>1, <1>5, <2>1, <2>3, <2>4, Zenon DEF LastRaised
  <2>6. RelaxTypeOK'
    <3>1. passes' \in Nat \ {0}
      BY <1>4, <2>1
    <3> QED BY <1>1, <1>2, <1>5, <2>1, <3>1, Zenon DEF RelaxTypeOK
  <2> QED BY <1>1, <1>6, <2>1, <2>2, <2>5, <2>6, Zenon DEF RelaxInv
<1>8. CASE ~(changed /\ passes < N)
  <2>1. pc' = "done" /\ UNCHANGED <<passes, pending, changed>>
    BY <1>1, <1>8, Zenon DEF EndPass
  <2>2. ASSUME NEW c \in 1..N PROVE last[c] < passes
    <3>1. Cardinality(Below(c)) \in Nat /\ Cardinality(Below(c)) <= N
      BY BelowCounts, Zenon
    <3> QED BY <1>2, <1>4, <1>8, <3>1
  <2>3. ASSUME NEW e \in scc_edges PROVE Satisfied(e)'
    <3>1. e[1] \in 1..N
      BY EdgeBetween, Zenon
    <3> QED BY <1>4, <1>5, <2>2, <3>1
  <2>4. RelaxTypeOK'
    BY <1>1, <1>2, <1>5, <2>1 DEF RelaxTypeOK
  <2> QED BY <1>5, <1>6, <2>1, <2>3, <2>4, Zenon DEF RelaxInv
<1> QED BY <1>7, <1>8, Zenon

LEMMA RelaxStep ==
  ASSUME SccInv, VerdictInv, RelaxInv, [Next]_vars
  PROVE  RelaxInv'
<1>1. CASE UNCHANGED vars
  <2>1. UNCHANGED <<edges, pc, sccs, scc_stratum, passes, pending, changed, result>>
    BY <1>1, Zenon DEF vars
  <2>2. scc_edges' = scc_edges /\ (\A e : Satisfied(e)' <=> Satisfied(e)) /\ (\A c : Below(c)' = Below(c))
    BY <2>1, SameComponents, Zenon DEF Satisfied
  <2>3. \A l : LastRaised(l)' <=> LastRaised(l)
    BY <2>1, <2>2, Zenon DEF LastRaised
  <2>4. Supported' <=> Supported
    BY <2>1, SameComponents, SameReach DEF Supported
  <2>5. RelaxTypeOK' <=> RelaxTypeOK
    BY <2>1, <2>2, Zenon DEF RelaxTypeOK
  <2> QED BY <2>1, <2>2, <2>3, <2>4, <2>5, Zenon DEF RelaxInv
<1>2. CASE NextRoot \/ VisitChild \/ CloseFrame \/ SearchDone
  <2>1. pc' \in {"search", "reject"}
    BY <1>2, Zenon DEF NextRoot, VisitChild, CloseFrame, SearchDone
  <2> QED BY <2>1, Zenon DEF RelaxInv
<1>3. CASE Reject
  <2>1. Partition /\ edges \in Graph /\ pc' \in {"pass", "done"} /\ (pc' = "done" => result' = "cycle")
    BY <1>3, Zenon DEF Reject, SccInv
  <2>2. CASE pc' = "pass"
    BY <1>3, <2>1, <2>2, RejectRelax, Zenon
  <2>3. CASE pc' = "done"
    BY <2>1, <2>3, Zenon DEF RelaxInv
  <2> QED BY <2>1, <2>2, <2>3, Zenon
<1>4. CASE Relax \/ EndPass
  <2>1. Partition /\ edges \in Graph
    BY <1>4, Zenon DEF Relax, EndPass, SccInv
  <2> QED BY <1>4, <2>1, RelaxKeeps, EndPassKeeps, Zenon
<1> QED BY <1>1, <1>2, <1>3, <1>4, Zenon DEF Next

(* The strata order every goal before its head, strictly when it is        *)
(* negated, and are the least that do: the passes allowed are enough in    *)
(* every order of the edges.                                               *)
THEOREM StrataAreLeastAlways == Spec => []StrataAreLeast
<1>1. Init => RelaxInv
  BY Zenon DEF Init, RelaxInv
<1>2. SccInv /\ VerdictInv /\ RelaxInv /\ [Next]_vars => RelaxInv'
  BY RelaxStep, Zenon
<1>3. SccInv /\ VerdictInv /\ RelaxInv => StrataAreLeast
  <2> SUFFICES ASSUME SccInv, VerdictInv, RelaxInv, pc = "done", result = "ok" PROVE StrataAreLeast
    BY Zenon DEF StrataAreLeast
  <2> DEFINE N == Len(sccs)
  <2>1. /\ Partition /\ edges \in Graph /\ RelaxTypeOK /\ Supported
        /\ \A a \in scc_edges : Satisfied(a)
        /\ \A k \in 1..N : ~NegatedInside(sccs[k])
    BY Zenon DEF SccInv, VerdictInv, RelaxInv
  <2>2. \A v \in Preds : /\ scc_of(v) \in 1..N /\ v \in sccs[scc_of(v)] /\ stratum(v) \in Nat
                         /\ stratum(v) = scc_stratum[scc_of(v)]
    BY <2>1, SccOf, Zenon DEF stratum, RelaxTypeOK
  <2>3. ASSUME NEW e \in edges
        PROVE  /\ e[1] \in Preds /\ e[2] \in Preds /\ e[3] \in BOOLEAN
               /\ stratum(e[2]) >= stratum(e[1]) + (IF e[3] THEN 1 ELSE 0)
    <3>1. e[1] \in Preds /\ e[2] \in Preds /\ e[3] \in BOOLEAN
      BY <2>1, EdgesTyped, Zenon
    <3>2. CASE scc_of(e[1]) = scc_of(e[2])
      <4>1. ~e[3]
        BY <2>1, <2>2, <3>1, <3>2, Zenon DEF NegatedInside
      <4> QED BY <2>2, <3>1, <3>2, <4>1
    <3>3. CASE scc_of(e[1]) # scc_of(e[2])
      <4>1. PICK a \in scc_edges : a[1] = scc_of(e[1]) /\ a[2] = scc_of(e[2]) /\ (e[3] => a[3])
        BY <2>1, <3>3, EdgeCovered, Zenon
      <4>2. scc_stratum[a[2]] >= scc_stratum[a[1]] + (IF a[3] THEN 1 ELSE 0) /\ a[3] \in BOOLEAN
        BY <2>1, EdgeBetween, Zenon DEF Satisfied
      <4> QED BY <2>2, <3>1, <4>1, <4>2, SMTT(30)
    <3> QED BY <3>1, <3>2, <3>3, Zenon
  <2>4. ASSUME NEW u \in Preds, NEW v \in Preds, Reaches(u, v) PROVE stratum(u) <= stratum(v)
    <3> DEFINE S == {x \in Preds : stratum(x) >= stratum(u)}
    <3>1. u \in S /\ S \in SUBSET Preds
      BY <2>2
    <3>2. ASSUME NEW e \in edges, e[1] \in S PROVE e[2] \in S
      <4>1. e[2] \in Preds /\ stratum(e[2]) >= stratum(e[1]) + (IF e[3] THEN 1 ELSE 0)
        BY <2>3, Zenon
      <4>2. stratum(e[1]) \in Nat /\ stratum(e[2]) \in Nat /\ stratum(u) \in Nat
        BY <2>2, <2>3, Zenon
      <4>3. stratum(e[1]) >= stratum(u)
        BY <3>2, Zenon
      <4> QED BY <4>1, <4>2, <4>3, SMTT(30)
    <3>3. v \in S
      <4> HIDE DEF S
      <4> QED BY <2>4, <3>1, <3>2, ReachClosed, Zenon
    <3> QED BY <2>2, <3>3, Zenon
  <2>5. ASSUME NEW v \in Preds, stratum(v) > 0
        PROVE  \E e \in edges : /\ e[3] /\ stratum(e[1]) = stratum(v) - 1
                                /\ stratum(e[2]) = stratum(v) /\ Reaches(e[2], v)
    <3>1. PICK e \in edges : /\ e[3] /\ scc_stratum[scc_of(e[1])] >= scc_stratum[scc_of(v)] - 1
                             /\ \A x \in sccs[scc_of(v)] : Reaches(e[2], x)
      BY <2>1, <2>2, <2>5, Zenon DEF Supported
    <3>2. Reaches(e[2], v) /\ e[1] \in Preds /\ e[2] \in Preds
      BY <2>2, <2>3, <3>1, Zenon
    <3>3. stratum(e[2]) <= stratum(v) /\ stratum(e[2]) >= stratum(e[1]) + 1
      BY <2>3, <2>4, <3>1, <3>2, Zenon
    <3>4. stratum(e[1]) >= stratum(v) - 1
      BY <2>2, <3>1, <3>2, Zenon
    <3>5. stratum(e[1]) \in Nat /\ stratum(e[2]) \in Nat /\ stratum(v) \in Nat
      BY <2>2, <3>2, Zenon
    <3>6. stratum(e[1]) = stratum(v) - 1 /\ stratum(e[2]) = stratum(v)
      BY <3>3, <3>4, <3>5
    <3> QED BY <3>1, <3>2, <3>6, Zenon
  <2> QED BY <2>3, <2>5, Zenon DEF StrataAreLeast
<1> QED BY <1>1, <1>2, <1>3, VerdictHolds, PTL DEF Spec
=============================================================================
