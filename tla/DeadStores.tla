----------------------------- MODULE DeadStores -----------------------------
(* dse_block_impl of crates/paideia-as-ir/src/opt/dse.rs: the reverse walk   *)
(* that finds the dead stores of a list of memory operations.                *)
EXTENDS MemoryOps

CONSTANTS
  Addresses,
  OpLists      \* the lists of memory operations to clean

MemOp == [kind : {"store", "load", "barrier"}, addr : Addresses, mmio : BOOLEAN]

ASSUME OpListsAreMemOps == OpLists \subseteq Seq(MemOp)

VARIABLES ops, at, covered, keep

walk == <<ops, at, covered, keep>>

WalkInit ==
  /\ ops \in OpLists
  /\ at = Len(ops)
  /\ covered = {}
  /\ keep = [k \in 1..Len(ops) |-> TRUE]

(* Mutant: a barrier does not break coverage.                             *)
VisitBarrier_keeping_coverage ==
  /\ ops[at].kind = "barrier"
  /\ UNCHANGED <<covered, keep>>

VisitBarrier ==
  /\ ops[at].kind = "barrier"
  /\ covered' = {}
  /\ UNCHANGED keep

VisitLoad ==
  /\ ops[at].kind = "load"
  /\ covered' = covered \ {ops[at].addr}
  /\ UNCHANGED keep

VisitStore ==
  /\ ops[at].kind = "store"
  /\ IF ops[at].mmio
       THEN covered' = {} /\ UNCHANGED keep
       ELSE /\ keep' = [keep EXCEPT ![at] = ops[at].addr \notin covered]
            /\ covered' = covered \union {ops[at].addr}

Visit ==
  /\ at > 0
  /\ VisitBarrier \/ VisitLoad \/ VisitStore
  /\ at' = at - 1
  /\ UNCHANGED ops

WalkDone == at = 0

WalkFinished == WalkDone /\ UNCHANGED walk

WalkNext == Visit \/ WalkFinished

WalkSpec == WalkInit /\ [][WalkNext]_walk

-----------------------------------------------------------------------------
(* The walk's cursor, the set of covered addresses and the flags. *)
WalkTypeOK ==
  /\ ops \in Seq(MemOp)
  /\ at \in 0..Len(ops)
  /\ covered \subseteq Addresses
  /\ keep \in [1..Len(ops) -> BOOLEAN]

(* "a store to memory that gets immediately overwritten by a subsequent     *)
(* store to the same address (with no intervening read of that address) is  *)
(* dead": the walk drops exactly the dead operations among those visited.   *)
DropsExactlyTheDead ==
  \A k \in 1..Len(ops) : keep[k] = ~ (k > at /\ Dead(ops, k))

(* The inductive invariant: covered holds the addresses overwritten after   *)
(* the cursor before they are needed.                                       *)
CoverageIsExact ==
  \A a \in Addresses : a \in covered <=> CoveredFrom(ops, at + 1, a)

DeadStoresInv == WalkTypeOK /\ CoverageIsExact /\ DropsExactlyTheDead

=============================================================================
