----------------------------- MODULE MemoryOps -----------------------------
(* The memory operations of crates/paideia-as-ir/src/opt/dse.rs, and what   *)
(* it means for a store to be dead.                                         *)
EXTENDS Naturals, Sequences

Store(a, mmio) == [kind |-> "store", addr |-> a, mmio |-> mmio]
Load(a) == [kind |-> "load", addr |-> a, mmio |-> FALSE]
Barrier(a) == [kind |-> "barrier", addr |-> a, mmio |-> FALSE]

(* x ends the coverage of address a: it reads a, orders memory, or is       *)
(* volatile.                                                                *)
Breaks(x, a) ==
  \/ x.kind = "barrier"
  \/ x.kind = "load" /\ x.addr = a
  \/ x.kind = "store" /\ x.mmio

PlainStore(x, a) == x.kind = "store" /\ ~ x.mmio /\ x.addr = a

(* From position k on, address a is overwritten before it is needed. *)
CoveredFrom(list, k, a) ==
  \E j \in k..Len(list) :
    /\ PlainStore(list[j], a)
    /\ \A h \in k..j : ~ Breaks(list[h], a)

(* The module doc's meaning of a dead store: overwritten by a later store   *)
(* to the same address, with no intervening read, barrier or volatile       *)
(* store.                                                                   *)
Dead(list, k) ==
  PlainStore(list[k], list[k].addr) /\ CoveredFrom(list, k + 1, list[k].addr)

=============================================================================
