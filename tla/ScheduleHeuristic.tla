-------------------------- MODULE ScheduleHeuristic --------------------------
(* The pairwise latency heuristic of the instruction scheduler              *)
(* (crates/paideia-as-ir/src/opt/schedule.rs): the classes an instruction   *)
(* falls into, and one turn of the loop of schedule_block_impl.  Positions  *)
(* count from 1.                                                            *)
EXTENDS Naturals, Sequences

InstructionClass == {"AluReg", "LoadL1", "LoadHigher", "Store", "Branch",
                     "AtomicLocked", "Other"}

latency(class) ==
  CASE class = "LoadL1" -> 4
    [] class = "LoadHigher" -> 12
    [] class = "Other" -> 3
    [] OTHER -> 1

is_barrier(class) == class \in {"AtomicLocked", "Branch"}

(* Mutant: only the next instruction is tested.                           *)
Hoists_past_any_barrier(classes, i) ==
  /\ i + 1 \in DOMAIN classes
  /\ ~ is_barrier(classes[i + 1])
  /\ latency(classes[i + 1]) > latency(classes[i])

(* Mutant: equal latencies are exchanged too.                             *)
Hoists_on_equal_latency(classes, i) ==
  /\ i + 1 \in DOMAIN classes
  /\ ~ is_barrier(classes[i])
  /\ ~ is_barrier(classes[i + 1])
  /\ latency(classes[i + 1]) >= latency(classes[i])

(* The instruction after position i is hoisted above the one at i. *)
Hoists(classes, i) ==
  /\ i + 1 \in DOMAIN classes
  /\ ~ is_barrier(classes[i])
  /\ ~ is_barrier(classes[i + 1])
  /\ latency(classes[i + 1]) > latency(classes[i])

(* Mutant: the hoisted instruction is placed twice.                       *)
Turn_placing_the_same(classes, i, result) ==
  IF Hoists(classes, i)
    THEN [i |-> i + 2, result |-> Append(Append(result, i + 1), i + 1)]
    ELSE [i |-> i + 1, result |-> Append(result, i)]

(* What one turn of the while loop does to (i, result).                     *)
(* The flush loop of the barrier branch pushes the barrier it starts at and *)
(* leaves at once, so a barrier is placed like any instruction not hoisted. *)
Turn(classes, i, result) ==
  IF Hoists(classes, i)
    THEN [i |-> i + 2, result |-> Append(Append(result, i + 1), i)]
    ELSE [i |-> i + 1, result |-> Append(result, i)]

-----------------------------------------------------------------------------
(* Positions k and k + 1 have been exchanged. *)
Swapped(classes, result, k) ==
  /\ k + 1 \in DOMAIN result
  /\ result[k] = k + 1
  /\ result[k + 1] = k
  /\ ~ is_barrier(classes[k])
  /\ ~ is_barrier(classes[k + 1])
  /\ latency(classes[k + 1]) > latency(classes[k])

(* The positions placed before i are those before i: each is in its place   *)
(* or exchanged with a neighbour.                                           *)
InPairs(classes, i, result) ==
  /\ i <= Len(classes) + 1
  /\ \A k \in DOMAIN result :
       \/ result[k] = k
       \/ Swapped(classes, result, k)
       \/ k - 1 \in DOMAIN result /\ Swapped(classes, result, k - 1)

=============================================================================
