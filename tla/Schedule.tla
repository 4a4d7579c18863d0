------------------------------ MODULE Schedule ------------------------------
(* schedule_block_impl of crates/paideia-as-ir/src/opt/schedule.rs, one turn *)
(* of its loop per step, on any block of Blocks.                             *)
EXTENDS ScheduleHeuristic

CONSTANT Blocks   \* the blocks to schedule: sequences of instruction classes

ASSUME BlocksAreClassSequences == Blocks \subseteq Seq(InstructionClass)

VARIABLES
  instructions,   \* the classes of the block, in emitted order
  cursor,         \* the next position to look at
  placed          \* the positions placed so far

blockVars == <<instructions, cursor, placed>>

BlockInit ==
  /\ instructions \in Blocks
  /\ cursor = 1
  /\ placed = <<>>

Place ==
  /\ cursor <= Len(instructions)
  /\ cursor' = Turn(instructions, cursor, placed).i
  /\ placed' = Turn(instructions, cursor, placed).result
  /\ UNCHANGED instructions

BlockDone == cursor > Len(instructions)

BlockFinished == BlockDone /\ UNCHANGED blockVars

BlockNext == Place \/ BlockFinished

BlockSpec == BlockInit /\ [][BlockNext]_blockVars

-----------------------------------------------------------------------------
(* The placed positions are positions of the block, and there are as many   *)
(* of them as positions passed.                                             *)
BlockTypeOK ==
  /\ instructions \in Seq(InstructionClass)
  /\ cursor \in Nat \ {0}
  /\ placed \in Seq(1..Len(instructions))
  /\ Len(placed) = cursor - 1

(* The doc of schedule_block promises a permutation of the block: when the  *)
(* loop ends every instruction has been placed exactly once.                *)
ReturnsPermutation ==
  BlockDone =>
    /\ Len(placed) = Len(instructions)
    /\ \A p \in 1..Len(instructions) : \E k \in DOMAIN placed : placed[k] = p
    /\ \A k, l \in DOMAIN placed : placed[k] = placed[l] => k = l

(* "Reordering stops at any barrier (AtomicLocked, Branch)": of two placed  *)
(* instructions that have changed order, neither is a barrier, and none     *)
(* between them in the block is.                                            *)
NothingCrossesABarrier ==
  \A k, l \in DOMAIN placed :
    k < l /\ placed[k] > placed[l] =>
      \A p \in placed[l]..placed[k] : ~ is_barrier(instructions[p])

(* Two instructions change order only if they are neighbours and the later  *)
(* one has the higher latency.  Instructions of equal latency, two stores   *)
(* among them, therefore keep their order, which is what lets the           *)
(* dead-store pass walk them by node id after scheduling.                   *)
OnlySlowerNeighboursPass ==
  \A k, l \in DOMAIN placed :
    k < l /\ placed[k] > placed[l] =>
      /\ placed[k] = placed[l] + 1
      /\ latency(instructions[placed[k]]) > latency(instructions[placed[l]])

-----------------------------------------------------------------------------
(* The inductive invariant: what is placed is cut into instructions left in *)
(* place and hoisted pairs.                                                 *)
ScheduleInv == BlockTypeOK /\ InPairs(instructions, cursor, placed)

=============================================================================
