---------------------------- MODULE MCCodePasses ----------------------------
(* The dispatcher over every small arena, the two walks it relies on, the   *)
(* scheduler's loop and the dead-store walk, over every short block, and    *)
(* the linker over every pair of small files.  They share nothing, so a     *)
(* behaviour runs one of the four and the others wait in an initial state   *)
(* without work.                                                            *)
EXTENDS MCOptPasses, Schedule, DeadStores, MCLinker

CONSTANTS
  MaxClasses,   \* instructions of a block to schedule
  MaxOps        \* operations of a list to clean

VARIABLE working

all == <<vars, blockVars, walk, linkVars, working>>

(* One class for each latency and each kind of barrier. *)
MCClasses == {"AluReg", "LoadL1", "LoadHigher", "Branch", "AtomicLocked", "Other"}

MCBlocks == BoundedSeq(MCClasses, MaxClasses)

MCOps == {Store(a, FALSE) : a \in Addresses} \union {Load(a) : a \in Addresses}
         \union {Store(1, TRUE), Barrier(1)}

MCOpLists == BoundedSeq(MCOps, MaxOps)

(* An arena of one return and no loop gives the dispatcher nothing to do. *)
NoWork == Cardinality(DOMAIN table) = 1 /\ loops = <<>> /\ requested = {"unroll"}

MCInit ==
  /\ Init
  /\ \/ working = "dispatch" /\ instructions = <<>> /\ ops = <<>>
     \/ working = "schedule" /\ NoWork /\ instructions \in Blocks /\ ops = <<>>
     \/ working = "dse" /\ NoWork /\ instructions = <<>> /\ ops \in OpLists
     \/ working = "link" /\ NoWork /\ instructions = <<>> /\ ops = <<>>
  /\ BlockInit /\ WalkInit /\ LinkInit

MCNext ==
  \/ working = "dispatch" /\ Next /\ UNCHANGED <<blockVars, walk, linkVars, working>>
  \/ working = "schedule" /\ BlockNext /\ UNCHANGED <<vars, walk, linkVars, working>>
  \/ working = "dse" /\ WalkNext /\ UNCHANGED <<vars, blockVars, linkVars, working>>
  \/ working = "link" /\ LinkNext /\ UNCHANGED <<vars, blockVars, walk, working>>

(* Each of the four is one sequential call. *)
MCSpec == MCInit /\ [][MCNext]_all /\ WF_all(MCNext)

(* The dispatcher, the scheduler's loop, the dead-store walk and the linker *)
(* return.                                                                  *)
PassesReturn ==
  <>(CASE working = "dispatch" -> Finished
       [] working = "schedule" -> BlockDone
       [] working = "dse" -> WalkDone
       [] working = "link" -> LinkDone)
=============================================================================
