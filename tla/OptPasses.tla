------------------------------ MODULE OptPasses ------------------------------
(* The optimisation passes of crates/paideia-as-ir/src/opt and their         *)
(* dispatcher, over the instruction side table of an IR arena.               *)
(*                                                                           *)
(* Instructions sit in a table keyed by node id.  The encoder emits them by  *)
(* (emission_order, node id); most passes walk them by node id alone.  A     *)
(* pass is a loop over a snapshot of the ids; each turn of it is a step.     *)
EXTENDS X86Machine, FiniteSets, ScheduleHeuristic, MemoryOps

CONSTANTS
  Arenas,       \* what a build may hand to dispatch, by family; see Init
  Machines      \* the machine states a function is entered in

VARIABLES
  table,        \* node id -> instruction with its emission order and hint
  loops,        \* the arena's loop nodes
  pool,         \* the constant pool
  requested,    \* names of the passes asked for
  pass,         \* position in the catalog
  ids,          \* the running pass's snapshot of the table's keys
  i,            \* its cursor, from 1
  result,       \* the permutation the scheduler is building
  source,       \* the arena as the passes found it
  rewrites      \* names of the rewrites that have fired

vars == <<table, loops, pool, requested, pass, ids, i, result, source, rewrites>>

-----------------------------------------------------------------------------
(* The side table. *)

NoHint == "none"

Operand == [kind : {"reg", "imm", "sym", "mem"}, value : Int, index : Int]

Instruction == [op : STRING, operands : Seq(Operand)]

(* The elements of S sorted, given those of S that come before each.        *)
InOrder(S, before) ==
  [k \in 1..Cardinality(S) |-> CHOOSE x \in S : Cardinality(before[x]) = k - 1]

Smaller(S) == [x \in S |-> {y \in S : y < x}]

SortedIds(t) == InOrder(DOMAIN t, Smaller(DOMAIN t))

EmittedBefore(t) ==
  [x \in DOMAIN t |->
     {y \in DOMAIN t :
        \/ t[y].emission_order < t[x].emission_order
        \/ t[y].emission_order = t[x].emission_order /\ y < x}]

(* The order in which the text emitter encodes the table. *)
EmittedIds(t) == InOrder(DOMAIN t, EmittedBefore(t))

Emitted(t) ==
  LET order == EmittedIds(t)
  IN  [k \in 1..Len(order) |-> Ins(t[order[k]].op, t[order[k]].operands)]

(* A finite table, keyed by numbers.                                        *)
IsEntry(x) ==
  /\ x = [op |-> x.op, operands |-> x.operands, emission_order |-> x.emission_order, hint |-> x.hint]
  /\ x.emission_order \in Nat

IsTable(t) ==
  /\ IsFiniteSet(DOMAIN t)
  /\ DOMAIN t \subseteq Nat
  /\ t = [n \in DOMAIN t |-> t[n]]
  /\ \A n \in DOMAIN t : IsEntry(t[n])

Without(t, S) == [n \in DOMAIN t \ S |-> t[n]]

Replace(t, n, op, operands) == [t EXCEPT ![n].op = op, ![n].operands = operands]

(* The k-th remaining instruction of the running pass's snapshot. *)
At(k) == table[ids[i + k]]
Remaining(n) == i + n - 1 <= Len(ids)

(* What a rewrite takes for granted, for the record: that what the snapshot *)
(* holds from position k to l is emitted in one piece and in that order,    *)
(* and that no branch reads the flags an instruction leaves.                *)
Adjacent(k, l) ==
  LET w == {ids[j] : j \in k..l} \intersect DOMAIN table
      before == EmittedBefore(table)
  IN  \A m, n \in w : m <= n => before[n] \ before[m] = {x \in w : m <= x /\ x < n}

Split(k, l) == IF Adjacent(k, l) THEN {} ELSE {"split-window"}

FlagsRead(n) ==
  LET before == EmittedBefore(table)
  IN  \E j \in DOMAIN table :
        /\ IsJcc(table[j].op)
        /\ n \in before[j]
        /\ \A x \in before[j] \ (before[n] \union {n}) : ~ SetsFlags(table[x].op)

FlagsUse(n) == IF FlagsRead(n) THEN {"flags-read"} ELSE {}

-----------------------------------------------------------------------------
(* The dispatcher. *)

canonical_catalog ==
  <<"noop", "peephole", "schedule", "dse", "macro-fusion", "branch-hint",
    "align", "pool-constants", "tailcall", "unroll">>

Applying(name) ==
  /\ pass <= Len(canonical_catalog)
  /\ canonical_catalog[pass] = name
  /\ name \in requested

(* The scheduler takes the keys in emitted order, the unroller takes the    *)
(* loops, every other pass takes the keys by id.                            *)
Snapshot(p, t) ==
  CASE p = 3 -> EmittedIds(t)
    [] p = 10 -> [k \in 1..Len(loops) |-> k]
    [] OTHER -> SortedIds(t)

(* The pass returns; the next one takes its snapshot of the table t. *)
NextPass(t) ==
  /\ pass' = pass + 1
  /\ table' = t
  /\ ids' = Snapshot(pass + 1, t)
  /\ i' = 1
  /\ result' = <<>>

Skip ==
  /\ pass <= Len(canonical_catalog)
  /\ \/ canonical_catalog[pass] \notin requested
     \/ canonical_catalog[pass] \in {"noop", "align"}
  /\ NextPass(table)
  /\ UNCHANGED <<loops, pool, requested, source, rewrites>>

(* A turn of the running pass: the cursor moves by n, the table becomes t.  *)
TurnOf(n, t, names) ==
  /\ table' = t
  /\ i' = i + n
  /\ rewrites' = rewrites \union names
  /\ UNCHANGED <<loops, pool, requested, pass, ids, result, source>>

EndOfIds(name) ==
  /\ Applying(name)
  /\ i > Len(ids)
  /\ NextPass(table)
  /\ UNCHANGED <<loops, pool, requested, source, rewrites>>

-----------------------------------------------------------------------------
(* peephole.rs *)

IsZero(o) == o = Imm64(0)

try_remove_nop_mov(x) ==
  /\ x.op = "mov"
  /\ x.operands[1].kind = "reg"
  /\ x.operands[1] = x.operands[2]


try_simplify_zero(x) == x.op \in {"add", "sub"} /\ IsZero(x.operands[2])

(* Bounds the immediates; shl r64, imm8 takes shifts up to 63. *)
MaxShift == 8
Shifts(imm) == {s \in 1..MaxShift : 2 ^ s = imm}

try_strength_reduce_mul(x) ==
  /\ x.op = "imul"
  /\ x.operands[1] = x.operands[2]
  /\ Shifts(x.operands[3].value) # {}

try_fuse_load_store(x, y) ==
  /\ x.op = "mov" /\ x.operands[1].kind = "reg" /\ x.operands[2].kind = "mem"
  /\ y.op = "mov" /\ y.operands = <<x.operands[2], x.operands[1]>>

try_combine_push_pop(x, y) ==
  /\ x.op = "push" /\ x.operands[1].kind = "reg"
  /\ y.op = "pop" /\ y.operands[1].kind = "reg"
  /\ Reg(RSP) \notin {x.operands[1], y.operands[1]}

try_compare_to_test(x, y) ==
  /\ x.op = "cmp" /\ x.operands[1].kind = "reg" /\ IsZero(x.operands[2])
  /\ y.op = "jeq"

PeepholeRemove ==
  /\ Applying("peephole")
  /\ Remaining(1)
  /\ try_remove_nop_mov(At(0)) \/ try_simplify_zero(At(0))
  /\ TurnOf(1, Without(table, {ids[i]}),
            IF At(0).op = "mov" THEN {} ELSE FlagsUse(ids[i]))

PeepholeReduceMul ==
  /\ Applying("peephole")
  /\ Remaining(1)
  /\ try_strength_reduce_mul(At(0))
  /\ \E s \in Shifts(At(0).operands[3].value) :
       TurnOf(1, Replace(table, ids[i], "shl", <<At(0).operands[1], Imm64(s)>>),
              FlagsUse(ids[i]))

PeepholeFuse ==
  /\ Applying("peephole")
  /\ Remaining(2)
  /\ try_fuse_load_store(At(0), At(1))
  /\ TurnOf(2, Without(table, {ids[i], ids[i + 1]}), {"fuse-load-store"} \union Split(i, i + 1))

PeepholePushPop ==
  /\ Applying("peephole")
  /\ Remaining(2)
  /\ try_combine_push_pop(At(0), At(1))
  /\ LET src == At(0).operands[1]
         dst == At(1).operands[1]
     IN  IF src = dst
           THEN TurnOf(2, Without(table, {ids[i], ids[i + 1]}), Split(i, i + 1))
           ELSE TurnOf(2, Without(Replace(table, ids[i], "mov", <<dst, src>>), {ids[i + 1]}),
                       Split(i, i + 1))

PeepholeTest ==
  /\ Applying("peephole")
  /\ Remaining(2)
  /\ try_compare_to_test(At(0), At(1))
  /\ LET r == At(0).operands[1]
     IN  TurnOf(1, Replace(table, ids[i], "test", <<r, r>>), Split(i, i + 1))

(* Mutant: the cursor stays where nothing matched.                        *)
PeepholeKeep_without_advancing ==
  /\ Applying("peephole")
  /\ Remaining(1)
  /\ TurnOf(0, table, {})

PeepholeKeep ==
  /\ Applying("peephole")
  /\ Remaining(1)
  /\ ~ (try_remove_nop_mov(At(0)) \/ try_simplify_zero(At(0)) \/ try_strength_reduce_mul(At(0)))
  /\ Remaining(2) => ~ (\/ try_fuse_load_store(At(0), At(1))
                        \/ try_combine_push_pop(At(0), At(1))
                        \/ try_compare_to_test(At(0), At(1)))
  /\ TurnOf(1, table, {})

Peephole ==
  \/ PeepholeRemove \/ PeepholeReduceMul \/ PeepholeFuse \/ PeepholePushPop
  \/ PeepholeTest \/ PeepholeKeep
  \/ EndOfIds("peephole")

-----------------------------------------------------------------------------
(* schedule.rs *)

classify_mnemonic(op) ==
  CASE op \in {"jeq", "jlt", "jmp", "call", "ret"} -> "Branch"
    [] op = "lock" -> "AtomicLocked"
    [] op \in {"push", "pop", "nop"} -> "Other"
    [] OTHER -> "AluReg"

Classes == [k \in 1..Len(ids) |-> classify_mnemonic(table[ids[k]].op)]

SchedulePlace ==
  /\ Applying("schedule")
  /\ i <= Len(ids)
  /\ i' = Turn(Classes, i, result).i
  /\ result' = Turn(Classes, i, result).result
  /\ UNCHANGED <<table, loops, pool, requested, pass, ids, source, rewrites>>

(* Mutant: an instruction keeps its own order.                            *)
Rescheduled_in_place ==
  [n \in DOMAIN table |->
     LET k == CHOOSE k \in 1..Len(result) : ids[result[k]] = n
     IN  [table[n] EXCEPT !.emission_order = table[ids[result[k]]].emission_order]]

(* The instruction placed at k takes the order of the one that was there.   *)
Rescheduled ==
  [n \in DOMAIN table |->
     LET k == CHOOSE k \in 1..Len(result) : ids[result[k]] = n
     IN  [table[n] EXCEPT !.emission_order = table[ids[k]].emission_order]]

ScheduleApply ==
  /\ Applying("schedule")
  /\ i > Len(ids)
  /\ NextPass(Rescheduled)
  /\ UNCHANGED <<loops, pool, requested, source, rewrites>>

-----------------------------------------------------------------------------
(* dse.rs: the list it builds holds the stores alone, keyed by the shape of *)
(* their address; a missing index register counts as register 0.            *)

AddressKey(o) == <<o.value, IF o.index = NoIndex THEN 0 ELSE o.index>>

IsStore(x) == x.op = "mov" /\ x.operands[1].kind = "mem"

StoresIn(t) == {n \in DOMAIN t : IsStore(t[n])}

Stores == StoresIn(table)

StoreIds == InOrder(Stores, Smaller(Stores))

StoreOps == [k \in 1..Len(StoreIds) |->
               Store(AddressKey(table[StoreIds[k]].operands[1]), FALSE)]

(* Mutant: positions among the stores are taken for table positions.      *)
Dse_by_store_position ==
  /\ Applying("dse")
  /\ NextPass(Without(table, {ids[k] : k \in {j \in 1..Len(StoreOps) : Dead(StoreOps, j)}}))
  /\ UNCHANGED <<loops, pool, requested, source, rewrites>>

Dse ==
  /\ Applying("dse")
  /\ NextPass(Without(table, {StoreIds[k] : k \in {j \in 1..Len(StoreOps) : Dead(StoreOps, j)}}))
  /\ UNCHANGED <<loops, pool, requested, source, rewrites>>

-----------------------------------------------------------------------------
(* macro_fusion.rs, branch_hint.rs, pool_constants.rs *)

Hint(S, hint) ==
  [n \in DOMAIN table |->
     IF n \in S /\ table[n].hint = NoHint THEN [table[n] EXCEPT !.hint = hint] ELSE table[n]]

FusionSites ==
  {ids[k] : k \in {j \in 1..(Len(ids) - 1) :
     table[ids[j]].op = "cmp" /\ IsJcc(table[ids[j + 1]].op)}}

MacroFusion ==
  /\ Applying("macro-fusion")
  /\ NextPass(Hint(FusionSites, "fused"))
  /\ UNCHANGED <<loops, pool, requested, source, rewrites>>

BranchHint ==
  /\ Applying("branch-hint")
  /\ NextPass(Hint({n \in DOMAIN table : IsJcc(table[n].op)}, "taken"))
  /\ UNCHANGED <<loops, pool, requested, source, rewrites>>

OperandSites == {s \in (DOMAIN table) \X (1..3) : s[2] \in DOMAIN table[s[1]].operands}

Uses(o) == {s \in OperandSites : table[s[1]].operands[s[2]] = o}

Repeated(o) == o.kind = "imm" /\ Cardinality(Uses(o)) >= 2

PoolCandidates ==
  {o.value : o \in {p \in {table[s[1]].operands[s[2]] : s \in OperandSites} : Repeated(p)}}

PoolConstants ==
  /\ Applying("pool-constants")
  /\ pool' = pool \union PoolCandidates
  /\ NextPass(table)
  /\ UNCHANGED <<loops, requested, source, rewrites>>

-----------------------------------------------------------------------------
(* tailcall.rs *)

NoOwner == 0

(* Mutant: only handlers block.                                           *)
tco_arena_blocker_without_capabilities(call_id, ret_id) ==
  \E h \in source.handlers : call_id < h /\ h < ret_id

(* The handler nodes strictly between two ids, and a call whose required    *)
(* capabilities differ from its owner's declared ones.                      *)
tco_arena_blocker(call_id, ret_id) ==
  \/ \E h \in source.handlers : call_id < h /\ h < ret_id
  \/ source.owner # NoOwner /\ call_id \in source.foreign

tco_arena_blocker_with_earlier(push_id, call_id, ret_id) ==
  \/ tco_arena_blocker(call_id, ret_id)
  \/ \E h \in source.handlers : push_id <= h /\ h < call_id

IsCall(x, kind) == x.op = "call" /\ x.operands[1].kind = kind
IsRet(x) == x.op = "ret"
MovesRsp(x, op) == x.op = op /\ x.operands[1] = Reg(RSP) /\ x.operands[2].kind = "imm"

Jump(t, n) == Replace(t, n, "jmp", t[n].operands)

(* A recognised window: the call is its c-th instruction, the Ret its last, *)
(* and it becomes t unless the call is blocked.                             *)
Eliminate(name, c, n, t) ==
  IF tco_arena_blocker(ids[i + c], ids[i + n - 1])
    THEN TurnOf(1, table, {})
    ELSE TurnOf(n, t, {name} \union Split(i, i + n - 1))

align_pad_window ==
  /\ Remaining(4)
  /\ MovesRsp(At(0), "sub") /\ IsCall(At(1), "reg") /\ MovesRsp(At(2), "add") /\ IsRet(At(3))
  /\ At(0).operands[2] = At(2).operands[2]

TailAlignPad ==
  /\ Applying("tailcall")
  /\ align_pad_window
  /\ Eliminate("align-pad", 1, 4, Without(Jump(table, ids[i + 1]), {ids[i], ids[i + 3]}))

push_pop_window ==
  /\ Remaining(4)
  /\ At(0).op = "push" /\ IsCall(At(1), "sym") /\ At(2).op = "pop" /\ IsRet(At(3))
  /\ At(0).operands = At(2).operands

TailPushPopBracket ==
  /\ Applying("tailcall")
  /\ push_pop_window
  /\ Eliminate("push-pop-bracket", 1, 4,
               Without(Jump(Replace(table, ids[i], "pop", At(0).operands), ids[i + 1]),
                       {ids[i + 2], ids[i + 3]}))

pop_restore_window ==
  /\ Remaining(4)
  /\ At(0).op = "pop" /\ IsCall(At(1), "reg") /\ At(2).op = "pop" /\ IsRet(At(3))
  /\ At(0).operands = At(2).operands

TailPopRestore ==
  /\ Applying("tailcall")
  /\ pop_restore_window
  /\ Eliminate("pop-restore", 1, 4, Without(Jump(table, ids[i + 1]), {ids[i + 2], ids[i + 3]}))

(* The nearest earlier instruction that the backward walk stops at is a     *)
(* push of the popped register.  All instructions here have one owner.      *)
WalkStops ==
  {k \in 1..(i - 1) : /\ ids[k] \in DOMAIN table
                      /\ \/ table[ids[k]].op \in {"jmp", "call", "push", "pop"}
                         \/ IsJcc(table[ids[k]].op)}

UpstreamPush(k, r) ==
  /\ \A j \in WalkStops : j <= k
  /\ table[ids[k]].op = "push"
  /\ table[ids[k]].operands[1] = r

trailing_pop_window(k) ==
  /\ Remaining(3)
  /\ IsCall(At(0), "sym") /\ At(1).op = "pop" /\ IsRet(At(2))
  /\ source.owner # NoOwner
  /\ UpstreamPush(k, At(1).operands[1])

TailTrailingPop ==
  /\ Applying("tailcall")
  /\ \E k \in WalkStops :
       /\ trailing_pop_window(k)
       /\ IF tco_arena_blocker_with_earlier(ids[k], ids[i], ids[i + 2])
            THEN TurnOf(1, table, {})
            ELSE TurnOf(3, Without(Replace(Replace(table, ids[i], "pop", At(1).operands),
                                           ids[i + 1], "jmp", At(0).operands),
                                   {ids[i + 2]}),
                        Split(k, i + 2) \union
                        {IF At(1).operands[1] = Reg(RAX) THEN "trailing-pop-of-result"
                                                         ELSE "trailing-pop"})

call_ret_window ==
  /\ Remaining(2)
  /\ IsRet(At(1))
  /\ \/ IsCall(At(0), "reg")
     \/ IsCall(At(0), "sym") /\ At(0).operands[1] = SymbolRef(source.owner)

TailCallRet ==
  /\ Applying("tailcall")
  /\ call_ret_window
  /\ Eliminate("call-ret", 0, 2, Without(Jump(table, ids[i]), {ids[i + 1]}))

TailKeep ==
  /\ Applying("tailcall")
  /\ Remaining(1)
  /\ ~ (align_pad_window \/ push_pop_window \/ pop_restore_window \/ call_ret_window)
  /\ ~ \E k \in WalkStops : trailing_pop_window(k)
  /\ TurnOf(1, table, {})

TailCall ==
  \/ TailAlignPad \/ TailPushPopBracket \/ TailPopRestore \/ TailTrailingPop
  \/ TailCallRet \/ TailKeep
  \/ EndOfIds("tailcall")

-----------------------------------------------------------------------------
(* unroll.rs *)

Factor == 4
NoTrip == -1
NoLoop == 0

Loop == [trip : Nat \union {NoTrip}, bodies : Nat, blocked : BOOLEAN, remainder : Nat]

(* A loop as it is before any unrolling. *)
SourceLoop == {l \in Loop : l.remainder = NoLoop}

Unrolls(l) == ~ l.blocked /\ l.trip >= Factor /\ l.bodies > 0

(* Mutant: the original body is not counted.                              *)
MainLoop_one_body_too_many(l, remainder) ==
  [l EXCEPT !.trip = l.trip \div Factor, !.bodies = @ + Factor, !.remainder = remainder]

MainLoop(l, remainder) ==
  [l EXCEPT !.trip = l.trip \div Factor, !.bodies = @ + Factor - 1, !.remainder = remainder]

RemainderLoop(l) ==
  [trip |-> l.trip % Factor, bodies |-> 1, blocked |-> FALSE, remainder |-> NoLoop]

UnrollLoop ==
  /\ Applying("unroll")
  /\ Remaining(1)
  /\ LET n == ids[i]
         l == loops[n]
     IN  loops' = IF ~ Unrolls(l) THEN loops
                  ELSE IF l.trip % Factor = 0 THEN [loops EXCEPT ![n] = MainLoop(l, NoLoop)]
                  ELSE Append([loops EXCEPT ![n] = MainLoop(l, Len(loops) + 1)],
                              RemainderLoop(l))
  /\ i' = i + 1
  /\ UNCHANGED <<table, pool, requested, pass, ids, result, source, rewrites>>

Unroll == UnrollLoop \/ EndOfIds("unroll")

-----------------------------------------------------------------------------
Finished == pass > Len(canonical_catalog)

(* What a build hands to dispatch: the side table, the node ids of the      *)
(* handlers and of the calls that need other capabilities, the function's   *)
(* name if there is evidence of it, its loops, and the passes requested.    *)
(* Nothing relates the node ids to the emission orders: statements lowered  *)
(* late take reserved early orders, stores and returns keep ids that come   *)
(* from the syntax tree, prologues and argument moves take synthetic ids,   *)
(* and a marker shares its order with the first instruction behind it.      *)
IsArena(a) ==
  /\ IsTable(a.table)
  /\ \A n \in DOMAIN a.table : Ins(a.table[n].op, a.table[n].operands) \in Instruction
  /\ a.handlers \subseteq Nat
  /\ a.foreign \subseteq Nat
  /\ a.owner \in Nat
  /\ a.loops \in Seq(SourceLoop)
  /\ a.requested \subseteq STRING

ASSUME ArenaAssumption == \A family \in Arenas : \A a \in family : IsArena(a)

Init ==
  /\ \E family \in Arenas : \E a \in family :
       /\ table = a.table
       /\ loops = a.loops
       /\ requested = a.requested
       /\ source = [table |-> a.table, loops |-> a.loops, owner |-> a.owner,
                    handlers |-> a.handlers, foreign |-> a.foreign]
  /\ pool = {}
  /\ pass = 1
  /\ ids = <<>>
  /\ i = 1
  /\ result = <<>>
  /\ rewrites = {}

Done == Finished /\ UNCHANGED vars

Next ==
  \/ Skip \/ Peephole \/ SchedulePlace \/ ScheduleApply \/ Dse
  \/ MacroFusion \/ BranchHint \/ PoolConstants \/ TailCall \/ Unroll
  \/ Done

(* dispatch is one sequential call. *)
Spec == Init /\ [][Next]_vars /\ WF_vars(Next)

-----------------------------------------------------------------------------
SameMeaning(f, g) ==
  f = g \/ \A m \in Machines : Observe(Run(f, m)) = Observe(Run(g, m))

(* What the passes emit does what the function did: it makes the same calls *)
(* and takes the same branches, and returns to the caller with the same     *)
(* registers, memory and stack.                                             *)
KeepsMeaning == Finished => SameMeaning(Emitted(source.table), Emitted(table))

(* The rewrites that are known to change the meaning of some functions, and *)
(* the circumstances in which any rewrite may: its window is not what is    *)
(* emitted in one piece, or a branch reads flags that it drops.             *)
Lossy ==
  {"fuse-load-store", "push-pop-bracket", "pop-restore", "trailing-pop-of-result",
   "split-window", "flags-read"}

DefaultPasses == {"peephole", "tailcall"}


(* The first Ret after a call, by node id. *)
RetsAfter(n) == {r \in DOMAIN source.table : r > n /\ source.table[r].op = "ret"}

Blocked(n) ==
  \/ source.owner # NoOwner /\ n \in source.foreign
  \/ \E h \in source.handlers : n < h /\ \A r \in RetsAfter(n) : h < r

(* "All six shapes are gated by tco_arena_blocker": whichever window a call *)
(* is part of, and whatever earlier passes did to that window, a call that  *)
(* crosses a capability boundary or has a handler installed before its Ret  *)
(* is still a call at the end.                                              *)
BlockedCallsStay ==
  \A n \in DOMAIN source.table :
    source.table[n].op = "call" /\ Blocked(n) =>
      n \in DOMAIN table /\ table[n].op = "call"

(* "to make the scheduler's output the actual emitted order": once the      *)
(* emission orders have been exchanged, sorting by them yields the computed *)
(* permutation.  This takes distinct orders: a marker that shares its order *)
(* with the instruction behind it cannot be exchanged with it.              *)
DistinctOrders(t) ==
  \A n, k \in DOMAIN t : t[n].emission_order = t[k].emission_order => n = k

EmittedAsScheduled ==
  [][ScheduleApply /\ DistinctOrders(source.table) =>
       EmittedIds(table)' = [k \in 1..Len(ids) |-> ids[result[k]]]]_vars

(* The stores of a table are numbered in the order they are emitted, and    *)
(* those with one address key have one address expression.                  *)
StoresInOrder(t) ==
  \A n, k \in StoresIn(t) : n < k => t[n].emission_order <= t[k].emission_order

KeysTellApart(t) ==
  \A n, k \in StoresIn(t) :
    AddressKey(t[n].operands[1]) = AddressKey(t[k].operands[1]) =>
      t[n].operands[1] = t[k].operands[1]

(* Dead-store elimination walks by node id, the encoder emits by order, and *)
(* peephole and scheduler have been at the table in between.  Where         *)
(* lowering numbered the stores in the order it emitted them, and no two    *)
(* address expressions share a key, what the pass removes is a store, and a *)
(* store to the same address expression is emitted behind it.               *)
OverwrittenLater ==
  [][Dse /\ StoresInOrder(source.table) /\ KeysTellApart(source.table) =>
       \A n \in DOMAIN table \ DOMAIN table' :
         /\ IsStore(table[n])
         /\ \E k \in DOMAIN table' :
              /\ IsStore(table[k]) /\ table[k].operands[1] = table[n].operands[1]
              /\ n \in EmittedBefore(table)[k]]_vars

(* Unrolled loops run their body as often as before: the main loop's trips  *)
(* times its bodies, plus the remainder loop, make the original trip count. *)
Iterations(n) ==
  loops[n].trip * loops[n].bodies
    + IF loops[n].remainder = NoLoop THEN 0 ELSE loops[loops[n].remainder].trip

UnrollKeepsIterations ==
  \A n \in 1..Len(source.loops) :
    source.loops[n].bodies = 1 /\ source.loops[n].trip # NoTrip =>
      Iterations(n) = source.loops[n].trip

-----------------------------------------------------------------------------
(* A pass that walks the ids w and has reached position c.                  *)
Walks(t, w, c) ==
  /\ w \in Seq(Nat)
  /\ \A k, l \in 1..Len(w) : k < l => w[k] < w[l]
  /\ \A k \in c..Len(w) : w[k] \in DOMAIN t

=============================================================================
