---------------------------- MODULE CallSequence ----------------------------
(* One direct call, as emit_call_args_and_call emits it: the saves and      *)
(* stack adjustments, the moves of the arguments, the CALL, the unwinding.  *)
(*                                                                          *)
(* A call site s has the convention the caller declares (or "none") and     *)
(* whether it is @no_frame, the callee, the arguments, the displacement of  *)
(* the slot reserved for the returned record (0 for none) and a number.  A  *)
(* callee has its declared convention, the size of the record of integer    *)
(* fields it returns (0 for none), whether it returns a discriminant and a  *)
(* payload, the recipe that replaces it ("none" for a function), and        *)
(* whether the module defines it.  b is the table of local bindings.        *)
EXTENDS CallMachine, FiniteSets

CONSTANTS
  Globals   \* names of module-level constants

(* abi.rs *)
ARG_REGS == <<RDI, RSI, RDX, RCX, R8, R9>>
MS_ARG_REGS == <<RCX, RDX, R8, R9>>
MS_SHADOW_SPACE_BYTES == 32
MS_CALL_STACK_BUMP == 40
MS_CALL_STACK_BUMP_ODD_PAD == 8
SYSV_CALL_ALIGN_PAD == 8
PAIDEIA_BRIDGE_SAVE == <<R15, R14>>
bridge_save_set(caller, callee) ==
  IF caller = "none" /\ callee # "none" THEN PAIDEIA_BRIDGE_SAVE ELSE <<>>

(* Where a record of integer fields is returned. *)
sysv_return_placement(size) ==
  CASE size = 0 -> "None" [] size > 16 -> "Memory" [] size > 8 -> "IntPair" [] OTHER -> "IntSingle"
ms_return_placement(size) ==
  CASE size = 0 -> "None" [] size \in {1, 2, 4, 8} -> "IntSingle" [] OTHER -> "Memory"

---------------------------------------------------------------------------
(* LocalBindingTable: where a name lives. *)
Reg(r) == [kind |-> "Reg", at |-> r, payload |-> NoReg]
RegPair(r, p) == [kind |-> "RegPair", at |-> r, payload |-> p]
EnvSlot(off) == [kind |-> "EnvSlot", at |-> off, payload |-> NoReg]
StackSlot(off) == [kind |-> "StackSlot", at |-> off, payload |-> NoReg]
Closure(r) == [kind |-> "Closure", at |-> r, payload |-> NoReg]   \* r has the address of the pair

get(b, x) == IF x \in DOMAIN b /\ b[x].kind = "Reg" THEN b[x].at ELSE NoReg
IsPair(b, x) == x \in DOMAIN b /\ b[x].kind = "RegPair"
HomeRegs(h) ==
  CASE h.kind \in {"Reg", "Closure"} -> {h.at} [] h.kind = "RegPair" -> {h.at, h.payload} [] OTHER -> {}
live_regs(b) == UNION {HomeRegs(b[x]) : x \in DOMAIN b}

---------------------------------------------------------------------------
(* Arguments: a literal, a variable (of this function or a module-level     *)
(* constant), an enum constructor without a payload, one with a literal or  *)
(* a variable as payload, or a call without arguments.                      *)
Arg(kind, n) == [kind |-> kind, n |-> n]
EnumTag == 1   \* the discriminant of a constructor

CalleeAbi(s) == IF s.callee.abi = "none" THEN "Sysv" ELSE s.callee.abi
ArgRegs(s) == IF CalleeAbi(s) = "Ms" THEN MS_ARG_REGS ELSE ARG_REGS
Placement(s) ==
  IF CalleeAbi(s) = "Ms" THEN ms_return_placement(s.callee.record)
  ELSE sysv_return_placement(s.callee.record)
NeedsSret(s) == Placement(s) = "Memory"
SretShift(s) == IF NeedsSret(s) THEN 1 ELSE 0
sret_padded_slot_bytes(size) == 16 * ((size + 15) \div 16)
PersistentSlot(s) == IF s.noFrame THEN 0 ELSE s.slot

ScratchSaves_of_first_names(b) ==
  SelectSeq(<<RCX, RDX, R8, R9>>,
            LAMBDA r : \E x \in DOMAIN b : b[x].kind # "StackSlot" /\ b[x].at = r)

ScratchSaves(b) == SelectSeq(<<RCX, RDX, R8, R9>>, LAMBDA r : r \in live_regs(b))

StackArgs(s) == IF Len(s.args) > Len(ArgRegs(s)) THEN Len(s.args) - Len(ArgRegs(s)) ELSE 0
StackArgBytes(s) == 8 * (StackArgs(s) + (StackArgs(s) % 2))

ms_bump_without_the_odd_pad(s, b) ==
  IF CalleeAbi(s) = "Ms" THEN MS_CALL_STACK_BUMP + StackArgBytes(s) ELSE 0

ms_bump(s, b) ==
  IF CalleeAbi(s) = "Ms"
  THEN MS_CALL_STACK_BUMP + StackArgBytes(s)
       + (IF Len(ScratchSaves(b)) % 2 = 1 THEN MS_CALL_STACK_BUMP_ODD_PAD ELSE 0)
  ELSE 0

Bridge(s) == bridge_save_set(s.caller, s.callee.abi)

sysv_bump(s, b) ==
  IF CalleeAbi(s) = "Ms" THEN 0
  ELSE StackArgBytes(s)
       + (IF Bridge(s) # <<>> /\ Len(ScratchSaves(b)) % 2 = 0 THEN SYSV_CALL_ALIGN_PAD ELSE 0)

---------------------------------------------------------------------------
(* Emission: the code, and the codes of the diagnostics. *)
Emit(code) == [code |-> code, diags |-> {}]
Refuse(diag) == [code |-> <<>>, diags |-> {diag}]
Both(x, y) == [code |-> x.code \o y.code, diags |-> x.diags \union y.diags]
InTurn(es) ==
  LET upto[k \in 0 .. Len(es)] == IF k = 0 THEN Emit(<<>>) ELSE Both(upto[k - 1], es[k])
  IN  upto[Len(es)]

Adjust(n) == IF n = 0 THEN <<>> ELSE <<Bump(n)>>
Pushes(regs) == [k \in DOMAIN regs |-> Push(regs[k])]
Pops(regs) == [k \in DOMAIN regs |-> Pop(Reverse(regs)[k])]

(* Bridge saves, then the stack reservation, then the scratch saves. *)
Prelude(s, b) ==
  Pushes(Bridge(s)) \o Adjust(-ms_bump(s, b)) \o Adjust(-sysv_bump(s, b)) \o Pushes(ScratchSaves(b))

SretReg(s) == IF CalleeAbi(s) = "Ms" THEN RCX ELSE RDI
SretPrelude(s) ==
  CASE ~NeedsSret(s)          -> <<>>
    [] PersistentSlot(s) # 0  -> <<Lea(SretReg(s), RBP, PersistentSlot(s))>>
    [] OTHER                  -> <<Bump(-sret_padded_slot_bytes(s.callee.record)), Lea(SretReg(s), RSP, 0)>>

SretRelease(s) ==
  IF NeedsSret(s) /\ PersistentSlot(s) = 0
  THEN <<Bump(sret_padded_slot_bytes(s.callee.record))>> ELSE <<>>

(* sysv_caller_read_return_pair, ms_caller_read_return_reg. *)
ReadBack(s) ==
  LET slot == PersistentSlot(s)
  IN  CASE slot = 0 -> <<>>
        [] slot # 0 /\ Placement(s) = "IntSingle" -> <<StoreReg(RBP, slot, RAX)>>
        [] slot # 0 /\ Placement(s) = "IntPair" -> <<StoreReg(RBP, slot, RAX), StoreReg(RBP, slot + 8, RDX)>>
        [] OTHER -> <<>>

Postlude(s, b) ==
  SretRelease(s) \o ReadBack(s) \o Pops(ScratchSaves(b))
  \o Adjust(sysv_bump(s, b)) \o Adjust(ms_bump(s, b)) \o Pops(Bridge(s))

CallInst(s) ==
  Op("call", RSP, NoReg,
     [abi |-> CalleeAbi(s), declared |-> s.callee.abi # "none", pair |-> s.callee.pair,
      record |-> s.callee.record, placement |-> Placement(s), n |-> s.n])

---------------------------------------------------------------------------
(* The arguments that have no register go above the shadow space, if any. *)
StackArgOffset_in_the_shadow_space(s, idx) == 8 * (idx - Len(ArgRegs(s)))

StackArgOffset(s, idx) ==
  (IF CalleeAbi(s) = "Ms" THEN MS_SHADOW_SPACE_BYTES ELSE 0) + 8 * (idx - Len(ArgRegs(s)))

StackArg(s, b, idx) ==
  LET a == s.args[idx + 1]
      off == StackArgOffset(s, idx)
      StoreVar == IF get(b, a.n) # NoReg THEN Emit(<<StoreReg(RSP, off, get(b, a.n))>>)
                  ELSE IF a.n \in Globals THEN Emit(<<LoadGlobal(R10, a.n), StoreReg(RSP, off, R10)>>)
                  ELSE Refuse("T0521")
  IN  CASE a.kind = "Literal" -> Emit(<<StoreImm(off, a.n)>>)
        [] a.kind = "Unit"    -> Emit(<<StoreImm(off, EnumTag)>>)
        [] a.kind = "Var"     -> StoreVar
        [] OTHER              -> Refuse("T0521")

VarArg(b, x, idx, dest) ==
  IF idx > 0 /\ IsPair(b, x) THEN Refuse("U1670")
  ELSE IF get(b, x) = dest THEN Emit(<<>>)
  ELSE IF get(b, x) # NoReg THEN Emit(<<Mov(dest, get(b, x))>>)
  ELSE IF x \in Globals THEN Emit(<<LoadGlobal(dest, x)>>)
  ELSE IF idx = 0 /\ dest # RDI THEN Emit(<<Mov(dest, RDI)>>)
  ELSE Refuse("T0521")

RegArg(s, b, idx) ==
  LET a == s.args[idx + 1]
      dest == ArgRegs(s)[idx + 1 + SretShift(s)]
  IN  CASE a.kind = "Literal" -> Emit(<<MovImm(dest, a.n)>>)
        [] a.kind = "Unit"    -> Emit(<<MovImm(dest, EnumTag)>>)
        [] a.kind = "Var"     -> VarArg(b, a.n, idx, dest)
        [] a.kind = "App"     -> Refuse("U1670")
        [] OTHER              -> Refuse("T0521")

classify_pos_zero_pair(s, b) ==
  IF s.args = <<>> THEN "None"
  ELSE LET a == s.args[1]
       IN  CASE a.kind = "Var" /\ IsPair(b, a.n)               -> "VarPair"
             [] a.kind = "App"                                 -> "NestedApp"
             [] a.kind = "Payload"                             -> "LiteralCons"
             [] a.kind = "PayloadVar" /\ get(b, a.n) # NoReg   -> "LiteralCons"
             [] OTHER                                          -> "None"

MarshalArg(s, b, idx) ==
  IF idx = 0 /\ classify_pos_zero_pair(s, b) # "None" THEN Emit(<<>>)
  ELSE IF idx + SretShift(s) < Len(ArgRegs(s)) THEN RegArg(s, b, idx)
  ELSE IF NeedsSret(s) THEN Refuse("T0521")
  ELSE StackArg(s, b, idx)

Arguments(s, b) == InTurn([k \in DOMAIN s.args |-> MarshalArg(s, b, k - 1)])

---------------------------------------------------------------------------
(* An enum value in two registers, RAX:RDX, as the first argument: it is    *)
(* set up after the other arguments unless one of them is in the way.       *)
PairConflicts(s, b) ==
  LET pair == classify_pos_zero_pair(s, b)
      n == Len(s.args)
      overlap == (IF pair = "NestedApp" /\ n >= 2 THEN {"U1671"} ELSE {})
                 \union (IF pair # "None" /\ n >= 3 THEN {"U1672"} ELSE {})
      aliased == pair = "VarPair"
                 /\ \E k \in 2 .. n : s.args[k].kind = "Var"
                                      /\ get(b, s.args[k].n) \in HomeRegs(b[s.args[1].n])
  IN  IF overlap = {} /\ aliased THEN {"U1673"} ELSE overlap

MoveUnlessThere(dst, src) == IF dst = src THEN <<>> ELSE <<Mov(dst, src)>>

(* A call as an argument: the whole sequence again, for a callee without    *)
(* arguments, record or declared convention that returns a pair.            *)
NestedSite(s) ==
  [s EXCEPT !.args = <<>>, !.slot = 0, !.n = s.n + 50,
            !.callee = [abi |-> "none", record |-> 0, pair |-> TRUE, recipe |-> "none", defined |-> TRUE]]
NestedCall(s, b) ==
  LET t == NestedSite(s) IN Prelude(t, b) \o SretPrelude(t) \o <<CallInst(t)>> \o Postlude(t, b)

PairMoves(s, b) ==
  LET a == s.args[1]
      pair == classify_pos_zero_pair(s, b)
  IN  CASE pair = "VarPair"     -> MoveUnlessThere(RAX, b[a.n].at) \o MoveUnlessThere(RDX, b[a.n].payload)
        [] pair = "NestedApp"   -> NestedCall(s, b)
        [] pair = "LiteralCons" -> <<MovImm(RAX, EnumTag)>>
                                   \o (IF a.kind = "Payload" THEN <<MovImm(RDX, a.n)>>
                                       ELSE MoveUnlessThere(RDX, get(b, a.n)))
        [] OTHER                -> <<>>

PairArgument(s, b) ==
  LET conflicts == PairConflicts(s, b)
  IN  [code |-> IF conflicts = {} THEN PairMoves(s, b) ELSE <<>>, diags |-> conflicts]

---------------------------------------------------------------------------
(* emit_call_args_and_call.  A stdlib method is replaced by instructions:   *)
(* at once when it takes literals ("literal"), after its arguments are in   *)
(* registers ("regs"); an "extern" one is called like a function.  Only an  *)
(* emission that runs to the end undoes the prelude.                        *)
AllLiterals(s) == \A k \in DOMAIN s.args : s.args[k].kind = "Literal"

emit_call_args_and_call(s, b) ==
  LET start == Emit(Prelude(s, b) \o SretPrelude(s))
      bad == [code |-> <<>>, diags |-> IF s.callee.recipe = "literal" /\ ~AllLiterals(s)
                                       THEN {"T0551"} ELSE {}]
      args == Both(Both(start, bad), Both(Arguments(s, b), PairArgument(s, b)))
  IN  IF s.callee.recipe = "literal" /\ AllLiterals(s) THEN Both(start, Emit(<<Recipe(s.n)>>))
      ELSE IF s.callee.recipe = "regs" THEN Both(args, Emit(<<Recipe(s.n)>>))
      ELSE Both(args, Emit(<<CallInst(s)>> \o Postlude(s, b)))

emit_call_stmt(s, b) == emit_call_args_and_call(s, b)

(* In expression position the callee must be known. *)
emit_call_expr(s, b) ==
  IF s.callee.recipe = "none" /\ ~s.callee.defined THEN Refuse("T0553")
  ELSE emit_call_args_and_call(s, b)
=============================================================================
