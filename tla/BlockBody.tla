----------------------------- MODULE BlockBody -----------------------------
(* The code emitted for one function: visit_lambda enters it, then          *)
(* emit_block_body walks the statements of its block, or a body that is a   *)
(* single call is emitted, and emit_ret ends it.  The model runs the code   *)
(* as it is emitted, so that m is always the machine the next emitted       *)
(* instruction will find.                                                   *)
(*                                                                          *)
(* A function has its declared convention (or "none"), @no_frame, whether   *)
(* it is an @interrupt handler, the number of its parameters, whether the   *)
(* first is an enum value in two registers, whether it captures a variable, *)
(* the size of the record of integer fields it returns (0 for none), and    *)
(* its body: a block, a call or a record of fields.  A statement is a let,  *)
(* a variable or a call, with the right side, number, callee and arguments  *)
(* it needs (a closure has its captures for arguments); a field is written  *)
(* as a let.                                                                *)
EXTENDS CallSequence

CONSTANTS
  Functions,     \* the functions to emit
  Bodies(_),     \* the bodies a function may have: sequences of statements
  Leftovers(_)   \* the binding tables the function emitted before may leave

VARIABLES
  fn, body,
  at,            \* the statement emitted next
  phase,         \* "enter", "body", "returned", "abandoned"
  prologue,      \* "none", "armed" (pending_frame_prologue), "emitted"
  bindings,      \* local_bindings
  scratch_count,
  diags,
  m,             \* registers and stack
  call,          \* the last call: its site, and the bindings and machine before it
  leaked         \* bytes pushed by calls that ended without popping them

vars == <<fn, body, at, phase, prologue, bindings, scratch_count, diags, m, call, leaked>>

scratch_regs == <<RCX, RDX, R8, R9>>

Param(idx) == <<"param", idx>>
ParamPayload == <<"param", 100>>
CaptureName == 150
CaptureOffset == 8
LetName(k) == 200 + k
ClosureCode(k) == 300 + k   \* the symbol of the closure made by statement k

---------------------------------------------------------------------------
(* visit_lambda *)
Abi(f) == IF f.abi = "none" THEN "Sysv" ELSE f.abi

param_index_to_reg_for_abi(abi, idx) ==
  LET pool == IF abi = "Ms" THEN MS_ARG_REGS ELSE ARG_REGS
  IN  IF idx < Len(pool) THEN pool[idx + 1] ELSE NoReg

ParamHome(f, idx) ==
  LET r == param_index_to_reg_for_abi(Abi(f), idx)
  IN  CASE r # NoReg /\ idx = 0 /\ f.pair -> RegPair(RAX, RDX)
        [] r = NoReg                      -> StackSlot(16 + 8 * (idx - Len(ARG_REGS)))
        [] OTHER                          -> Reg(r)

(* A fifth or later parameter of an MS function is not registered. *)
RegisteredParams(f) ==
  {idx \in 0 .. f.params - 1 : Abi(f) = "Ms" => idx < Len(MS_ARG_REGS)}

register_nested_lambda_params(f) == [idx \in RegisteredParams(f) |-> ParamHome(f, idx)]
register_closure_captures(f) ==
  IF f.captures THEN (CaptureName :> EnvSlot(CaptureOffset)) ELSE <<>>

(* The machine that emit_call_args_and_call hands over: parameters in the   *)
(* convention's registers, behind the pointer to the slot of a record that  *)
(* does not fit in registers.                                               *)
RecordSlot == 4096
ReturnPlacement(f) ==
  IF Abi(f) = "Ms" THEN ms_return_placement(f.record) ELSE sysv_return_placement(f.record)
HiddenPointer(f) == IF Abi(f) = "Ms" THEN RCX ELSE RDI
TakesPointer(f) == ReturnPlacement(f) = "Memory"

Handover(f) ==
  LET shift == IF TakesPointer(f) THEN 1 ELSE 0
      home(idx) == IF idx = 0 /\ f.pair THEN RegPair(RAX, RDX)
                   ELSE Reg(param_index_to_reg_for_abi(Abi(f), idx + shift))
      held(r) == {idx \in RegisteredParams(f) : r \in HomeRegs(home(idx))}
      first(r) == CHOOSE idx \in held(r) : TRUE
  IN  [reg |-> [r \in Registers |->
                  CASE r = RSP       -> Addr(EntryRsp)
                    [] r = HiddenPointer(f) /\ TakesPointer(f) -> Addr(RecordSlot)
                    [] held(r) # {}  -> IF f.pair /\ r = RDX THEN ParamPayload ELSE Param(first(r))
                    [] OTHER         -> Entry(r)],
       mem |-> (EntryRsp :> ReturnAddress)
               @@ [a \in {16 + 8 * w : w \in 0 .. f.params - Len(ARG_REGS) - 1} |->
                     Param(Len(ARG_REGS) + (a - 16) \div 8)]]

---------------------------------------------------------------------------
(* return_record_cons_pass: every call of the function that returns a       *)
(* record gets a slot of the frame, packed downward.                        *)
padded_slot_bytes(size) == 16 * ((size + 15) \div 16)
IsCall(st) == st.kind = "App" \/ st.rhs = "App"
SlotBytes(st) ==
  IF IsCall(st) /\ st.callee.recipe = "none" THEN padded_slot_bytes(st.callee.record) ELSE 0
SlotTotal(b, k) == FoldLeft(LAMBDA sum, st : sum + SlotBytes(st), 0, SubSeq(b, 1, k))
rbp_disp(b, k) == IF SlotBytes(b[k]) = 0 THEN 0 ELSE -SlotTotal(b, k)

(* precompute_caller_frame: every closure of the function gets room for the *)
(* pair of its environment and code pointers and, behind it, a word for     *)
(* each capture, packed upward from the stack pointer.                      *)
ClosureBytes_of_the_pair(st) == IF st.rhs = "Closure" THEN 16 ELSE 0
ClosureBytes(st) == IF st.rhs = "Closure" THEN 16 + 8 * Len(st.args) ELSE 0
fat_offset(b, k) == FoldLeft(LAMBDA sum, st : sum + ClosureBytes(st), 0, SubSeq(b, 1, k - 1))
env_offset(b, k) == fat_offset(b, k) + 16
total_size(b) == 16 * ((fat_offset(b, Len(b) + 1) + 15) \div 16)

---------------------------------------------------------------------------
(* emit_inst: the first instruction of a function that wants a frame is     *)
(* preceded by the frame prologue.                                          *)
FramePrologue == <<Push(RBP), Mov(RBP, RSP)>>
Prologued(code, pro) == IF pro = "armed" /\ code # <<>> THEN FramePrologue \o code ELSE code
AfterEmitting(code, pro) == IF pro = "armed" /\ code # <<>> THEN "emitted" ELSE pro

EmitInsts(code) ==
  /\ m' = Run(Prologued(code, prologue), m)
  /\ prologue' = AfterEmitting(code, prologue)

(* A body that is a record: every field is stored in the buffer at the top  *)
(* of the stack, a call's result from RAX.                                  *)
FieldSite(k) ==
  [caller |-> fn.abi, noFrame |-> fn.noFrame, callee |-> body[k].callee, args |-> body[k].args,
   slot |-> 0, n |-> k]
FieldStore(k) ==
  LET st == body[k]
      src == get(bindings, st.n)
  IN  CASE st.rhs = "Literal" -> Emit(<<StoreImm(8 * (k - 1), st.n)>>)
        [] st.rhs = "Var"     -> Emit(IF src = NoReg THEN <<>> ELSE <<StoreReg(RSP, 8 * (k - 1), src)>>)
        [] st.rhs = "App"     -> Both(emit_call_expr(FieldSite(k), bindings),
                                      Emit(<<StoreReg(RSP, 8 * (k - 1), RAX)>>))
emit_record_cons_field_stores_into_sret_buffer ==
  IF fn.body = "RecordCons" THEN InTurn([k \in DOMAIN body |-> FieldStore(k)]) ELSE Emit(<<>>)

(* The buffer is loaded into the return registers, or copied through R10 to *)
(* where the hidden pointer points.                                         *)
callee_sret_store(f) ==
  LET copy(w) == <<LoadFrom(R10, RSP, 8 * w), StoreReg(HiddenPointer(f), 8 * w, R10)>>
  IN  FlattenSeq([w \in 1 .. f.record \div 8 |-> copy(w - 1)]) \o <<Mov(RAX, HiddenPointer(f))>>

ReturnLoad_of_the_first_word(f) ==
  CASE ReturnPlacement(f) = "Memory"    -> callee_sret_store(f)
    [] ReturnPlacement(f) = "IntSingle" -> <<LoadFrom(RAX, RSP, 0)>>
    [] ReturnPlacement(f) = "IntPair"   -> <<LoadFrom(RAX, RSP, 0), LoadFrom(RDX, RSP, 0)>>

ReturnLoad(f) ==
  CASE ReturnPlacement(f) = "Memory"    -> callee_sret_store(f)
    [] ReturnPlacement(f) = "IntSingle" -> <<LoadFrom(RAX, RSP, 0)>>
    [] ReturnPlacement(f) = "IntPair"   -> <<LoadFrom(RAX, RSP, 0), LoadFrom(RDX, RSP, 8)>>

emit_callee_sret_splice ==
  IF fn.noFrame \/ fn.record = 0 THEN Emit(<<>>)
  ELSE Both(Emit(<<Bump(-padded_slot_bytes(fn.record))>>),
            Both(emit_record_cons_field_stores_into_sret_buffer, Emit(ReturnLoad(fn))))

(* emit_ret: the closures are released, the record returned, then the       *)
(* epilogue if the prologue is out, and RET; the tail of a handler is       *)
(* left to a later pass.                                                    *)
RetCode_without_the_epilogue(pro) == IF fn.interrupt THEN <<>> ELSE <<Ret>>
RetCode(pro) ==
  (IF pro = "emitted" THEN <<Mov(RSP, RBP), Pop(RBP)>> ELSE <<>>)
  \o (IF fn.interrupt THEN <<>> ELSE <<Ret>>)

emit_ret(pro, after, found) ==
  LET splice == Both(Emit(Adjust(total_size(body))), emit_callee_sret_splice)
      then == AfterEmitting(splice.code, pro)
      spliced == Run(Prologued(splice.code, pro), after)
  IN  /\ m' = Run(Prologued(RetCode(then), then), spliced)
      /\ prologue' = AfterEmitting(RetCode(then), then)
      /\ diags' = diags \union found \union splice.diags
      /\ phase' = "returned"

---------------------------------------------------------------------------
NoCall == [made |-> FALSE]

Init ==
  /\ fn \in Functions
  /\ body \in Bodies(fn)
  /\ at = 1 /\ phase = "enter" /\ prologue = "none"
  /\ bindings \in Leftovers(fn) /\ scratch_count = 0 /\ diags = {}
  /\ m = Handover(fn)
  /\ call = NoCall /\ leaked = 0

(* emit_interrupt_prologue; clearing the direction flag changes nothing     *)
(* that is modelled.                                                        *)
ISR_SPILL_REGS == <<RAX, RCX, RDX, RSI, RDI, R8, R9, R10, R11, R12, R13, R14, R15>>
emit_interrupt_prologue == IF fn.interrupt THEN Pushes(ISR_SPILL_REGS) ELSE <<>>

(* The parameters and captures are registered, the prologue armed, the      *)
(* frame slots and the closures' room reserved; a seventh SysV parameter    *)
(* needs the frame (B1708).  A block and a call start from a cleared        *)
(* binding table, a record does not.                                        *)
FrameRefused(f) ==
  Abi(f) = "Sysv" /\ f.params > Len(ARG_REGS) /\ f.noFrame /\ ~f.interrupt

OwnBindings(f) == register_closure_captures(f) @@ register_nested_lambda_params(f)

visit_lambda ==
  /\ phase = "enter"
  /\ bindings' = IF FrameRefused(fn) \/ fn.body = "RecordCons"
                 THEN OwnBindings(fn) @@ bindings ELSE OwnBindings(fn)
  /\ IF FrameRefused(fn)
     THEN /\ phase' = "abandoned" /\ diags' = {"B1708"}
          /\ UNCHANGED <<m, prologue>>
     ELSE LET bump == IF fn.noFrame THEN 0 ELSE SlotTotal(body, Len(body))
              pro == IF fn.noFrame THEN "none" ELSE "armed"
              code == emit_interrupt_prologue \o Adjust(-bump) \o Adjust(-total_size(body))
          IN  /\ phase' = "body"
              /\ m' = Run(Prologued(code, pro), m)
              /\ prologue' = AfterEmitting(code, pro)
              /\ UNCHANGED diags
  /\ UNCHANGED <<fn, body, at, scratch_count, call, leaked>>

---------------------------------------------------------------------------
(* emit_block_body *)
InBlock == phase = "body" /\ fn.body = "Action" /\ at <= Len(body)
Child == body[at]
IsTail == at = Len(body)

Pressure(n) == scratch_count + n > Len(scratch_regs)
Scratch(k) == scratch_regs[scratch_count + k]

Next_statement == at' = at + 1 /\ UNCHANGED <<fn, body, phase>>

(* Four lets is all the registers there are: T0527, and no RET. *)
RegisterPressure(n) ==
  /\ Pressure(n)
  /\ phase' = "abandoned"
  /\ diags' = diags \union {"T0527"}
  /\ scratch_count' = IF Pressure(1) THEN scratch_count ELSE scratch_count + 1
  /\ UNCHANGED <<fn, body, at, prologue, bindings, m, call, leaked>>

(* emit_var_assign_expr_to_reg of a variable *)
LoadVar(b, x, dest) ==
  IF x \in DOMAIN b
  THEN CASE b[x].kind \in {"Reg", "RegPair", "Closure"} -> Emit(<<Mov(dest, b[x].at)>>)
         [] b[x].kind = "EnvSlot"   -> Emit(<<LoadEnv(dest, b[x].at)>>)
         [] b[x].kind = "StackSlot" -> Emit(<<LoadFrame(dest, b[x].at)>>)
  ELSE IF x \in Globals THEN Emit(<<LoadGlobal(dest, x)>>) ELSE Refuse("T0540")

(* let x = a literal, a variable, or a constructor without a payload. *)
ScalarValue ==
  CASE Child.rhs = "Literal" -> Emit(<<MovImm(Scratch(1), Child.n)>>)
    [] Child.rhs = "Unit"    -> Emit(<<MovImm(Scratch(1), EnumTag)>>)
    [] Child.rhs = "Var"     -> LoadVar(bindings, Child.n, Scratch(1))

LetScalar ==
  /\ InBlock /\ Child.kind = "Let" /\ Child.rhs \in {"Literal", "Unit", "Var"}
  /\ \/ RegisterPressure(1)
     \/ /\ ~Pressure(1)
        /\ bindings' = (LetName(at) :> Reg(Scratch(1))) @@ bindings
        /\ scratch_count' = scratch_count + 1
        /\ EmitInsts(ScalarValue.code)
        /\ diags' = diags \union ScalarValue.diags
        /\ Next_statement
        /\ UNCHANGED <<call, leaked>>

(* let x = a constructor with a payload: two registers, the tag first. *)
PairValue ==
  Both(Emit(<<MovImm(Scratch(1), EnumTag)>>),
       IF Child.rhs = "Payload" THEN Emit(<<MovImm(Scratch(2), Child.n)>>)
       ELSE LoadVar(bindings, Child.n, Scratch(2)))

LetPair ==
  /\ InBlock /\ Child.kind = "Let" /\ Child.rhs \in {"Payload", "PayloadVar"}
  /\ \/ RegisterPressure(2)
     \/ /\ ~Pressure(2)
        /\ bindings' = (LetName(at) :> RegPair(Scratch(1), Scratch(2))) @@ bindings
        /\ scratch_count' = scratch_count + 2
        /\ EmitInsts(PairValue.code)
        /\ diags' = diags \union PairValue.diags
        /\ Next_statement
        /\ UNCHANGED <<call, leaked>>

(* emit_closure_cons: the captures are copied into the environment, then    *)
(* the pair is written, and RAX is left with its address.                   *)
CaptureStore(h, off) ==
  CASE h.kind \in {"Reg", "Closure"} -> <<StoreReg(RSP, off, h.at)>>
    [] h.kind = "RegPair"   -> <<StoreReg(RSP, off, h.at), StoreReg(RSP, off + 8, h.payload)>>
    [] h.kind = "EnvSlot"   -> <<LoadEnv(R11, h.at), StoreReg(RSP, off, R11)>>
    [] h.kind = "StackSlot" -> <<LoadFrame(R11, h.at), StoreReg(RSP, off, R11)>>

CaptureStores(env) ==
  FlattenSeq([j \in DOMAIN Child.args |->
                IF Child.args[j].n \in DOMAIN bindings
                THEN CaptureStore(bindings[Child.args[j].n], env + 8 * (j - 1)) ELSE <<>>])

emit_closure_cons ==
  LET fat == fat_offset(body, at)
      env == env_offset(body, at)
  IN  CaptureStores(env)
      \o (IF Child.args = <<>> THEN <<StoreImm(fat, 0)>>
          ELSE <<Lea(R11, RSP, env), StoreReg(RSP, fat, R11)>>)
      \o <<LoadGlobal(R11, ClosureCode(at)), StoreReg(RSP, fat + 8, R11), Lea(RAX, RSP, fat)>>

LetClosure ==
  /\ InBlock /\ Child.kind = "Let" /\ Child.rhs = "Closure"
  /\ \/ RegisterPressure(1)
     \/ /\ ~Pressure(1)
        /\ bindings' = (LetName(at) :> Closure(Scratch(1))) @@ bindings
        /\ scratch_count' = scratch_count + 1
        /\ EmitInsts(emit_closure_cons \o <<Mov(Scratch(1), RAX)>>)
        /\ Next_statement
        /\ UNCHANGED <<diags, call, leaked>>

---------------------------------------------------------------------------
(* Calls.  A stdlib method that is expanded in place returns before the     *)
(* code that would undo the prelude of its call.                            *)
Site(slot) ==
  [caller |-> fn.abi, noFrame |-> fn.noFrame, callee |-> Child.callee, args |-> Child.args,
   slot |-> slot, n |-> at]
SelfContained(s) ==
  s.callee.recipe = "regs" \/ (s.callee.recipe = "literal" /\ AllLiterals(s))
Unpopped(s, b) ==
  IF SelfContained(s)
  THEN 8 * (Len(Bridge(s)) + Len(ScratchSaves(b))) + ms_bump(s, b) + sysv_bump(s, b) ELSE 0

Noted(s) ==
  /\ call' = [made |-> TRUE, site |-> s, bindings |-> bindings, prologue |-> prologue, m |-> m]
  /\ leaked' = leaked + Unpopped(s, bindings)
Called(s, e) == Noted(s) /\ diags' = diags \union e.diags

(* let x = f(..): the payload is taken from RDX, then the result from RAX. *)
ResultFirst(scalar, payload) == MoveUnlessThere(scalar, RAX) \o MoveUnlessThere(payload, RDX)
CaptureResult(scalar, payload) == MoveUnlessThere(payload, RDX) \o MoveUnlessThere(scalar, RAX)

LetCall ==
  /\ InBlock /\ Child.kind = "Let" /\ Child.rhs = "App"
  /\ LET width == IF Child.callee.pair THEN 2 ELSE 1
         e == emit_call_expr(Site(0), bindings)
         capture == IF Child.callee.pair THEN CaptureResult(Scratch(1), Scratch(2))
                    ELSE <<Mov(Scratch(1), RAX)>>
         home == IF Child.callee.pair THEN RegPair(Scratch(1), Scratch(2)) ELSE Reg(Scratch(1))
     IN  \/ RegisterPressure(width)
         \/ /\ ~Pressure(width)
            /\ EmitInsts(e.code \o capture)
            /\ bindings' = (LetName(at) :> home) @@ bindings
            /\ scratch_count' = scratch_count + width
            /\ Called(Site(0), e)
            /\ Next_statement

(* f(..) as a statement, and as the last one. *)
StatementCall ==
  /\ InBlock /\ Child.kind = "App"
  /\ LET e == IF IsTail THEN emit_call_expr(Site(0), bindings) ELSE emit_call_stmt(Site(0), bindings)
     IN  EmitInsts(e.code) /\ Called(Site(0), e)
  /\ Next_statement
  /\ UNCHANGED <<bindings, scratch_count>>

(* x as the last statement is the result; elsewhere nothing is emitted. *)
VarStatement ==
  /\ InBlock /\ Child.kind = "Var"
  /\ LET src == get(bindings, Child.n)
     IN  EmitInsts(IF IsTail /\ src # NoReg THEN MoveUnlessThere(RAX, src) ELSE <<>>)
  /\ Next_statement
  /\ UNCHANGED <<bindings, scratch_count, diags, call, leaked>>

EndBlock ==
  /\ phase = "body" /\ fn.body = "Action" /\ at > Len(body)
  /\ emit_ret(prologue, m, {})
  /\ UNCHANGED <<fn, body, at, bindings, scratch_count, call, leaked>>

(* A body that is a call: emit_function_call_with_app. *)
emit_function_call_with_app ==
  /\ phase = "body" /\ fn.body = "App" /\ at = 1
  /\ LET s == Site(rbp_disp(body, 1))
         e == emit_call_args_and_call(s, bindings)
         code == Prologued(e.code, prologue)
     IN  /\ Noted(s)
         /\ emit_ret(AfterEmitting(e.code, prologue), Run(code, m), e.diags)
  /\ at' = 2
  /\ UNCHANGED <<fn, body, bindings, scratch_count>>

(* A body that is a record: emit_ret does all the work. *)
ReturnRecord ==
  /\ phase = "body" /\ fn.body = "RecordCons"
  /\ emit_ret(prologue, m, {})
  /\ UNCHANGED <<fn, body, at, bindings, scratch_count, call, leaked>>

Next ==
  \/ visit_lambda \/ LetScalar \/ LetPair \/ LetClosure \/ LetCall \/ StatementCall
  \/ VarStatement \/ EndBlock \/ emit_function_call_with_app \/ ReturnRecord

Spec == Init /\ [][Next]_vars

---------------------------------------------------------------------------
(* Where the closures of the function are as long as nothing stays on the   *)
(* stack above the frame.                                                   *)
ClosureBase ==
  EntryRsp - total_size(body)
  - (CASE fn.interrupt -> 8 * Len(ISR_SPILL_REGS)
       [] fn.noFrame   -> 0
       [] OTHER        -> 8 + SlotTotal(body, Len(body)))

(* What a name stands for in the source, as the values of its parts. *)
Meant(x) ==
  LET let[k \in 0 .. Len(body)] ==
        LET st == body[k]
            var == IF st.n > LetName(0) THEN let[st.n - LetName(0)]
                   ELSE IF st.n = CaptureName THEN <<Captured(CaptureOffset)>>
                   ELSE IF st.n \in Globals THEN <<Global(st.n)>>
                   ELSE <<Param(st.n)>>
        IN  CASE st.rhs = "Literal"    -> <<Imm(st.n)>>
              [] st.rhs = "Unit"       -> <<Imm(EnumTag)>>
              [] st.rhs = "Var"        -> <<var[1]>>
              [] st.rhs = "Payload"    -> <<Imm(EnumTag), Imm(st.n)>>
              [] st.rhs = "PayloadVar" -> <<Imm(EnumTag), var[1]>>
              [] st.rhs = "Closure"    -> <<Addr(ClosureBase + fat_offset(body, k))>>
              [] st.rhs = "App" /\ st.callee.pair  -> <<Result(k), Payload(k)>>
              [] st.rhs = "App" /\ ~st.callee.pair -> <<Result(k)>>
  IN  IF x > LetName(0) THEN let[x - LetName(0)]
      ELSE IF x = CaptureName THEN <<Captured(CaptureOffset)>>
      ELSE IF x = 0 /\ fn.pair THEN <<Param(0), ParamPayload>>
      ELSE <<Param(x)>>

(* What a home holds; a frame home is read once the frame is set up. *)
Held(mm, h) ==
  CASE h.kind \in {"Reg", "Closure"} -> <<mm.reg[h.at]>>
    [] h.kind = "RegPair"   -> <<mm.reg[h.at], mm.reg[h.payload]>>
    [] h.kind = "EnvSlot"   -> <<FromEnv(mm, h.at)>>
    [] h.kind = "StackSlot" -> <<Mem(mm, EntryRsp - 8 + h.at)>>

Compiled == diags = {}

(* Every name in scope is where the binding table says it is: "captures all *)
(* caller-save registers that hold live bindings" (emit_call.rs).           *)
LiveBindingsSurvive ==
  (phase = "body" /\ Compiled) => \A x \in DOMAIN bindings : Held(m, bindings[x]) = Meant(x)

---------------------------------------------------------------------------
(* The last call: its code, and the machine when the CALL executes. *)
CallCode == Prologued(emit_call_args_and_call(call.site, call.bindings).code, call.prologue)
IsTheCall(i) == i.op \in {"call", "recipe"} /\ (i.op = "call" => i.n.n = call.site.n)
AtCall == Run(SubSeq(CallCode, 1, SelectInSeq(CallCode, IsTheCall) - 1), call.m)
AfterCall == Run(CallCode, call.m)
Complete == call.made /\ Compiled /\ ~SelfContained(call.site)

(* map_args: where the convention passes the integer argument i. *)
map_args(abi, i) ==
  LET pool == IF abi = "Ms" THEN MS_ARG_REGS ELSE ARG_REGS
      shadow == IF abi = "Ms" THEN MS_SHADOW_SPACE_BYTES ELSE 0
  IN  IF i < Len(pool) THEN Reg(pool[i + 1]) ELSE StackSlot(shadow + 8 * (i - Len(pool)))
Passed(mm, slot) ==
  IF slot.kind = "StackSlot" THEN <<Mem(mm, Sp(mm) + slot.at)>> ELSE Held(mm, slot)

ArgSlot(s, idx) ==
  IF idx = 0 /\ classify_pos_zero_pair(s, call.bindings) # "None" THEN RegPair(RAX, RDX)
  ELSE map_args(CalleeAbi(s), idx + SretShift(s))

ArgSource(s, idx) ==
  LET a == s.args[idx + 1]
  IN  IF a.kind \in {"Var", "PayloadVar"} /\ a.n \in DOMAIN call.bindings
      THEN HomeRegs(call.bindings[a.n]) ELSE {}

ArgValue(s, idx) ==
  LET a == s.args[idx + 1]
      b == call.bindings
  IN  CASE a.kind = "Literal" -> <<Imm(a.n)>>
        [] a.kind = "Unit"    -> <<Imm(EnumTag)>>
        [] a.kind = "Var"     -> IF a.n \in DOMAIN b THEN Held(call.m, b[a.n]) ELSE <<Global(a.n)>>
        [] a.kind = "Payload" -> <<Imm(EnumTag), Imm(a.n)>>
        [] a.kind = "PayloadVar" -> <<Imm(EnumTag), Held(call.m, b[a.n])[1]>>
        [] a.kind = "App"     -> <<Result(s.n + 50), Payload(s.n + 50)>>

(* The arguments are moved one after another.  Argument idx is safe from    *)
(* the others when nothing is written to its source before its move or to   *)
(* its register after it, and when it has a register to be read from.       *)
RegsWritten(code) ==
  {code[k].dst : k \in {j \in DOMAIN code : code[j].op \in {"mov", "imm", "global", "lea"}}}

Undisturbed(s, idx) ==
  LET b == call.bindings
      a == s.args[idx + 1]
      pair == classify_pos_zero_pair(s, b) # "None"
      earlier == {j \in 0 .. Len(s.args) - 1 : j < idx \/ (pair /\ idx = 0)}
      before == RegsWritten(SretPrelude(s)) \union UNION {RegsWritten(MarshalArg(s, b, j).code) : j \in earlier}
      after == IF pair /\ idx > 0 THEN {RAX, RDX} ELSE {}
  IN  /\ ArgSource(s, idx) \intersect before = {}
      /\ HomeRegs(ArgSlot(s, idx)) \intersect after = {}
      /\ (a.kind = "Var" /\ a.n \in DOMAIN b) => HomeRegs(b[a.n]) # {}
      /\ (a.kind = "App") => RDX \notin ToSet(ScratchSaves(b))

(* When the CALL executes, every argument is where the callee's convention  *)
(* passes it: behind the record pointer if there is one, above the shadow   *)
(* space of an MS callee, in RAX:RDX for an enum value; unless the moves of *)
(* the other arguments disturb it.                                          *)
ArgumentsArrive ==
  (call.made /\ Compiled /\ call.site.callee.recipe # "literal") =>
    \A idx \in 0 .. Len(call.site.args) - 1 :
      Undisturbed(call.site, idx) =>
        Passed(AtCall, ArgSlot(call.site, idx)) = ArgValue(call.site, idx)

(* A call gives back the stack pointer, the frame pointer and the two       *)
(* registers of the runtime, and the let registers that were live, those    *)
(* last as long as nothing else is stored where they were pushed: an MS     *)
(* callee owns the 32 bytes at the top of the stack, and a seventh argument *)
(* is stored there.                                                         *)
CallsPreserve ==
  Complete =>
    LET s == call.site
        kept == {RSP, RBP}
                \union (IF s.caller = "none" \/ s.callee.abi = "none" THEN {R14, R15} ELSE {})
                \union (IF CalleeAbi(s) = "Sysv" /\ StackArgs(s) = 0
                        THEN ToSet(scratch_regs) \intersect live_regs(call.bindings) ELSE {})
        before == Run(Prologued(<<Bump(0)>>, call.prologue), call.m)
    IN  \A r \in kept : AfterCall.reg[r] = before.reg[r]

(* A function without a frame calls a function of a declared convention     *)
(* with the stack aligned to 16 bytes, whatever it saves and passes; from   *)
(* a caller with a declared convention of its own this is only so for an MS *)
(* callee.  A handler is left out: its entry is aligned otherwise.          *)
ForeignCallsAligned ==
  (Complete /\ fn.noFrame /\ ~fn.interrupt /\ leaked = 0
   /\ (call.site.callee.abi = "Ms" \/ (call.site.callee.abi = "Sysv" /\ fn.abi = "none")))
  => Sp(AtCall) % 16 = 0

(* What a call returns reaches its let, and a record the frame slot that    *)
(* was reserved for it.  A payload is lost when RDX is saved around the     *)
(* call, the pointer to the slot when an argument is itself a call.         *)
ResultDelivered ==
  Complete =>
    LET s == call.site
    IN  /\ (at = s.n + 1 /\ body[s.n].rhs = "App" /\ s.callee.record = 0
            /\ ~(s.callee.pair /\ RDX \in ToSet(ScratchSaves(call.bindings))))
           => Held(m, bindings[LetName(s.n)]) = Meant(LetName(s.n))
        /\ PersistentSlot(s) # 0 /\ ~(NeedsSret(s) /\ \E k \in DOMAIN s.args : s.args[k].kind = "App")
           => \A w \in 0 .. s.callee.record \div 8 - 1 :
                Mem(AfterCall, EntryRsp - 8 + s.slot + 8 * w) = Field(s.n, w)

(* A closure stores two words for an enum value it captures, but its        *)
(* environment has one: the store goes beyond the room of the closures.     *)
Captures(k) == IF body[k].rhs = "Closure" THEN DOMAIN body[k].args ELSE {}
CapturedHome(k, j) == bindings[body[k].args[j].n]
CapturesPair(k) == \E j \in Captures(k) : CapturedHome(k, j).kind = "RegPair"
Overrun ==
  \E k \in DOMAIN body : \E j \in Captures(k) :
    CapturedHome(k, j).kind = "RegPair" /\ env_offset(body, k) + 8 * (j + 1) > total_size(body)

(* RET finds the return address, untouched, with the caller's frame pointer *)
(* restored, and the tail of a handler the registers its entry pushed,      *)
(* whatever was called and whichever closures were made in between; except  *)
(* that without a frame the pushes of an in-place stdlib method stay on the *)
(* stack, that a frame whose first instruction is the RET itself is never   *)
(* popped, and that the capture of an enum value may overrun the closures.  *)
ReturnsBalanced ==
  LET spilled == IF fn.interrupt THEN Len(ISR_SPILL_REGS) ELSE 0
      untouched == /\ Mem(m, EntryRsp) = ReturnAddress
                   /\ \A k \in 1 .. spilled : Mem(m, EntryRsp - 8 * k) = Entry(ISR_SPILL_REGS[k])
  IN
  (phase = "returned" /\ Compiled /\ ~Overrun) =>
    \/ Sp(m) = EntryRsp - 8 * spilled /\ m.reg[RBP] = Entry(RBP) /\ untouched
    \/ fn.noFrame /\ leaked > 0 /\ Sp(m) = EntryRsp - 8 * spilled - leaked /\ untouched
    \/ ~fn.noFrame /\ Sp(m) = EntryRsp - 8 /\ ~\E k \in DOMAIN body : IsCall(body[k]) \/ body[k].kind = "Let"

(* The fields of a returned record are in the return registers, or behind   *)
(* the pointer the caller passed, which RAX gives back.  A call among the   *)
(* fields loses the pointer and the parameters, and the parameters are not  *)
(* looked for behind the pointer.                                           *)
RecordReturned ==
  (phase = "returned" /\ Compiled /\ fn.body = "RecordCons" /\ ~fn.noFrame) =>
    LET calls == {k \in DOMAIN body : body[k].rhs = "App"}
        words == CASE TakesPointer(fn) -> [k \in DOMAIN body |-> Mem(m, RecordSlot + 8 * (k - 1))]
                   [] OTHER            -> <<m.reg[RAX], m.reg[RDX]>>
        sure(k) == body[k].rhs = "Var" => ~TakesPointer(fn) /\ calls \intersect 1 .. k = {}
    IN  (TakesPointer(fn) /\ calls # {})
        \/ /\ \A k \in DOMAIN body : sure(k) => words[k] = Meant(LetName(k))[1]
           /\ TakesPointer(fn) => m.reg[RAX] = Addr(RecordSlot)

(* A closure is in its own room of the frame: making it copies the values   *)
(* its captures have then, and until the function returns neither another   *)
(* closure nor a call changes its pair or its environment.  Left out are    *)
(* the functions with an in-place stdlib method, whose pushes move the      *)
(* stack pointer the rooms are counted from, and those where a closure      *)
(* captures an enum value.                                                  *)
ClosureWords(mm, k) ==
  LET base == ClosureBase + fat_offset(body, k)
  IN  [w \in 0 .. Len(body[k].args) + 1 |-> Mem(mm, base + 8 * w)]
MadeFrom(mm, k) ==
  LET base == ClosureBase + fat_offset(body, k)
  IN  [w \in 0 .. Len(body[k].args) + 1 |->
         CASE w = 0    -> IF body[k].args = <<>> THEN Imm(0) ELSE Addr(base + 16)
           [] w = 1    -> Global(ClosureCode(k))
           [] OTHER    -> Held(mm, CapturedHome(k, w - 1))[1]]
ClosuresKeep ==
  [][(phase = "body" /\ phase' = "body" /\ leaked' = 0) =>
       \A k \in {j \in 1 .. at : j <= Len(body) /\ body[j].rhs = "Closure"} :
         (~\E j \in 1 .. at : CapturesPair(j)) =>
           ClosureWords(m', k) = (IF k < at THEN ClosureWords(m, k) ELSE MadeFrom(m, k))]_vars
=============================================================================
