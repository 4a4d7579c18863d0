----------------------------- MODULE CallMachine -----------------------------
(* What emitted instructions do to the registers and the stack.  Values are *)
(* <<kind, number>>; the stack is addressed in bytes relative to a 16-byte  *)
(* boundary, and mem has the words whose value is known.                    *)
EXTENDS Integers, Sequences, SequencesExt

RAX == 0
RCX == 1
RDX == 2
RSP == 4
RBP == 5
RSI == 6
RDI == 7
R8 == 8
R9 == 9
R10 == 10
R11 == 11
R12 == 12
R13 == 13
R14 == 14
R15 == 15
Registers == 0 .. 15
NoReg == -1

Imm(n) == <<"imm", n>>
Addr(n) == <<"addr", n>>
Global(n) == <<"global", n>>
Captured(n) == <<"captured", n>>
Entry(r) == <<"entry", r>>   \* what register r held when the function was entered
Result(n) == <<"result", n>>
Payload(n) == <<"payload", n>>
Field(n, w) == <<"field", 10 * n + w>>
Junk(n) == <<"junk", n>>

EntryRsp == 8   \* the CALL that entered the function pushed the return address
ReturnAddress == <<"return", 0>>

Sp(m) == m.reg[RSP][2]

(* An instruction: an operation, a destination or register, a source, a     *)
(* number (an immediate, a displacement, a symbol).                         *)
Op(op, dst, src, n) == [op |-> op, dst |-> dst, src |-> src, n |-> n]
Push(r) == Op("push", r, NoReg, 0)
Pop(r) == Op("pop", r, NoReg, 0)
Bump(n) == Op("bump", RSP, NoReg, n)          \* sub rsp, -n  or  add rsp, n
Mov(dst, src) == Op("mov", dst, src, 0)
MovImm(dst, n) == Op("imm", dst, NoReg, n)
LoadGlobal(dst, n) == Op("global", dst, NoReg, n)
LoadEnv(dst, off) == Op("env", dst, NoReg, off)
LoadFrom(dst, base, disp) == Op("load", dst, base, disp)
LoadFrame(dst, disp) == LoadFrom(dst, RBP, disp)
Lea(dst, base, disp) == Op("lea", dst, base, disp)
StoreReg(base, disp, src) == Op("store", base, src, disp)
StoreImm(disp, n) == Op("storeimm", RSP, n, disp)
Recipe(n) == Op("recipe", RAX, NoReg, n)      \* the instructions of a stdlib method
Ret == Op("ret", RSP, NoReg, 0)

SetReg(m, r, v) == [m EXCEPT !.reg[r] = v]
SetMem(m, a, v) == [m EXCEPT !.mem = (a :> v) @@ m.mem]
Mem(m, a) == IF a \in DOMAIN m.mem THEN m.mem[a] ELSE Junk(a)

(* What a callee leaves behind, taking every liberty its convention gives:  *)
(* caller-saved registers and, under the MS convention, the 32 bytes above  *)
(* the return address are lost; R14 and R15 too when it has a declared      *)
(* convention, the case the bridge saves guard against.  c.n numbers the    *)
(* call.                                                                    *)
CallerSaved(abi) ==
  {RAX, RCX, RDX, R8, R9, R10, R11} \union (IF abi = "Ms" THEN {} ELSE {RDI, RSI})

Returned(m, c) ==
  LET sret == m.reg[IF c.abi = "Ms" THEN RCX ELSE RDI]
      lost == CallerSaved(c.abi) \union (IF c.declared THEN {R14, R15} ELSE {})
      shadow == IF c.abi = "Ms" THEN {Sp(m) + 8 * w : w \in 0 .. 3} ELSE {}
      fields == IF c.placement = "Memory" /\ sret[1] = "addr"
                THEN {sret[2] + 8 * w : w \in 0 .. c.record \div 8 - 1} ELSE {}
      rax == CASE c.placement = "None"   -> Result(c.n)
               [] c.placement = "Memory" -> sret
               [] OTHER                  -> Field(c.n, 0)
      rdx == CASE c.placement = "IntPair" -> Field(c.n, 1)
               [] c.pair                  -> Payload(c.n)
               [] OTHER                   -> Junk(RDX)
  IN  [reg |-> [[r \in Registers |-> IF r \in lost THEN Junk(r) ELSE m.reg[r]]
                 EXCEPT ![RAX] = rax, ![RDX] = rdx],
       mem |-> [a \in fields |-> Field(c.n, (a - sret[2]) \div 8)]
               @@ Restrict(m.mem, DOMAIN m.mem \ shadow)]

(* Where a store through a register that holds no address goes is unknown.  *)
Store(m, base, disp, v) ==
  IF m.reg[base][1] = "addr" THEN SetMem(m, m.reg[base][2] + disp, v) ELSE m

(* Captured variables are read through R14. *)
FromEnv(m, off) == IF m.reg[R14] = Entry(R14) THEN Captured(off) ELSE Junk(off)

Step(m, i) ==
  CASE i.op = "push"     -> SetReg(SetMem(m, Sp(m) - 8, m.reg[i.dst]), RSP, Addr(Sp(m) - 8))
    [] i.op = "pop"      -> SetReg(SetReg(m, RSP, Addr(Sp(m) + 8)), i.dst, Mem(m, Sp(m)))
    [] i.op = "bump"     -> SetReg(m, RSP, Addr(Sp(m) + i.n))
    [] i.op = "mov"      -> SetReg(m, i.dst, m.reg[i.src])
    [] i.op = "imm"      -> SetReg(m, i.dst, Imm(i.n))
    [] i.op = "global"   -> SetReg(m, i.dst, Global(i.n))
    [] i.op = "env"      -> SetReg(m, i.dst, FromEnv(m, i.n))
    [] i.op = "load"     -> SetReg(m, i.dst, Mem(m, m.reg[i.src][2] + i.n))
    [] i.op = "lea"      -> SetReg(m, i.dst, Addr(m.reg[i.src][2] + i.n))
    [] i.op = "store"    -> Store(m, i.dst, i.n, m.reg[i.src])
    [] i.op = "storeimm" -> SetMem(m, Sp(m) + i.n, Imm(i.src))
    [] i.op = "call"     -> Returned(m, i.n)
    [] i.op = "recipe"   -> SetReg(m, RAX, Result(i.n))
    [] i.op = "ret"      -> m

(* The machine code leads to: the only element of after[Len(code)].         *)
Run(code, m) ==
  LET after[n \in 0 .. Len(code)] ==
        IF n = 0 THEN {m} ELSE {Step(x, code[n]) : x \in after[n - 1]}
  IN  CHOOSE x \in after[Len(code)] : TRUE
=============================================================================
