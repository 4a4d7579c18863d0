----------------------------- MODULE X86Machine -----------------------------
(* The part of the x86-64 processor that the optimisation passes reason     *)
(* about: registers, memory words, the stack, the flags that branches read, *)
(* calls, and the transfer back to the caller.  Not code of the repository: *)
(* the reference against which rewritten instructions are compared.         *)
(*                                                                          *)
(* A callee is opaque: a call to it is recorded, it leaves its result in    *)
(* rax and preserves every other register.  A conditional jump is recorded  *)
(* with its outcome and falls through, so that equal records mean equal     *)
(* paths.  Stack adjustments count words.                                   *)
EXTENDS Integers, Sequences

CONSTANTS
  Modulus,      \* words are the integers modulo Modulus
  MemorySize    \* number of memory words

RAX == 0
RBX == 3
RSP == 4
Registers == {RAX, 1, RBX}

NoIndex == -1
ReturnAddress == -1
Garbage == -7
Fault == -9

Reg(r) == [kind |-> "reg", value |-> r, index |-> NoIndex]
Imm64(n) == [kind |-> "imm", value |-> n, index |-> NoIndex]
SymbolRef(f) == [kind |-> "sym", value |-> f, index |-> NoIndex]
MemSib(disp, index) == [kind |-> "mem", value |-> disp, index |-> index]

Ins(op, operands) == [op |-> op, operands |-> operands]

IsJcc(op) == op \in {"jeq", "jlt"}
SetsFlags(op) == op \in {"add", "sub", "imul", "shl", "cmp", "test"}

(* A function starts with its return address on top of its caller's frame. *)
Entry(registers, memory) ==
  [reg |-> registers, mem |-> memory, stack |-> <<ReturnAddress, -2, -3>>,
   zf |-> FALSE, lt |-> FALSE, trace |-> <<>>, exit |-> 0]

Running(m) == m.exit = 0

Address(m, o) ==
  (o.value + IF o.index = NoIndex THEN 0 ELSE m.reg[o.index]) % MemorySize

Read(m, o) ==
  CASE o.kind = "reg" -> m.reg[o.value]
    [] o.kind = "mem" -> m.mem[Address(m, o)]
    [] OTHER -> o.value

Write(m, o, w) ==
  IF o.kind = "mem" THEN [m EXCEPT !.mem[Address(m, o)] = w]
                    ELSE [m EXCEPT !.reg[o.value] = w]

Compute(m, o, w) == [Write(m, o, w % Modulus) EXCEPT !.zf = w % Modulus = 0, !.lt = FALSE]

Push(m, w) == [m EXCEPT !.stack = <<w>> \o @]

Drop(m) == IF m.stack = <<>> THEN [m EXCEPT !.exit = Fault]
                             ELSE [m EXCEPT !.stack = Tail(@)]

Record(m, what, v) == [m EXCEPT !.trace = Append(@, [what |-> what, value |-> v])]

Callee(m, target) ==
  [Record(m, "call", target) EXCEPT !.reg[RAX] = (target + 1) % Modulus]

Return(m) == IF m.stack = <<>> THEN [m EXCEPT !.exit = Fault]
                               ELSE [m EXCEPT !.exit = Head(m.stack), !.stack = Tail(@)]

MoveStackPointer(m, op, words) ==
  IF op = "sub" THEN [m EXCEPT !.stack = [k \in 1..words |-> Garbage] \o @,
                               !.zf = FALSE, !.lt = FALSE]
  ELSE IF words > Len(m.stack) THEN [m EXCEPT !.exit = Fault]
  ELSE [m EXCEPT !.stack = SubSeq(@, words + 1, Len(@)), !.zf = FALSE, !.lt = FALSE]

Execute(m, ins) ==
  LET a == ins.operands[1]
      b == ins.operands[2]
  IN
  CASE ~ Running(m) -> m
    [] ins.op \in {"add", "sub"} /\ a = Reg(RSP) -> MoveStackPointer(m, ins.op, b.value)
    [] ins.op = "mov"  -> Write(m, a, Read(m, b))
    [] ins.op = "add"  -> Compute(m, a, Read(m, a) + Read(m, b))
    [] ins.op = "sub"  -> Compute(m, a, Read(m, a) - Read(m, b))
    [] ins.op = "imul" -> Compute(m, a, Read(m, b) * ins.operands[3].value)
    [] ins.op = "shl"  -> Compute(m, a, Read(m, a) * 2 ^ b.value)
    [] ins.op = "push" -> Push(m, Read(m, a))
    [] ins.op = "pop"  -> IF m.stack = <<>> THEN Drop(m)
                                            ELSE Drop(Write(m, a, Head(m.stack)))
    [] ins.op = "cmp"  -> [m EXCEPT !.zf = Read(m, a) = Read(m, b),
                                    !.lt = Read(m, a) < Read(m, b)]
    [] ins.op = "test" -> [m EXCEPT !.zf = Read(m, a) = 0, !.lt = FALSE]
    [] ins.op = "jeq"  -> Record(m, "branch", IF m.zf THEN 1 ELSE 0)
    [] ins.op = "jlt"  -> Record(m, "branch", IF m.lt THEN 1 ELSE 0)
    [] ins.op = "call" -> Callee(m, Read(m, a))
    [] ins.op = "jmp"  -> Return(Callee(m, Read(m, a)))
    [] ins.op = "ret"  -> Return(m)
    [] OTHER -> m

Run(program, m) ==
  LET after[n \in 0..Len(program)] ==
        IF n = 0 THEN m ELSE Execute(after[n - 1], program[n])
  IN  after[Len(program)]

(* What the caller and the rest of the system can tell apart afterwards. *)
Observe(m) == [reg |-> m.reg, mem |-> m.mem, stack |-> m.stack,
               trace |-> m.trace, exit |-> m.exit]

(* A function that keeps the calling discipline: it never reaches below its *)
(* own frame, and returns to its caller with the caller's frame on top.     *)
Disciplined(program, m) ==
  /\ \A n \in 1..(Len(program) - 1) :
       Len(Run(SubSeq(program, 1, n), m).stack) >= Len(m.stack)
  /\ Run(program, m).exit = ReturnAddress
  /\ Run(program, m).stack = Tail(m.stack)

=============================================================================
