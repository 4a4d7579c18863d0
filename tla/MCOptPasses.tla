---------------------------- MODULE MCOptPasses ----------------------------
(* Arenas for the optimisation passes: every peephole pattern, every        *)
(* tail-call window, every basic block and every loop up to small bounds,   *)
(* and the machine states their functions are compared on.                  *)
EXTENDS OptPasses, SequencesExt

CONSTANTS
  MaxPeephole,   \* instructions of a function over the peephole alphabet
  MaxContext,    \* instructions before a tail-call window
  MaxBlock,      \* instructions of a basic block
  MaxLoops       \* loops of an arena

RCX == 1
Ret == Ins("ret", <<>>)

Mov(d, s) == Ins("mov", <<d, s>>)
PushReg(r) == Ins("push", <<Reg(r)>>)
PopReg(r) == Ins("pop", <<Reg(r)>>)
SubRsp == Ins("sub", <<Reg(RSP), Imm64(1)>>)
AddRsp == Ins("add", <<Reg(RSP), Imm64(1)>>)
CallReg == Ins("call", <<Reg(RCX)>>)
CallSymbol(f) == Ins("call", <<SymbolRef(f)>>)

MCMachines ==
  {Entry([r \in Registers |-> CASE r = RAX -> x [] r = RBX -> y [] OTHER -> 1],
         [a \in 0..(MemorySize - 1) |-> (x + y + a + 1) % Modulus]) :
     x \in {0, 3}, y \in {0, 1, 3}}

(* Node ids are even and leave room for handlers between them.  They follow *)
(* the emission order, but for the late instructions, which come after all  *)
(* others: a call statement whose lowering is put off, or raw instructions  *)
(* around a store, whose id is that of its syntax tree node.                *)
ById(f, late) ==
  LET positions == [p \in DOMAIN f |-> p]
  IN  SelectSeq(positions, LAMBDA p : p \notin late) \o SelectSeq(positions, LAMBDA p : p \in late)

(* In a tied numbering, a nop has the order of the instruction behind it.   *)
Order(f, tied, p) == IF tied /\ f[p].op = "nop" THEN p + 1 ELSE p

Numbered(f, late, tied) ==
  LET w == ById(f, late)
  IN  [n \in {2 * k : k \in DOMAIN f} |->
         LET p == w[n \div 2]
         IN  [op |-> f[p].op, operands |-> f[p].operands,
              emission_order |-> Order(f, tied, p), hint |-> NoHint]]

ArenaOf(t, passes) ==
  [table |-> t, requested |-> passes, loops |-> <<>>, owner |-> NoOwner,
   handlers |-> {}, foreign |-> {}]

Plain(f, passes) == ArenaOf(Numbered(f, {}, FALSE), passes)

(* One instruction, or all but one, is numbered late. *)
Renumbered(f) ==
  {Numbered(f, late, FALSE) :
     late \in {{}} \union {{p} : p \in DOMAIN f} \union {DOMAIN f \ {p} : p \in DOMAIN f}}

(* The functions that keep the calling discipline; what they do to the      *)
(* stack does not depend on the machine they are entered in.                *)
Closed(bodies) ==
  LET m == CHOOSE m \in Machines : TRUE
  IN  {f \in {b \o <<Ret>> : b \in bodies} : Disciplined(f, m)}

AtMostOne(S) == {{}} \union {{x} : x \in S}

-----------------------------------------------------------------------------
(* Every peephole pattern, and near misses of it. *)
PeepholeAlphabet ==
  {Mov(Reg(RBX), Reg(RBX)), Mov(Reg(RBX), Reg(RCX)), Mov(Reg(RCX), MemSib(0, NoIndex)),
   Mov(MemSib(0, NoIndex), Reg(RCX)),
   Ins("add", <<Reg(RBX), Imm64(0)>>), Ins("sub", <<Reg(RBX), Imm64(0)>>),
   Ins("add", <<Reg(RBX), Imm64(1)>>),
   Ins("imul", <<Reg(RBX), Reg(RBX), Imm64(2)>>), Ins("imul", <<Reg(RBX), Reg(RBX), Imm64(3)>>),
   Ins("imul", <<Reg(RBX), Reg(RCX), Imm64(4)>>),
   PushReg(RBX), PopReg(RBX), PopReg(RCX), PushReg(RCX), Ins("jeq", <<>>)}

(* A compare followed by its branch counts as one choice. *)
Compares ==
  {<<Ins("cmp", <<Reg(RBX), Imm64(n)>>), Ins(j, <<>>)>> : n \in {0, 1}, j \in {"jeq", "jlt"}}

(* The windows of two instructions, in any numbering.                       *)
PairAlphabet ==
  {Mov(Reg(RCX), MemSib(0, NoIndex)), Mov(MemSib(0, NoIndex), Reg(RCX)),
   PushReg(RBX), PopReg(RBX), PopReg(RCX), Mov(Reg(RBX), Reg(RCX)),
   Ins("sub", <<Reg(RBX), Imm64(0)>>), Ins("cmp", <<Reg(RBX), Imm64(0)>>), Ins("jeq", <<>>)}

PeepholeArenas ==
  LET shorter == BoundedSeq(PeepholeAlphabet, MaxPeephole - 1)
      bodies == BoundedSeq(PeepholeAlphabet, MaxPeephole)
                  \union {b \o c : b \in shorter, c \in Compares}
                  \union {c \o b : b \in shorter, c \in Compares}
  IN  {Plain(f, {"peephole"}) : f \in Closed(bodies)}
        \union UNION {{ArenaOf(t, {"peephole"}) : t \in Renumbered(f)} :
                      f \in Closed(BoundedSeq(PairAlphabet, MaxPeephole))}

-----------------------------------------------------------------------------
(* The instructions of the tail-call windows up to their Ret. *)
Windows ==
  {<<SubRsp, CallReg, AddRsp>>, <<PushReg(RBX), CallSymbol(2), PopReg(RBX)>>,
   <<PopReg(RBX), CallReg, PopReg(RBX)>>, <<CallSymbol(2), PopReg(RBX)>>,
   <<CallSymbol(2), PopReg(RAX)>>,
   <<CallReg>>, <<CallSymbol(1)>>, <<CallSymbol(2)>>}

Context ==
  {PushReg(RBX), PushReg(RAX), PopReg(RBX), SubRsp, CallReg, CallSymbol(2),
   Mov(Reg(RBX), Imm64(1))}

TailFunctions ==
  Closed({c \o w : c \in BoundedSeq(Context, MaxContext), w \in Windows}
           \union BoundedSeq(Context \union {AddRsp}, MaxContext + 1))

(* The owner, the handlers and the calls with other capabilities, which     *)
(* matter to an owner only: at most one handler or one such call.           *)
Blockers(t) ==
  {<<1, H, {}>> : H \in AtMostOne({n + 1 : n \in DOMAIN t})}
    \union {<<o, {}, {n}>> : o \in {NoOwner, 1}, n \in {k \in DOMAIN t : t[k].op = "call"}}

TailArena(t, b) ==
  [ArenaOf(t, {"peephole", "tailcall"}) EXCEPT !.owner = b[1], !.handlers = b[2], !.foreign = b[3]]

(* Blockers in functions numbered as emitted, no blockers in the others.    *)
TailArenas ==
  UNION {LET t == Numbered(f, {}, FALSE)
         IN  {TailArena(t, b) : b \in Blockers(t)}
               \union {TailArena(u, <<1, {}, {}>>) : u \in Renumbered(f)} :
         f \in TailFunctions}

-----------------------------------------------------------------------------
(* Stores to two addresses, a load, a nop, which the scheduler hoists, and  *)
(* a compare with its branch, which is a barrier.                           *)
BlockAlphabet ==
  {Mov(MemSib(0, NoIndex), Reg(RBX)), Mov(MemSib(1, NoIndex), Imm64(1)),
   Mov(Reg(RCX), MemSib(0, NoIndex)), Ins("nop", <<>>),
   Ins("cmp", <<Reg(RBX), Imm64(1)>>), Ins("jeq", <<>>)}

(* Stores, one to an address expression that shares another one's key.      *)
StoreAlphabet ==
  {Mov(MemSib(0, NoIndex), Reg(RBX)), Mov(MemSib(0, RAX), Reg(RBX)),
   Mov(MemSib(1, NoIndex), Imm64(1)), Ins("nop", <<>>), Mov(Reg(RBX), Reg(RBX))}

BlockPasses == {"schedule", "dse", "macro-fusion", "branch-hint", "align", "pool-constants"}

(* Stores in any numbering and with a nop that shares its order.            *)
BlockArenas ==
  {Plain(f, BlockPasses) : f \in Closed(BoundedSeq(BlockAlphabet, MaxBlock))}
    \union UNION {{ArenaOf(t, BlockPasses \union {"peephole"}) :
                     t \in Renumbered(f) \union
                           {Numbered(f, late, TRUE) : late \in {{}} \union {{p} : p \in DOMAIN f}}} :
                  f \in Closed(BoundedSeq(StoreAlphabet, MaxBlock - 1))}

-----------------------------------------------------------------------------
MCLoop ==
  [trip : {NoTrip, 0, 3, 4, 5, 8, 11}, bodies : {0, 1}, blocked : BOOLEAN, remainder : {NoLoop}]

LoopArenas ==
  {[Plain(<<Ret>>, {"unroll"}) EXCEPT !.loops = l] : l \in BoundedSeq(MCLoop, MaxLoops)}

MCArenas == {PeepholeArenas, TailArenas, BlockArenas, LoopArenas}

-----------------------------------------------------------------------------
(* A call statement between raw instructions, lowered after them or not. *)
Calls(f) == {p \in DOMAIN f : f[p].op = "call"}

MCDeferredCalls ==
  {{ArenaOf(Numbered(f, d, FALSE), {"peephole"}) : d \in SUBSET Calls(f)} :
    f \in Closed(BoundedSeq({PushReg(RAX), PopReg(RAX), CallSymbol(2)}, MaxPeephole))}

(* A call bracketed by a push and a pop of the same register. *)
MCBrackets ==
  {{Plain(f, {"tailcall"}) :
      f \in Closed(BoundedSeq({PushReg(RBX), PopReg(RBX), CallSymbol(2)}, MaxContext + 1))}}

(* Stores to one address and loads from it, cleaned by the dead-store pass. *)
MCStoresAndLoads ==
  {{Plain(f, {"dse"}) :
      f \in Closed(BoundedSeq({Mov(MemSib(0, NoIndex), Reg(RBX)), Mov(MemSib(0, NoIndex), Imm64(1)),
                               Mov(Reg(RCX), MemSib(0, NoIndex))}, MaxBlock))}}

=============================================================================
