----------------------------- MODULE MCBlockBody -----------------------------
(* Small functions: up to three lets or an earlier call, then a call of     *)
(* every kind and a tail; closures before a call; interrupt handlers; and   *)
(* functions that return a record.                                          *)
EXTENDS BlockBody

MCGlobals == {170}

F(abi, noFrame, params, pair, captures, kind) ==
  [abi |-> abi, noFrame |-> noFrame, interrupt |-> FALSE, params |-> params, pair |-> pair,
   captures |-> captures, record |-> 0, body |-> kind]

(* Functions that return a record of up to three words. *)
RecordFunctions ==
  {[F(abi, nf, 2, FALSE, FALSE, "RecordCons") EXCEPT !.record = 8 * w] :
     abi \in {"none", "Ms"}, nf \in BOOLEAN, w \in 1 .. 3}

(* Handlers have no parameters, and @interrupt implies @no_frame. *)
Handlers == {[F("none", TRUE, 0, FALSE, FALSE, k) EXCEPT !.interrupt = TRUE] : k \in {"Action", "App"}}

(* A function of the default convention with one parameter. *)
MCOneParameter == {F("none", FALSE, 1, FALSE, FALSE, "Action")}

MCFunctions ==
  {F(abi, nf, p, FALSE, FALSE, k) :
     abi \in {"none", "Sysv", "Ms"}, nf \in BOOLEAN, p \in {0, 3}, k \in {"Action", "App"}}
  \union {F("none", nf, 1, TRUE, TRUE, k) : nf \in BOOLEAN, k \in {"Action", "App"}}
  \union {F("none", nf, 7, FALSE, FALSE, k) : nf \in BOOLEAN, k \in {"Action", "App"}}
  \union RecordFunctions \union Handlers

(* What another function left in the binding table: its third parameter and *)
(* a let.  Only a record's function keeps it.                               *)
MCLeftovers(f) ==
  LET left == (2 :> Reg(RDX)) @@ (LetName(1) :> Reg(RCX)) @@ (LetName(2) :> Closure(R8))
  IN  {left} \union (IF f.body = "RecordCons" THEN {<<>>} ELSE {})
MCNoLeftovers(f) == {<<>>}

Callee(abi, record, pair, recipe, defined) ==
  [abi |-> abi, record |-> record, pair |-> pair, recipe |-> recipe, defined |-> defined]

Callees ==
  {Callee(abi, rec, FALSE, "none", TRUE) : abi \in {"none", "Ms"}, rec \in {0, 8, 16, 24}}
  \union {Callee("Sysv", 0, FALSE, "none", TRUE), Callee("none", 0, FALSE, "none", FALSE),
          Callee("none", 0, TRUE, "none", TRUE), Callee("Ms", 0, TRUE, "none", TRUE)}
  \union {Callee("none", 0, FALSE, r, TRUE) : r \in {"literal", "regs", "extern"}}

Lit == Arg("Literal", 7)
V(x) == Arg("Var", x)
Unit == Arg("Unit", 0)

ArgLists(lets) ==
  { <<>>, <<Lit>>, <<V(0)>>, <<V(2), V(1)>>, <<V(1), V(0), Unit>>, <<V(170), V(150)>>, <<V(150)>>,
    <<Lit, Lit, V(0), Unit, Lit>>, <<Lit, Lit, Lit, Lit, V(1), V(170)>>,
    <<Lit, Lit, Lit, Lit, Lit, Lit, V(0), V(170), Unit>>, <<V(6)>>,
    <<Arg("Payload", 9)>>, <<Arg("PayloadVar", 1), Lit>>, <<Arg("Payload", 9), Lit, Lit>>,
    <<Arg("App", 0)>>, <<Arg("App", 0), Lit>>, <<Lit, Arg("App", 0)>> }
  \union (IF lets = 0 THEN {}
          ELSE {<<V(LetName(1))>>, <<Lit, V(LetName(lets))>>, <<V(LetName(1)), V(LetName(lets))>>})

Stmt(kind, rhs, n, callee, args) == [kind |-> kind, rhs |-> rhs, n |-> n, callee |-> callee, args |-> args]
NoCallee == Callee("none", 0, FALSE, "none", FALSE)
Let(rhs, n) == Stmt("Let", rhs, n, NoCallee, <<>>)
Var(x) == Stmt("Var", "none", x, NoCallee, <<>>)
CallStmt(c, args) == Stmt("App", "none", 0, c, args)
LetCallStmt(c, args) == Stmt("Let", "App", 0, c, args)

Lets ==
  { <<>>, <<Let("Literal", 5)>>, <<Let("Payload", 6)>>,
    <<Let("PayloadVar", 0), Let("Var", 1)>>, <<Let("Unit", 0), Let("Payload", 6), Let("Literal", 5)>>,
    <<Let("Payload", 6), Let("Payload", 5)>>,
    <<LetCallStmt(Callee("none", 0, TRUE, "none", TRUE), <<Lit>>)>>,
    <<Let("Literal", 5), CallStmt(Callee("none", 0, FALSE, "regs", TRUE), <<Lit>>)>> }

MakeClosure(args) == Stmt("Let", "Closure", 0, NoCallee, args)

(* Up to three closures, without captures and with captures of parameters,  *)
(* lets, a captured variable, an enum value or another closure.             *)
ClosureLets ==
  { <<MakeClosure(<<>>)>>, <<MakeClosure(<<V(0)>>)>>, <<MakeClosure(<<V(6)>>)>>,
    <<MakeClosure(<<V(150), V(0)>>), MakeClosure(<<>>)>>,
    <<MakeClosure(<<V(1)>>), MakeClosure(<<V(0), V(LetName(1))>>), MakeClosure(<<V(LetName(2))>>)>>,
    <<Let("Literal", 5), MakeClosure(<<V(LetName(1))>>), MakeClosure(<<>>)>>,
    <<Let("Payload", 6), MakeClosure(<<V(LetName(1))>>), MakeClosure(<<>>)>>,
    <<Let("Unit", 0), Let("Payload", 6), MakeClosure(<<V(LetName(1)), V(LetName(2))>>)>> }
LetNames(p) == {LetName(k) : k \in {j \in DOMAIN p : p[j].kind = "Let"}}

(* The names of the arguments are in scope. *)
InScope(f, p, args) ==
  \A k \in DOMAIN args : args[k].kind \in {"Var", "PayloadVar"} =>
    args[k].n \in 0 .. f.params - 1 \union {170} \union LetNames(p)
                  \union (IF f.captures THEN {150} ELSE {})

ArgsOf(f, p) == {args \in ArgLists(Len(p)) : InScope(f, p, args)}
LetsOf(f) == {p \in Lets : f.params < 2 => p # <<Let("PayloadVar", 0), Let("Var", 1)>>}

ClosureBodies(f) ==
  UNION {UNION {{p \o <<CallStmt(c, args)>>, p \o <<CallStmt(c, args), MakeClosure(<<>>)>>} :
                  c \in Callees, args \in {<<>>, <<Lit>>, [k \in 1 .. 7 |-> Lit]}} :
           p \in {q \in ClosureLets : \A k \in DOMAIN q : q[k].rhs = "Closure" => InScope(f, q, q[k].args)}}

FieldValues == {Let("Literal", 5), Let("Var", 0), Let("Var", 1),
                LetCallStmt(Callee("none", 0, FALSE, "none", TRUE), <<Lit>>)}

MCBodies(f) ==
  IF f.body = "RecordCons" THEN [1 .. f.record \div 8 -> FieldValues]
  ELSE IF f.body = "App" THEN {<<CallStmt(c, args)>> : c \in Callees, args \in ArgsOf(f, <<>>)}
  ELSE { <<>>, <<Let("Var", 170)>>, <<Let("Var", 160)>> }
       \union {<<Var(k)>> : k \in 0 .. f.params - 1}
       \union ClosureBodies(f)
       \union (IF f.captures THEN {<<Let("Var", 150), Let("Var", 0)>>} ELSE {})
       \union (IF f.params = 7 THEN {<<Let("Var", 6), Var(0), Var(LetName(1))>>} ELSE {})
       \union UNION {UNION {{p \o <<CallStmt(c, args)>>, p \o <<LetCallStmt(c, args), Var(LetName(1))>>} :
                              c \in Callees, args \in ArgsOf(f, p)} : p \in LetsOf(f)}

(* A call of a plain function after up to three lets, then the parameter. *)
MCPlainBodies(f) ==
  UNION {{p \o <<CallStmt(Callee("none", 0, FALSE, "none", TRUE), <<Lit>>), Var(0)>>} : p \in LetsOf(f)}
=============================================================================
