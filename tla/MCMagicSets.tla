----------------------------- MODULE MCMagicSets -----------------------------
(***************************************************************************)
(* Programs over the edges of a small graph: left, right and double        *)
(* recursion, a rule with a constant, a rule that calls an intensional     *)
(* predicate after an extensional one, and an intensional predicate with   *)
(* facts of its own; queries bound in the first, the second, both or no    *)
(* position, and one with a pipeline value.                                *)
(***************************************************************************)
EXTENDS MagicSets

At(p, ts) == [pred |-> <<p>>, terms |-> ts]
E(x, y) == At("edge", <<x, y>>)
P(x, y) == At("path", <<x, y>>)
M(x)    == At("mark", <<x>>)
X == Var("X")
Y == Var("Y")
Z == Var("Z")
a == Const("a")
b == Const("b")
Pos(at) == [atom |-> at, negated |-> FALSE]
Not(at) == [atom |-> at, negated |-> TRUE]
Rule(h, g) == [head |-> h, body |-> g]
Tup(p, as) == [pred |-> <<p>>, args |-> as]

Base  == Rule(P(X, Y), <<Pos(E(X, Y))>>)
Right == Rule(P(X, Z), <<Pos(E(X, Y)), Pos(P(Y, Z))>>)
Left  == Rule(P(X, Z), <<Pos(P(X, Y)), Pos(E(Y, Z))>>)
Both  == Rule(P(X, Z), <<Pos(P(X, Y)), Pos(P(Y, Z))>>)
Loops == Rule(M(X), <<Pos(E(X, Y)), Pos(P(Y, X))>>)
Meet  == Rule(P(X, Y), <<Pos(M(X)), Pos(M(Y)), Pos(P(b, Y))>>)
FromA == Rule(M(X), <<Pos(P(a, X))>>)
NotLoop == Rule(M(X), <<Pos(E(X, Y)), Not(P(X, X))>>)

Graphs == SUBSET {Tup("edge", <<"a", "b">>), Tup("edge", <<"b", "c">>),
                  Tup("edge", <<"c", "a">>), Tup("edge", <<"b", "b">>)}
OwnFacts == {{}, {Tup("path", <<"c", "c">>), Tup("mark", <<"b">>)}}

Cases(progs, queries, graphs) ==
    {[rules |-> r, facts |-> F \union G, goals |-> q] :
        r \in progs, q \in queries, F \in graphs, G \in OwnFacts}

PositivePrograms ==
    {<<Base, Right>>, <<Left, Base>>, <<Base, Both>>, <<Base, Right, Loops>>,
     <<Base, Loops, Meet>>, <<Base, Both, FromA, Meet>>}
OneGoal == {<<>>, <<P(a, X)>>, <<P(X, b)>>, <<P(b, a)>>, <<P(X, X)>>, <<M(a)>>, <<E(a, X)>>,
            <<P(a, Bound("it"))>>}

NoProgram == [rules |-> <<>>, facts |-> {}, goals |-> <<>>]

MCPositive == Cases(PositivePrograms, OneGoal, Graphs) \union {NoProgram}
MCNegation == Cases({<<Base, Right, NotLoop>>}, {<<M(a)>>}, Graphs)
=============================================================================
