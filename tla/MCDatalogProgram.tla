-------------------------- MODULE MCDatalogProgram --------------------------
(***************************************************************************)
(* Two values; edge and path binary, mark unary.  The programs exercise    *)
(* recursion through one and two recursive goals, constants in heads and   *)
(* bodies, repeated variables, negation with bound and unbound variables,  *)
(* range-unsafe heads, rules without positive goals, interpolations and    *)
(* recursion through negation.                                             *)
(***************************************************************************)
EXTENDS DatalogProgram, MCMagicSets

Loop    == Rule(M(X), <<Pos(P(X, X))>>)
NoPath  == Rule(M(a), <<Pos(E(X, Y)), Not(P(Y, Z))>>)
Unsafe  == Rule(M(Z), <<Pos(E(X, Y))>>)
OnlyNot == Rule(M(a), <<Not(E(a, a))>>)
ToA     == Rule(P(X, a), <<Pos(E(a, X)), Pos(M(X))>>)
Piped   == Rule(M(X), <<Pos(E(X, Bound("it")))>>)
Odd     == Rule(M(X), <<Pos(E(X, Y)), Not(M(Y))>>)

Prog(F, rs) ==
    LET p == [facts |-> F, rules |-> rs]
        all == AllStrata(p)
    IN [facts |-> F, rules |-> rs, verdict |-> Verdict(p),
        strata |-> IF all = {} THEN [q \in PredName |-> 0]
                   ELSE CHOOSE s \in all : \A t \in all : \A q \in PredName : s[q] <= t[q]]

MCValues == {"a", "b"}
MCSignature == {<<<<"edge">>, 2>>, <<<<"path">>, 2>>, <<<<"mark">>, 1>>}
MCSessionFact == {Tup("edge", <<"b", "a">>)}
MCProgram ==
    { Prog({E(a, b)}, rs) :
        rs \in { <<>>, <<Right, Base, Loop>>, <<Both, Base>>, <<Base, Both, NotLoop>>,
                 <<Base, Right, NoPath, NotLoop>>, <<Unsafe, Base>>, <<OnlyNot>>,
                 <<Loop, ToA, Base>>, <<ToA, NotLoop>>, <<Piped>>, <<Odd>> } }
    \union {Prog({E(a, b), P(b, b)}, <<Both, Base, Loop>>),
            Prog({E(a, b), E(b, Bound("it"))}, <<Base>>)}
=============================================================================
