------------------------- MODULE MCDatalogFixpoint -------------------------
(***************************************************************************)
(* Six tuples: e1, e2 are extensional, p1, p2 of a recursive predicate, q1 *)
(* and r1 of two predicates above it.  The programs are all choices of at  *)
(* most MaxRules instances among nine, which hold linear and mutual       *)
(* recursion, joins, negation across one and two strata and a rule without *)
(* a positive goal, each with and without a fact of its own, and longer    *)
(* ones that chain recursion and negation through all three strata.        *)
(***************************************************************************)
EXTENDS DatalogFixpoint

CONSTANTS e1, e2, p1, p2, q1, r1, MaxRules

MCFact == {e1, e2, p1, p2, q1, r1}
MCSessionFact == {e1, p2}

Rule(h, P, N) == [head |-> h, pos |-> P, neg |-> N]

Candidates ==
    { Rule(p1, {e1}, {}), Rule(p2, {p1, e2}, {}), Rule(p1, {p2}, {}),
      Rule(p2, {p1}, {}), Rule(q1, {e1}, {p2}), Rule(q1, {p1, p2}, {e2}),
      Rule(r1, {e2}, {q1}), Rule(r1, {q1, p1}, {p2}), Rule(q1, {}, {p1}) }

Chains ==
    { { Rule(p1, {e1}, {}), Rule(p2, {p1, e2}, {}), Rule(q1, {e1}, {p2}), Rule(r1, {e2}, {q1}) },
      { Rule(p1, {p2}, {}), Rule(p2, {p1}, {}), Rule(q1, {}, {p1}), Rule(r1, {e2}, {q1}) },
      { Rule(p1, {e1}, {}), Rule(p2, {p1}, {}), Rule(q1, {p1, p2}, {e2}), Rule(r1, {q1, p1}, {p2}) },
      Candidates }

LevelOf == [f \in MCFact |-> CASE f = q1 -> 1 [] f = r1 -> 2 [] OTHER -> 0]

MakeProgram(F, R) ==
    [facts |-> F, rules |-> R, level |-> LevelOf,
     levels |-> {LevelOf[i.head] : i \in R}, verdict |-> "ok"]

MCProgram ==
    { MakeProgram(F, R) : F \in {{}, {e2}},
                          R \in Chains \union
                                {S \in SUBSET Candidates : Cardinality(S) <= MaxRules} }
    \union { [MakeProgram({e1}, {}) EXCEPT !.verdict = v] : v \in {"bound", "unstratified"} }
=============================================================================
