---------------------------- MODULE DatalogRules ----------------------------
(***************************************************************************)
(* Matching rules and queries against a database (paideia-as-shell-datalog, *)
(* eval.rs): unification of an atom with a tuple, joins, negation filters  *)
(* and grounding.                                                          *)
(*                                                                         *)
(* A term is <<"var", name>>, <<"const", value>> or <<"bound", name>>; an  *)
(* atom is [pred, terms], a tuple of a relation [pred, args], a body goal  *)
(* [atom, negated], a rule [head, body].  A database is a set of tuples.   *)
(* A binding is a function from variable names to values; a Vec<Binding>   *)
(* is the set of its elements, and Option<Binding> a set of at most one.   *)
(***************************************************************************)
EXTENDS Integers, Sequences, FiniteSets

LOCAL INSTANCE TLC

Positions(s) == 1..Len(s)
Var(x)   == <<"var", x>>
Const(c) == <<"const", c>>
Bound(x) == <<"bound", x>>
NoBinding == [x \in {} |-> x]

VarsOf(atom) ==
    {atom.terms[i][2] : i \in {j \in Positions(atom.terms) : atom.terms[j][1] = "var"}}

reject_bound(atom) == \E i \in Positions(atom.terms) : atom.terms[i][1] = "bound"

(* Database::tables keyed by predicate and arity.                          *)
Candidates(atom, D) == {f \in D : f.pred = atom.pred /\ Len(f.args) = Len(atom.terms)}

unify_atom(atom, args, base) ==
    LET ok == \A i \in Positions(args) :
                 LET t == atom.terms[i]
                 IN CASE t[1] = "const" -> t[2] = args[i]
                      [] t[1] = "var"   ->
                            /\ t[2] \in DOMAIN base => base[t[2]] = args[i]
                            /\ \A j \in Positions(args) : atom.terms[j] = t => args[j] = args[i]
                      [] OTHER          -> FALSE
        value(x) == args[CHOOSE i \in Positions(args) : atom.terms[i] = Var(x)]
    IN IF Len(args) = Len(atom.terms) /\ ok
       THEN {base @@ [x \in VarsOf(atom) |-> value(x)]} ELSE {}

extend_with_db(atom, D, bindings) ==
    UNION {unify_atom(atom, f.args, b) : f \in Candidates(atom, D), b \in bindings}

negation_matches(atom, D, b) ==
    \E f \in Candidates(atom, D) : unify_atom(atom, f.args, b) # {}

ground_atom(atom, b) ==
    IF VarsOf(atom) \subseteq DOMAIN b /\ ~reject_bound(atom)
    THEN {[pred |-> atom.pred,
           args |-> [i \in Positions(atom.terms) |->
                        IF atom.terms[i][1] = "const" THEN atom.terms[i][2]
                        ELSE b[atom.terms[i][2]]]]}
    ELSE {}

-----------------------------------------------------------------------------
PositiveGoals(body) == SelectSeq(body, LAMBDA g : ~g.negated)
NegativeGoals(body) == SelectSeq(body, LAMBDA g : g.negated)

(* Join the atoms of a sequence of goals, in order.                        *)
Join(goals, D, start) ==
    LET acc[k \in 0..Len(goals)] ==
            IF k = 0 THEN start ELSE extend_with_db(goals[k].atom, D, acc[k - 1])
    IN acc[Len(goals)]

FilterNegated(body, D, bindings) ==
    {b \in bindings : \A k \in Positions(body) :
                         body[k].negated => ~negation_matches(body[k].atom, D, b)}

enumerate_body(D, body) ==
    FilterNegated(body, D, Join(PositiveGoals(body), D, {NoBinding}))

(* query: a conjunction of positive goals; {} when a goal mentions a       *)
(* pipeline value, else the set of the one result.                         *)
query(D, goals) ==
    IF \E k \in Positions(goals) : reject_bound(goals[k]) THEN {}
    ELSE {Join([k \in Positions(goals) |-> [atom |-> goals[k], negated |-> FALSE]], D, {NoBinding})}

(* derive_round for one rule: each positive goal in turn is the pivot,     *)
(* matched against delta_prev, the other positive goals against the        *)
(* database in body order.                                                 *)
Without(body, k) ==
    [j \in 1..(Len(body) - 1) |-> IF j < k THEN body[j] ELSE body[j + 1]]

PivotBindings(rule, k, D, delta_prev) ==
    LET pivot == rule.body[k].atom
        base  == extend_with_db(pivot, delta_prev, {NoBinding})
    IN FilterNegated(rule.body, D, Join(PositiveGoals(Without(rule.body, k)), D, base))

derive_round(rule, D, delta_prev) ==
    UNION {ground_atom(rule.head, b) :
              b \in UNION {PivotBindings(rule, k, D, delta_prev) :
                              k \in {j \in Positions(rule.body) : ~rule.body[j].negated}}} \ D
=============================================================================
