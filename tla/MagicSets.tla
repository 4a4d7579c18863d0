------------------------------ MODULE MagicSets ------------------------------
(***************************************************************************)
(* The magic-set rewriting of a program for a query (magic_sets.rs): the   *)
(* breadth-first search for adornments, then one step per rule and         *)
(* adornment that emits the guarded rule and its supplementary rules, then *)
(* the seed.  The evaluator runs the rewritten program and the query on    *)
(* its result (run_query_via_magic_sets).                                  *)
(*                                                                         *)
(* A predicate is a sequence: <<name>>, or <<"magic", name, adornment>>    *)
(* for the predicates the rewriting invents.  An adornment is a sequence   *)
(* of Booleans, TRUE where the position is bound.                          *)
(***************************************************************************)
EXTENDS DatalogRules

CONSTANTS Case     \* [rules, facts, goals]: a program and a query

VARIABLES
    case, phase,   \* "adorn" | "emit" | "done"
    adorned,       \* the adorned predicates found
    worklist,
    todo,          \* the pairs <<rule index, adornment>> still to rewrite
    new_rules, new_facts

rewriteVars == <<case, phase, adorned, worklist, todo, new_rules, new_facts>>

Rules(p) == {p.rules[k] : k \in Positions(p.rules)}
Fact0(atom) == [pred |-> atom.pred, args |-> [i \in Positions(atom.terms) |-> atom.terms[i][2]]]
IsGround(atom) == \A i \in Positions(atom.terms) : atom.terms[i][1] = "const"

-----------------------------------------------------------------------------
compute_adornment(atom, bound_vars) ==
    [i \in Positions(atom.terms) |->
        \/ atom.terms[i][1] = "const"
        \/ atom.terms[i][1] = "var" /\ atom.terms[i][2] \in bound_vars]

AnyBound(adr) == \E i \in Positions(adr) : adr[i]

magic_pred_name(pred, adr) == <<"magic", pred, adr>>

(* The bound arguments only, in order.  Callers test AnyBound first.       *)
build_magic_atom(atom, adr) ==
    LET bound == SelectSeq([i \in Positions(atom.terms) |-> <<atom.terms[i], adr[i]>>],
                           LAMBDA x : x[2])
    IN [pred |-> magic_pred_name(atom.pred, adr), terms |-> [i \in Positions(bound) |-> bound[i][1]]]

HeadBound(rule, adr) ==
    {rule.head.terms[i][2] : i \in {j \in Positions(adr) : adr[j] /\ rule.head.terms[j][1] = "var"}}

(* The variables bound before the k-th positive goal.                      *)
BoundBefore(rule, adr, goals, k) ==
    HeadBound(rule, adr) \union UNION {VarsOf(goals[j].atom) : j \in 1..(k - 1)}

idb == {r.head.pred : r \in Rules(case)}

(* propagate_sip: the adorned intensional goals of a rule, in body order.  *)
propagate_sip(rule, adr) ==
    LET goals == PositiveGoals(rule.body)
        all   == [k \in Positions(goals) |->
                     <<goals[k].atom.pred,
                       compute_adornment(goals[k].atom, BoundBefore(rule, adr, goals, k))>>]
    IN SelectSeq(all, LAMBDA x : x[1] \in idb)

Applies(rule, pred, adr) == rule.head.pred = pred /\ Len(rule.head.terms) = Len(adr)

QueryAdornment(q) == compute_adornment(q, {})

-----------------------------------------------------------------------------
(* An empty query, or one whose first goal has no constant, leaves the     *)
(* program as it is.                                                       *)
RewriteInit ==
    /\ case \in Case
    /\ adorned = {} /\ todo = {}
    /\ IF case.goals = <<>> \/ ~AnyBound(QueryAdornment(case.goals[1]))
       THEN /\ phase = "done"
            /\ worklist = <<>>
            /\ new_rules = Rules(case)
            /\ new_facts = case.facts
       ELSE /\ phase = "adorn"
            /\ worklist = <<<<case.goals[1].pred, QueryAdornment(case.goals[1])>>>>
            /\ new_rules = {}
            /\ new_facts = case.facts

(* One turn of the while loop over the worklist.                           *)
PushAll(pa, base) ==
    LET acc[k \in 0..Len(case.rules)] ==
            IF k = 0 THEN base
            ELSE IF Applies(case.rules[k], pa[1], pa[2])
                 THEN acc[k - 1] \o propagate_sip(case.rules[k], pa[2])
                 ELSE acc[k - 1]
    IN acc[Len(case.rules)]

Adorn ==
    /\ phase = "adorn" /\ worklist # <<>>
    /\ LET pa == Head(worklist)
       IN IF pa \in adorned
          THEN worklist' = Tail(worklist) /\ UNCHANGED adorned
          ELSE /\ adorned' = adorned \union {pa}
               /\ worklist' = PushAll(pa, Tail(worklist))
    /\ UNCHANGED <<case, phase, todo, new_rules, new_facts>>

AdornDone ==
    /\ phase = "adorn" /\ worklist = <<>>
    /\ phase' = "emit"
    /\ todo' = {<<k, a>> \in Positions(case.rules) \X {pa[2] : pa \in adorned} :
                   /\ <<case.rules[k].head.pred, a>> \in adorned
                   /\ Len(a) = Len(case.rules[k].head.terms)}
    /\ UNCHANGED <<case, adorned, worklist, new_rules, new_facts>>

Guard(rule, adr) ==
    IF AnyBound(adr) THEN <<[atom |-> build_magic_atom(rule.head, adr), negated |-> FALSE]>> ELSE <<>>

(* Mutant: a supplementary rule forgets the goals before its own.          *)
Supplement_no_prefix(rule, adr, goals, k) ==
    LET beta == compute_adornment(goals[k].atom, BoundBefore(rule, adr, goals, k))
    IN IF goals[k].atom.pred \in idb /\ <<goals[k].atom.pred, beta>> \in adorned /\ AnyBound(beta)
       THEN {[head |-> build_magic_atom(goals[k].atom, beta), body |-> Guard(rule, adr)]}
       ELSE {}

(* The supplementary rule of the k-th positive goal.                       *)
Supplement(rule, adr, goals, k) ==
    LET beta == compute_adornment(goals[k].atom, BoundBefore(rule, adr, goals, k))
    IN IF goals[k].atom.pred \in idb /\ <<goals[k].atom.pred, beta>> \in adorned /\ AnyBound(beta)
       THEN {[head |-> build_magic_atom(goals[k].atom, beta),
              body |-> Guard(rule, adr) \o SubSeq(goals, 1, k - 1)]}
       ELSE {}

(* The rules in order, the adornments of a rule in any (HashSet) order.  A *)
(* supplementary rule with an empty body is a fact if it is ground, and is *)
(* dropped otherwise.                                                      *)
Emit ==
    /\ phase = "emit"
    /\ \E ra \in todo :
          LET rule  == case.rules[ra[1]]
              adr   == ra[2]
              goals == PositiveGoals(rule.body)
              sup   == UNION {Supplement(rule, adr, goals, k) : k \in Positions(goals)}
          IN /\ \A rb \in todo : ra[1] <= rb[1]
             /\ todo' = todo \ {ra}
             /\ new_rules' = new_rules \union {s \in sup : s.body # <<>>}
                             \union {[head |-> rule.head, body |-> Guard(rule, adr) \o rule.body]}
             /\ new_facts' = new_facts \union
                    {Fact0(s.head) : s \in {t \in sup : t.body = <<>> /\ IsGround(t.head)}}
    /\ UNCHANGED <<case, phase, adorned, worklist>>

SeedQuery ==
    /\ phase = "emit" /\ todo = {}
    /\ phase' = "done"
    /\ LET q == case.goals[1]
       IN new_facts' = new_facts \union {Fact0(build_magic_atom(q, QueryAdornment(q)))}
    /\ UNCHANGED <<case, adorned, worklist, todo, new_rules>>

RewriteNext == Adorn \/ AdornDone \/ Emit \/ SeedQuery

RewriteSpec == RewriteInit /\ [][RewriteNext]_rewriteVars /\ WF_rewriteVars(RewriteNext)

-----------------------------------------------------------------------------
(* Reference: the stratified model of a set of rules, by naive iteration,  *)
(* stratum by stratum.  Unstratified rules have no model.                  *)

PredsOf(rs) == {r.head.pred : r \in rs} \union
               UNION {{r.body[k].atom.pred : k \in Positions(r.body)} : r \in rs}

Lift(rs, s) ==
    [q \in DOMAIN s |->
        LET need == {s[r.body[k].atom.pred] + (IF r.body[k].negated THEN 1 ELSE 0) :
                        <<r, k>> \in {rk \in {t \in rs : t.head.pred = q} \X (1..4) :
                                         rk[2] \in Positions(rk[1].body)}}
        IN CHOOSE m \in need \union {s[q]} : \A n \in need \union {s[q]} : n <= m]

RECURSIVE Strata(_, _, _)
Strata(rs, s, fuel) ==
    IF Lift(rs, s) = s THEN {s} ELSE IF fuel = 0 THEN {} ELSE Strata(rs, Lift(rs, s), fuel - 1)

RECURSIVE Saturate(_, _)
Saturate(rs, D) ==
    LET new == UNION {derive_round(r, D, D) : r \in rs}
    IN IF new \subseteq D THEN D ELSE Saturate(rs, D \union new)

RECURSIVE Strata2Model(_, _, _, _, _)
Strata2Model(rs, s, l, top, D) ==
    IF l > top THEN D
    ELSE Strata2Model(rs, s, l + 1, top, Saturate({r \in rs : s[r.head.pred] = l}, D))

(* {} when the rules are unstratified, otherwise the set of the one model. *)
Model(rs, F) ==
    LET n == Cardinality(PredsOf(rs))
    IN {Strata2Model(rs, s, 0, n, F) : s \in Strata(rs, [q \in PredsOf(rs) |-> 0], n)}

Answer(rs, F) == UNION {query(D, case.goals) : D \in Model(rs, F)}

-----------------------------------------------------------------------------
(* run_query_via_magic_sets answers what run_query answers: the rewriting  *)
(* loses no answer and invents none.                                       *)
AnswerPreserving ==
    phase = "done" => Answer(new_rules, new_facts) = Answer(Rules(case), case.facts)

=============================================================================
