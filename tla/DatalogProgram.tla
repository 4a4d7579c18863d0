--------------------------- MODULE DatalogProgram ---------------------------
(***************************************************************************)
(* The evaluator over rules with variables, one rule at a time: the module *)
(* that shows the matching code (DatalogRules) to implement the evaluator  *)
(* over ground instances (DatalogFixpoint), whose correctness is proved.   *)
(*                                                                         *)
(* A program carries the strata compute_strata returns for it.  They are   *)
(* the least that order every goal before its head, which is what module   *)
(* Stratification checks of that function.                                 *)
(***************************************************************************)
EXTENDS DatalogRules

CONSTANTS
    Values,        \* the constants of programs and sessions
    Signature,     \* the predicates, each with its arity
    SessionFact,   \* the tuples a session may assert
    Program        \* [facts, rules, strata, verdict]: a set of atoms, a
                   \* sequence of rules, and the result of the checks

Fact == UNION {[pred : {s[1]}, args : [1..s[2] -> Values]] : s \in Signature}
PredName == {s[1] : s \in Signature}

VARIABLES session, stage, program, edb, db, delta_prev, delta_new,
          remaining, level, iter_count, tick, ended

evaluateVars == <<session, stage, program, edb, db, delta_prev, delta_new,
                  remaining, level, iter_count, tick, ended>>

NoRules == [facts |-> {}, rules |-> <<>>, strata |-> [q \in PredName |-> 0], verdict |-> "ok"]
NoTick == <<0, 0, 0>>

-----------------------------------------------------------------------------
RuleSet(p) == {p.rules[k] : k \in Positions(p.rules)}

(* Atom::as_ground of the facts.                                           *)
Tuples(p) == UNION {ground_atom(f, NoBinding) : f \in p.facts}

HasBound(p) ==
    \/ \E f \in p.facts : reject_bound(f)
    \/ \E r \in RuleSet(p) :
          reject_bound(r.head) \/ \E k \in Positions(r.body) : reject_bound(r.body[k].atom)

(* Strata that order every goal before its head.                           *)
Orders(p, s) ==
    \A r \in RuleSet(p) : \A k \in Positions(r.body) :
        s[r.head.pred] >= s[r.body[k].atom.pred] + (IF r.body[k].negated THEN 1 ELSE 0)

AllStrata(p) == {s \in [PredName -> 0..Cardinality(PredName)] : Orders(p, s)}

Verdict(p) ==
    IF HasBound(p) THEN "bound" ELSE IF AllStrata(p) = {} THEN "unstratified" ELSE "ok"

ASSUME RulesAssumption ==
    /\ SessionFact \subseteq Fact
    /\ \A p \in Program :
          /\ \A f \in p.facts : VarsOf(f) = {}
          /\ Tuples(p) \subseteq Fact
          /\ p.verdict = Verdict(p)
          /\ p.verdict = "ok" =>
                /\ p.strata \in AllStrata(p)
                /\ \A s \in AllStrata(p) : \A q \in PredName : p.strata[q] <= s[q]

RuleLevels(p) == {p.strata[r.head.pred] : r \in RuleSet(p)}
RulesAt(p, l) == SelectSeq(p.rules, LAMBDA r : p.strata[r.head.pred] = l)

-----------------------------------------------------------------------------
EvaluateInit ==
    /\ session = {}
    /\ stage = "idle"
    /\ program = NoRules
    /\ edb = {} /\ db = {} /\ delta_prev = {} /\ delta_new = {}
    /\ remaining = <<>>
    /\ level = -1
    /\ iter_count = 0
    /\ tick = NoTick
    /\ ended = "none"

evaluation == <<stage, program, edb, db, delta_prev, delta_new, remaining, level, iter_count, tick, ended>>

AssertFact(f)  == stage = "idle" /\ session' = session \union {f} /\ UNCHANGED evaluation
RetractFact(f) == stage = "idle" /\ session' = session \ {f} /\ UNCHANGED evaluation
ClearFacts      == stage = "idle" /\ session' = {} /\ UNCHANGED evaluation

Refuse(p) ==
    /\ stage = "idle"
    /\ p.verdict # "ok"
    /\ program' = p
    /\ edb' = {} /\ db' = {}
    /\ tick' = NoTick
    /\ ended' = p.verdict
    /\ UNCHANGED <<session, stage, delta_prev, delta_new, remaining, level, iter_count>>

Seed(p) ==
    /\ stage = "idle"
    /\ p.verdict = "ok"
    /\ program' = p
    /\ edb' = Tuples(p) \union session
    /\ db' = Tuples(p) \union session
    /\ level' = -1
    /\ IF p.rules = <<>>
       THEN /\ stage' = "idle"
            /\ ended' = "ok"
            /\ tick' = IF db' = {} THEN NoTick ELSE <<1, 0, Cardinality(db')>>
       ELSE /\ stage' = "enter"
            /\ ended' = "none"
            /\ tick' = NoTick
    /\ UNCHANGED <<session, delta_prev, delta_new, remaining, iter_count>>

EnterStratum ==
    /\ stage = "enter"
    /\ \E l \in RuleLevels(program) :
          /\ level < l
          /\ \A k \in RuleLevels(program) : level < k => l <= k
          /\ level' = l
          /\ remaining' = RulesAt(program, l)
    /\ delta_prev' = db
    /\ delta_new' = {}
    /\ iter_count' = 0
    /\ stage' = "round"
    /\ UNCHANGED <<session, program, edb, db, tick, ended>>

FinishEvaluation ==
    /\ stage = "enter"
    /\ \A k \in RuleLevels(program) : k <= level
    /\ stage' = "idle"
    /\ ended' = "ok"
    /\ UNCHANGED <<session, program, edb, db, delta_prev, delta_new, remaining, level, iter_count, tick>>

(* Mutant: a rule's tuples enter the database before the next rule runs.   *)
DeriveRule_eagerly ==
    /\ stage = "round" /\ remaining # <<>>
    /\ delta_new' = delta_new \union derive_round(Head(remaining), db, delta_prev)
    /\ db' = db \union delta_new'
    /\ remaining' = Tail(remaining)
    /\ UNCHANGED <<session, stage, program, edb, delta_prev, level, iter_count, tick, ended>>

(* The for loop over the stratum's rules: each adds its derivations to     *)
(* delta_new and leaves the database as the round found it.                *)
DeriveRule ==
    /\ stage = "round" /\ remaining # <<>>
    /\ delta_new' = delta_new \union derive_round(Head(remaining), db, delta_prev)
    /\ remaining' = Tail(remaining)
    /\ UNCHANGED <<session, stage, program, edb, db, delta_prev, level, iter_count, tick, ended>>

(* The rest of the round: filter against the database, merge, tick, and    *)
(* either stop or make the new tuples the next pivots.                     *)
EndRound ==
    /\ stage = "round" /\ remaining = <<>>
    /\ LET fresh == delta_new \ db
       IN /\ db' = db \union fresh
          /\ iter_count' = iter_count + 1
          /\ tick' = <<iter_count + 1, Cardinality(fresh), Cardinality(db')>>
          /\ delta_new' = {}
          /\ IF fresh = {}
             THEN stage' = "enter" /\ UNCHANGED <<delta_prev, remaining>>
             ELSE delta_prev' = fresh /\ remaining' = RulesAt(program, level) /\ UNCHANGED stage
    /\ UNCHANGED <<session, program, edb, level, ended>>

EvaluateNext ==
    \/ \E f \in SessionFact : AssertFact(f) \/ RetractFact(f)
    \/ ClearFacts
    \/ \E p \in Program : Refuse(p) \/ Seed(p)
    \/ EnterStratum \/ FinishEvaluation \/ DeriveRule \/ EndRound

EvaluateSpec == EvaluateInit /\ [][EvaluateNext]_evaluateVars

-----------------------------------------------------------------------------
(* Ground instances.  A binding of the variables of the positive goals     *)
(* gives an instance if it grounds the head; a negated goal is defeated by *)
(* every tuple that unifies with it.                                       *)

BodyVars(r) == UNION {VarsOf(r.body[k].atom) : k \in {j \in Positions(r.body) : ~r.body[j].negated}}

InstancesOf(r) ==
    UNION { { [head |-> h,
               pos  |-> UNION {ground_atom(r.body[k].atom, b) :
                                  k \in {j \in Positions(r.body) : ~r.body[j].negated}},
               neg  |-> {f \in Fact : \E k \in Positions(r.body) :
                            r.body[k].negated /\ negation_matches(r.body[k].atom, {f}, b)}] :
                 h \in ground_atom(r.head, b) } :
              b \in [BodyVars(r) -> Values] }

Ground(p) ==
    [facts   |-> Tuples(p),
     rules   |-> UNION {InstancesOf(r) : r \in RuleSet(p)},
     level   |-> [f \in Fact |-> p.strata[f.pred]],
     levels  |-> RuleLevels(p),
     verdict |-> p.verdict]

Grounded == [p \in Program \union {NoRules} |-> Ground(p)]
GroundPrograms == {Grounded[p] : p \in Program}

Instances == INSTANCE DatalogFixpoint WITH
    Program <- GroundPrograms,
    program <- Grounded[program],
    phase <- stage,
    outcome <- ended

(* Matching rule by rule and pivot by pivot derives in each round exactly  *)
(* the heads of the ground instances that fire, for rules with constants,  *)
(* repeated variables, several goals, unsafe heads and unbound negated     *)
(* variables: the property is Instances!Spec, with the steps that leave    *)
(* the evaluator alone recognised first.                                   *)
ImplementsFixpoint ==
    Instances!Init /\ [][UNCHANGED evaluateVars \/ Instances!Next]_(Instances!vars)
=============================================================================
