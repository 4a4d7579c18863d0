------------------------- MODULE DatalogSemantics -------------------------
(***************************************************************************)
(* What a stratified Datalog program means: the vocabulary shared by the   *)
(* abstract specification of a query session (DatalogAnswers) and by the   *)
(* evaluator that implements it (DatalogFixpoint).                         *)
(*                                                                         *)
(* A rule is represented by its ground instances.  Matching a body against *)
(* a database selects instances; an instance has                           *)
(*   head : the tuple it derives,                                          *)
(*   pos  : the tuples its positive goals match,                           *)
(*   neg  : the tuples any of which makes one of its negated goals fail.   *)
(***************************************************************************)
EXTENDS Integers, FiniteSets

CONSTANTS
    Fact,         \* ground tuples, each with its predicate
    SessionFact,  \* the tuples a session may assert
    Program       \* the programs a session may evaluate

(***************************************************************************)
(* facts, rules : Program::facts, and the instances of Program::rules      *)
(* level        : compute_strata's map, lifted from predicates to tuples   *)
(* levels       : the strata of the rules' head predicates                 *)
(* verdict      : what the checks made before any derivation answer: "ok", *)
(*                "bound" (reject_bound) or "unstratified"                 *)
(***************************************************************************)
Instances == [head : Fact, pos : SUBSET Fact, neg : SUBSET Fact]

ProgramType == [facts : SUBSET Fact, rules : SUBSET Instances,
                level : [Fact -> Nat], levels : SUBSET Nat,
                verdict : {"ok", "bound", "unstratified"}]

Stratified(p) ==
    \A i \in p.rules :
        /\ p.level[i.head] \in p.levels
        /\ \A f \in i.pos : p.level[f] <= p.level[i.head]
        /\ \A f \in i.neg : p.level[f] < p.level[i.head]

ASSUME ProgramAssumption ==
    /\ IsFiniteSet(Fact)
    /\ SessionFact \subseteq Fact
    /\ Program \subseteq ProgramType
    /\ \A p \in Program : p.verdict = "ok" => Stratified(p)

NoProgram == [facts |-> {}, rules |-> {}, level |-> [f \in Fact |-> 0],
              levels |-> {}, verdict |-> "ok"]

-----------------------------------------------------------------------------
(* The stratified model, level by level.  A rule without a positive goal   *)
(* binds nothing and is skipped by the engine (derive_round), so only      *)
(* instances with a positive goal count.                                   *)

BodyHolds(i, M) == i.pos # {} /\ i.pos \subseteq M /\ i.neg \intersect M = {}

ClosedAt(p, l, M) ==
    \A i \in p.rules : p.level[i.head] = l /\ BodyHolds(i, M) => i.head \in M

AgreeBelow(p, l, M, N) ==
    \A f \in Fact : p.level[f] < l => (f \in M <=> f \in N)

(* At level l nothing is in M beyond what E and the rules force, given     *)
(* what M says of the levels below.                                        *)
LeastAt(p, E, l, M) ==
    \A N \in SUBSET Fact :
        E \subseteq N /\ AgreeBelow(p, l, N, M) /\ ClosedAt(p, l, N)
            => \A f \in M : p.level[f] = l => f \in N

LevelsOf(p) == {p.level[f] : f \in Fact}

StratifiedModel(p, E, M) ==
    /\ E \subseteq M
    /\ \A l \in LevelsOf(p) : ClosedAt(p, l, M) /\ LeastAt(p, E, l, M)
=============================================================================
