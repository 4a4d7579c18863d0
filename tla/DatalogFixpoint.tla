-------------------------- MODULE DatalogFixpoint --------------------------
(***************************************************************************)
(* The materialisation pipeline of the shell's Datalog engine              *)
(* (paideia-as-shell-datalog, eval.rs): evaluate_stratified and its        *)
(* session variant, seminaive_fixpoint and derive_round, together with the *)
(* session's own facts (session_edb.rs) that overlay the program's.        *)
(*                                                                         *)
(* A rule is represented by its ground instances (DatalogSemantics).       *)
(* unify_atom, extend_with_db and negation_matches decide which instances  *)
(* fire; module DatalogProgram keeps them and implements this module.      *)
(***************************************************************************)
EXTENDS DatalogSemantics

VARIABLES
    session,     \* SessionEdb::facts
    phase,       \* "idle": no evaluation runs; "enter": at the head of the
                 \* loop over strata; "round": inside seminaive_fixpoint
    program,     \* the program under evaluation, or last evaluated
    edb,         \* the tuples the evaluation was seeded with
    db,          \* Database::tables
    delta_prev,  \* the round's pivot tuples
    level,       \* the stratum being evaluated; -1 before the first
    iter_count,  \* rounds finished in this stratum
    tick,        \* the last progress tick of this evaluation
    outcome      \* how the last evaluation ended

vars == <<session, phase, program, edb, db, delta_prev, level, iter_count, tick, outcome>>

NoTick == <<0, 0, 0>>

TypeOK ==
    /\ session \subseteq Fact
    /\ phase \in {"idle", "enter", "round"}
    /\ program \in Program \union {NoProgram}
    /\ edb \subseteq Fact
    /\ db \subseteq Fact
    /\ delta_prev \subseteq Fact
    /\ level \in Int
    /\ iter_count \in Nat
    /\ tick \in Nat \X Nat \X Nat
    /\ outcome \in {"none", "ok", "bound", "unstratified"}

Init ==
    /\ session = {}
    /\ phase = "idle"
    /\ program = NoProgram
    /\ edb = {}
    /\ db = {}
    /\ delta_prev = {}
    /\ level = -1
    /\ iter_count = 0
    /\ tick = NoTick
    /\ outcome = "none"

-----------------------------------------------------------------------------
(* SessionEdb: the evaluator borrows the session for the whole of a query, *)
(* so the session changes only between evaluations.                        *)

Assert(f) ==
    /\ phase = "idle"
    /\ session' = session \union {f}
    /\ UNCHANGED <<phase, program, edb, db, delta_prev, level, iter_count, tick, outcome>>

Retract(f) ==
    /\ phase = "idle"
    /\ session' = session \ {f}
    /\ UNCHANGED <<phase, program, edb, db, delta_prev, level, iter_count, tick, outcome>>

Clear ==
    /\ phase = "idle"
    /\ session' = {}
    /\ UNCHANGED <<phase, program, edb, db, delta_prev, level, iter_count, tick, outcome>>

-----------------------------------------------------------------------------
(* evaluate_stratified: the checks, then the seeding of the database.  A   *)
(* program without rules runs no fixpoint and reports its seed, if any.    *)

Reject(p) ==
    /\ phase = "idle"
    /\ p.verdict # "ok"
    /\ program' = p
    /\ edb' = {}
    /\ db' = {}
    /\ tick' = NoTick
    /\ outcome' = p.verdict
    /\ UNCHANGED <<session, phase, delta_prev, level, iter_count>>

(* Mutant: the session overlay is left out of the database.                *)
Seed_without_session(p) ==
    /\ phase = "idle"
    /\ p.verdict = "ok"
    /\ program' = p
    /\ edb' = p.facts \union session
    /\ db' = p.facts
    /\ level' = -1
    /\ phase' = IF p.levels = {} THEN "idle" ELSE "enter"
    /\ outcome' = IF p.levels = {} THEN "ok" ELSE "none"
    /\ tick' = NoTick
    /\ UNCHANGED <<session, delta_prev, iter_count>>

Seed(p) ==
    /\ phase = "idle"
    /\ p.verdict = "ok"
    /\ program' = p
    /\ edb' = p.facts \union session
    /\ db' = p.facts \union session
    /\ level' = -1
    /\ IF p.levels = {}
       THEN /\ phase' = "idle"
            /\ outcome' = "ok"
            /\ tick' = IF db' = {} THEN NoTick ELSE <<1, 0, Cardinality(db')>>
       ELSE /\ phase' = "enter"
            /\ outcome' = "none"
            /\ tick' = NoTick
    /\ UNCHANGED <<session, delta_prev, iter_count>>

(* The loop over rules_by_stratum, in ascending order.  Every tuple of the *)
(* database is a pivot of a stratum's first round.                         *)

(* Mutant: a stratum is entered again.                                     *)
EnterStratum_again ==
    /\ phase = "enter"
    /\ \E l \in program.levels :
          /\ level <= l
          /\ \A k \in program.levels : level <= k => l <= k
          /\ level' = l
    /\ delta_prev' = db
    /\ iter_count' = 0
    /\ phase' = "round"
    /\ UNCHANGED <<session, program, edb, db, tick, outcome>>

EnterStratum ==
    /\ phase = "enter"
    /\ \E l \in program.levels :
          /\ level < l
          /\ \A k \in program.levels : level < k => l <= k
          /\ level' = l
    /\ delta_prev' = db
    /\ iter_count' = 0
    /\ phase' = "round"
    /\ UNCHANGED <<session, program, edb, db, tick, outcome>>

(* Mutant: the evaluation ends without its outcome.                        *)
Finish_without_outcome ==
    /\ phase = "enter"
    /\ \A k \in program.levels : k <= level
    /\ phase' = "idle"
    /\ UNCHANGED <<session, program, edb, db, delta_prev, level, iter_count, tick, outcome>>

Finish ==
    /\ phase = "enter"
    /\ \A k \in program.levels : k <= level
    /\ phase' = "idle"
    /\ outcome' = "ok"
    /\ UNCHANGED <<session, program, edb, db, delta_prev, level, iter_count, tick>>

(* One round of seminaive_fixpoint.  derive_round fires an instance when   *)
(* one of its positive goals matches delta_prev, the others the database,  *)
(* and no negated goal does; it never fires a rule without positive goals. *)

(* Mutant: negated goals are not tested.                                   *)
Fires_ignoring_negation(i) ==
    /\ i.pos \intersect delta_prev # {}
    /\ i.pos \subseteq db

Fires(i) ==
    /\ i.pos \intersect delta_prev # {}
    /\ i.pos \subseteq db
    /\ i.neg \intersect db = {}

derive_round ==
    {i.head : i \in {j \in program.rules : program.level[j.head] = level /\ Fires(j)}}

(* Mutant: the pivots are not replaced by the round's new tuples.          *)
Round_stale_pivots ==
    /\ phase = "round"
    /\ LET delta_new == derive_round \ db
       IN /\ db' = db \union delta_new
          /\ iter_count' = iter_count + 1
          /\ tick' = <<iter_count + 1, Cardinality(delta_new), Cardinality(db')>>
          /\ phase' = IF delta_new = {} THEN "enter" ELSE "round"
    /\ UNCHANGED <<session, program, edb, delta_prev, level, outcome>>

Round ==
    /\ phase = "round"
    /\ LET delta_new == derive_round \ db
       IN /\ db' = db \union delta_new
          /\ iter_count' = iter_count + 1
          /\ tick' = <<iter_count + 1, Cardinality(delta_new), Cardinality(db')>>
          /\ IF delta_new = {}
             THEN phase' = "enter" /\ UNCHANGED delta_prev
             ELSE delta_prev' = delta_new /\ UNCHANGED phase
    /\ UNCHANGED <<session, program, edb, level, outcome>>

Next ==
    \/ \E f \in SessionFact : Assert(f) \/ Retract(f)
    \/ Clear
    \/ \E p \in Program : Reject(p) \/ Seed(p)
    \/ EnterStratum
    \/ Finish
    \/ Round

Spec == Init /\ [][Next]_vars

(* An evaluation is one call of one thread: once begun, it runs on.        *)
FairSpec == Spec /\ WF_vars(EnterStratum \/ Finish \/ Round)

-----------------------------------------------------------------------------
(* A successful evaluation answers the stratified model of its program     *)
(* over the facts it was seeded with: everything the rules force is        *)
(* derived although each round pivots on the last round's tuples only, and *)
(* nothing else is, although negated goals are tested while the database   *)
(* still grows.                                                            *)
AnswerIsStratifiedModel ==
    phase = "idle" /\ outcome = "ok" => StratifiedModel(program, edb, db)

(* Every derived tuple has, at every later moment of the evaluation, a     *)
(* rule instance that justifies it: no tuple that a negated goal once      *)
(* found absent is derived afterwards.                                     *)
Supported ==
    \A f \in db \ edb :
        \E i \in program.rules : i.head = f /\ BodyHolds(i, db)

(* The seminaive argument: in the middle of a stratum, an instance whose   *)
(* body holds and whose head is still missing has a pivot in delta_prev,   *)
(* so the next round finds it.                                             *)
PivotsSuffice ==
    phase = "round" =>
        \A i \in program.rules :
            program.level[i.head] = level /\ BodyHolds(i, db) /\ i.head \notin db
                => i.pos \intersect delta_prev # {}

(* Once a stratum is left it stays closed under its rules while the higher *)
(* strata are evaluated.                                                   *)
LeftStrataClosed ==
    \A l \in program.levels :
        (l < level \/ (l = level /\ phase # "round")) => ClosedAt(program, l, db)

(* Every evaluation comes to an end.                                       *)
Terminates == phase # "idle" ~> phase = "idle"

-----------------------------------------------------------------------------
(* The inductive invariant behind AnswerIsStratifiedModel: besides the     *)
(* parts above, a running evaluation has a stratified program, keeps its   *)
(* seed, has derived tuples only for strata already entered, and holds at  *)
(* no level a tuple that is not forced.                                    *)

Running == phase # "idle"

RunningProgram ==
    Running => program \in Program /\ program.verdict = "ok" /\ outcome = "none"

SeedKept == Running => edb \subseteq db

DerivedSoFar ==
    Running => \A f \in db \ edb : program.level[f] <= level

NothingUnforced ==
    Running => \A l \in LevelsOf(program) : LeastAt(program, edb, l, db)

EvaluationInv ==
    /\ TypeOK
    /\ RunningProgram
    /\ SeedKept
    /\ DerivedSoFar
    /\ NothingUnforced
    /\ Supported
    /\ PivotsSuffice
    /\ LeftStrataClosed
    /\ AnswerIsStratifiedModel

-----------------------------------------------------------------------------
(* The evaluator implements the session's promise.                         *)
Answers == INSTANCE DatalogAnswers WITH
    running <- phase # "idle",
    answer  <- IF phase = "idle" THEN db ELSE {}

ImplementsAnswers == Answers!Spec
=============================================================================
