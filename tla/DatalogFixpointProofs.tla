---------------------- MODULE DatalogFixpointProofs ----------------------
(***************************************************************************)
(* The evaluator's answer is the stratified model, for every finite set of *)
(* tuples and every set of programs.                                       *)
(***************************************************************************)
EXTENDS DatalogFixpoint, FiniteSetTheorems, TLAPS

(* Cardinalities of sets of tuples are naturals (total_tuple_count).       *)
LEMMA CountIsNat ==
    ASSUME NEW S \in SUBSET Fact
    PROVE  Cardinality(S) \in Nat
BY ProgramAssumption, FS_Subset, FS_CardinalityType

(* What the checks before the derivation guarantee of a program.           *)
LEMMA AcceptedProgram ==
    ASSUME NEW p \in Program, p.verdict = "ok"
    PROVE  /\ p \in ProgramType
           /\ Stratified(p)
BY ProgramAssumption

(* NoProgram is a well-typed program without rules.                        *)
LEMMA NoProgramType == NoProgram \in ProgramType
BY DEF NoProgram, ProgramType

(* The tuples a round derives are heads of firing instances of the stratum. *)
LEMMA DerivedHeads ==
    ASSUME TypeOK, NEW f \in derive_round
    PROVE  \E i \in program.rules :
              i.head = f /\ program.level[i.head] = level /\ Fires(i)
BY DEF derive_round

(* TypeOK is inductive on its own.                                         *)
LEMMA TypeInit == Init => TypeOK
BY DEF Init, TypeOK, NoTick

(* The program being evaluated is a well-typed one.                         *)
LEMMA ProgramIsTyped ==
    ASSUME TypeOK
    PROVE  program \in ProgramType
BY NoProgramType, ProgramAssumption DEF TypeOK

(* Every step keeps the types.                                              *)
LEMMA TypeStep == TypeOK /\ [Next]_vars => TypeOK'
<1> SUFFICES ASSUME TypeOK, [Next]_vars PROVE TypeOK'
  OBVIOUS
<1> USE DEF TypeOK
<1>1. CASE UNCHANGED vars
  BY <1>1 DEF vars
<1>2. ASSUME NEW f \in SessionFact, Assert(f) PROVE TypeOK'
  BY <1>2, ProgramAssumption DEF Assert
<1>3. ASSUME NEW f \in SessionFact, Retract(f) PROVE TypeOK'
  BY <1>3 DEF Retract
<1>4. CASE Clear
  BY <1>4 DEF Clear
<1>5. ASSUME NEW p \in Program, Reject(p) PROVE TypeOK'
  <2>1. p.verdict \in {"bound", "unstratified"}
    BY <1>5, ProgramAssumption DEF Reject, ProgramType
  <2> QED BY <2>1, <1>5 DEF Reject, NoTick
<1>6. ASSUME NEW p \in Program, Seed(p) PROVE TypeOK'
  <2>1. db' \in SUBSET Fact
    BY <1>6, ProgramAssumption DEF Seed, ProgramType
  <2>2. Cardinality(db') \in Nat
    BY <2>1, CountIsNat
  <2>3. tick' \in Nat \X Nat \X Nat
    BY <2>2, <1>6 DEF Seed, NoTick
  <2> QED BY <2>1, <2>3, <1>6 DEF Seed
<1>7. CASE EnterStratum
  BY <1>7, ProgramIsTyped DEF EnterStratum, ProgramType
<1>8. CASE Finish
  BY <1>8 DEF Finish
<1>9. CASE Round
  <2>1. derive_round \subseteq Fact
    BY ProgramIsTyped DEF derive_round, ProgramType, Instances
  <2>2. /\ db' \in SUBSET Fact
        /\ derive_round \ db \in SUBSET Fact
    BY <2>1, <1>9 DEF Round
  <2>3. Cardinality(db') \in Nat /\ Cardinality(derive_round \ db) \in Nat
    BY <2>2, CountIsNat
  <2>4. tick' = <<iter_count + 1, Cardinality(derive_round \ db), Cardinality(db')>>
    BY <1>9 DEF Round
  <2>5. iter_count + 1 \in Nat
    OBVIOUS
  <2>6. tick' \in Nat \X Nat \X Nat
    BY <2>3, <2>4, <2>5
  <2> QED BY <2>2, <2>6, <1>9 DEF Round
<1> QED BY <1>1, <1>2, <1>3, <1>4, <1>5, <1>6, <1>7, <1>8, <1>9 DEF Next

-----------------------------------------------------------------------------
(* What a round of a stratified program does to the database: it only adds *)
(* tuples, and only tuples of its stratum.                                 *)
LEMMA RoundAdds ==
    ASSUME EvaluationInv, Round
    PROVE  /\ program \in ProgramType
           /\ Stratified(program)
           /\ db \subseteq db'
           /\ db' \subseteq Fact
           /\ program' = program /\ edb' = edb /\ level' = level
           /\ \A f \in db' \ db :
                 /\ program.level[f] = level
                 /\ \E i \in program.rules : i.head = f /\ Fires(i)
           /\ \A i \in program.rules :
                 program.level[i.head] = level /\ Fires(i) => i.head \in db'
<1>1. program \in ProgramType /\ Stratified(program)
  BY AcceptedProgram DEF EvaluationInv, RunningProgram, Running, Round
<1>2. db' = db \union (derive_round \ db)
  BY DEF Round
<1>3. derive_round \subseteq Fact
  BY <1>1 DEF derive_round, ProgramType, Instances
<1> QED BY <1>1, <1>2, <1>3 DEF EvaluationInv, TypeOK, Round, derive_round

(* The database below the running stratum is settled: an instance of a     *)
(* lower or equal level has, after a round, the negated goals it had.      *)
LEMMA NegationSettled ==
    ASSUME EvaluationInv, Round,
           NEW i \in program.rules, program.level[i.head] <= level,
           i.neg \intersect db = {}
    PROVE  i.neg \intersect db' = {}
<1>1. i \in Instances /\ program.level \in [Fact -> Nat] /\ level \in Int
  BY RoundAdds DEF ProgramType, EvaluationInv, TypeOK
<1>2. \A f \in i.neg : program.level[f] < program.level[i.head]
  BY RoundAdds DEF Stratified
<1> QED BY <1>1, <1>2, RoundAdds DEF Instances

(* A round keeps every derived tuple justified.                             *)
LEMMA SupportedStep ==
    ASSUME EvaluationInv, Round
    PROVE  Supported'
<1> SUFFICES ASSUME NEW f \in db' \ edb
             PROVE  \E i \in program.rules : i.head = f /\ BodyHolds(i, db')
  BY RoundAdds DEF Supported
<1>1. CASE f \in db
  <2>1. PICK i \in program.rules : i.head = f /\ BodyHolds(i, db)
    BY <1>1 DEF EvaluationInv, Supported
  <2>2. program.level[i.head] <= level
    BY <1>1, <2>1 DEF EvaluationInv, DerivedSoFar, Running, Round
  <2> QED BY <2>1, <2>2, NegationSettled, RoundAdds DEF BodyHolds
<1>2. CASE f \notin db
  <2>1. PICK i \in program.rules : i.head = f /\ Fires(i)
    BY <1>2, RoundAdds
  <2>2. program.level[i.head] <= level
    BY <1>2, <2>1, RoundAdds DEF EvaluationInv, TypeOK
  <2> QED BY <2>1, <2>2, NegationSettled, RoundAdds DEF BodyHolds, Fires
<1> QED BY <1>1, <1>2

(* A round keeps the last delta sufficient as a pivot.                      *)
LEMMA PivotsStep ==
    ASSUME EvaluationInv, Round
    PROVE  PivotsSuffice'
<1> SUFFICES ASSUME phase' = "round", NEW i \in program.rules,
                    program.level[i.head] = level, BodyHolds(i, db'), i.head \notin db'
             PROVE  i.pos \intersect delta_prev' # {}
  BY RoundAdds DEF PivotsSuffice
<1>1. delta_prev' = db' \ db
  BY DEF Round
<1>2. CASE i.pos \subseteq db
  <2>1. BodyHolds(i, db) /\ i.head \notin db
    BY <1>2, RoundAdds DEF BodyHolds
  <2>2. i.pos \intersect delta_prev # {}
    BY <2>1 DEF EvaluationInv, PivotsSuffice, Round
  <2>3. Fires(i)
    BY <2>1, <2>2 DEF Fires, BodyHolds
  <2> QED BY <2>3, RoundAdds
<1>3. CASE ~(i.pos \subseteq db)
  BY <1>1, <1>3 DEF BodyHolds
<1> QED BY <1>2, <1>3

(* A round keeps the strata already left closed.                            *)
LEMMA ClosedStep ==
    ASSUME EvaluationInv, Round
    PROVE  LeftStrataClosed'
<1> SUFFICES ASSUME NEW l \in program.levels,
                    l < level \/ (l = level /\ phase' # "round"),
                    NEW i \in program.rules,
                    program.level[i.head] = l, BodyHolds(i, db')
             PROVE  i.head \in db'
  BY RoundAdds DEF LeftStrataClosed, ClosedAt
<1>0. i \in Instances /\ program.level \in [Fact -> Nat] /\ level \in Int
  BY RoundAdds DEF ProgramType, EvaluationInv, TypeOK
<1>1. CASE l < level
  <2>1. \A f \in i.pos : program.level[f] < level
    BY <1>0, <1>1, RoundAdds DEF Stratified, Instances
  <2>2. i.pos \subseteq db
    BY <1>0, <2>1, RoundAdds DEF BodyHolds, Instances
  <2>3. BodyHolds(i, db)
    BY <2>2, RoundAdds DEF BodyHolds
  <2> QED BY <1>1, <2>3, RoundAdds DEF EvaluationInv, LeftStrataClosed, ClosedAt
<1>2. CASE l = level /\ phase' # "round"
  <2>1. db' = db
    BY <1>2 DEF Round
  <2>2. CASE i.head \notin db
    <3>1. i.pos \intersect delta_prev # {}
      BY <1>2, <2>1, <2>2 DEF EvaluationInv, PivotsSuffice, Round
    <3> QED BY <1>2, <2>1, <3>1, RoundAdds DEF Fires, BodyHolds
  <2> QED BY <2>1, <2>2
<1> QED BY <1>1, <1>2

(* A round derives nothing outside the least model.                         *)
LEMMA LeastStep ==
    ASSUME EvaluationInv, Round
    PROVE  NothingUnforced'
<1>0. program.level \in [Fact -> Nat] /\ level \in Int /\ edb \subseteq Fact
  BY RoundAdds DEF ProgramType, EvaluationInv, TypeOK
<1> SUFFICES ASSUME NEW l \in LevelsOf(program), NEW N \in SUBSET Fact,
                    edb \subseteq N, AgreeBelow(program, l, N, db'), ClosedAt(program, l, N),
                    NEW f \in db', program.level[f] = l
             PROVE  f \in N
  BY RoundAdds DEF NothingUnforced, LeastAt, LevelsOf
<1>1. CASE l > level
  BY <1>0, <1>1, RoundAdds DEF EvaluationInv, DerivedSoFar, Running, Round
<1>2. CASE l <= level
  <2>1. AgreeBelow(program, l, N, db)
    BY <1>0, <1>2, RoundAdds DEF AgreeBelow
  <2>2. \A g \in db : program.level[g] = l => g \in N
    BY <2>1 DEF EvaluationInv, NothingUnforced, LeastAt, Running, Round
  <2>3. CASE f \notin db
    <3>1. PICK i \in program.rules : i.head = f /\ Fires(i)
      BY <2>3, RoundAdds
    <3>2. i \in Instances
      BY RoundAdds DEF ProgramType
    <3>3. i.pos \subseteq N
      <4> SUFFICES ASSUME NEW g \in i.pos PROVE g \in N
        OBVIOUS
      <4>1. g \in Fact /\ g \in db /\ program.level[g] <= l
        BY <3>1, <3>2, RoundAdds DEF Fires, Stratified, Instances
      <4>2. program.level[g] < l \/ program.level[g] = l
        BY <1>0, <4>1 DEF LevelsOf
      <4> QED BY <2>1, <2>2, <4>1, <4>2 DEF AgreeBelow
    <3>4. i.neg \intersect N = {}
      <4> SUFFICES ASSUME NEW g \in i.neg PROVE g \notin N
        OBVIOUS
      <4>1. g \in Fact /\ g \notin db /\ program.level[g] < l
        BY <3>1, <3>2, RoundAdds DEF Fires, Stratified, Instances
      <4> QED BY <2>1, <4>1 DEF AgreeBelow
    <3> QED BY <3>1, <3>3, <3>4 DEF ClosedAt, BodyHolds, Fires
  <2> QED BY <2>2, <2>3
<1> QED BY <1>0, <1>1, <1>2 DEF LevelsOf

-----------------------------------------------------------------------------
(* A stratified program whose every rule stratum has been closed is        *)
(* answered: levels without rules are closed for want of instances.        *)
LEMMA ClosedEverywhere ==
    ASSUME NEW p \in ProgramType, Stratified(p), NEW M \in SUBSET Fact,
           \A l \in p.levels : ClosedAt(p, l, M)
    PROVE  \A l \in LevelsOf(p) : ClosedAt(p, l, M)
BY DEF Stratified, ClosedAt

(* The seed alone is least at every level.                                 *)
LEMMA SeedIsLeast ==
    ASSUME NEW p, NEW E
    PROVE  \A l \in LevelsOf(p) : LeastAt(p, E, l, E)
BY DEF LeastAt

(* A fresh evaluator satisfies the inductive invariant.                     *)
LEMMA EvaluationInit == Init => EvaluationInv
BY TypeInit
   DEF Init, EvaluationInv, RunningProgram, SeedKept, DerivedSoFar, NothingUnforced,
       Supported, PivotsSuffice, LeftStrataClosed, AnswerIsStratifiedModel, Running, NoProgram

(* A step that leaves the evaluation's variables alone keeps the invariant. *)
LEMMA EvaluationFrame ==
    ASSUME EvaluationInv, TypeOK',
           UNCHANGED <<phase, program, edb, db, delta_prev, level, outcome>>
    PROVE  EvaluationInv'
BY DEF EvaluationInv, RunningProgram, SeedKept, DerivedSoFar, NothingUnforced,
       Supported, PivotsSuffice, LeftStrataClosed, AnswerIsStratifiedModel, Running

(* A rejected program keeps it.                                             *)
LEMMA RejectStep ==
    ASSUME EvaluationInv, TypeOK', NEW p \in Program, Reject(p)
    PROVE  EvaluationInv'
<1>1. phase' = "idle" /\ outcome' # "ok" /\ db' = {} /\ edb' = {}
  BY DEF Reject
<1>2. LeftStrataClosed'
  BY <1>1 DEF LeftStrataClosed, ClosedAt, BodyHolds
<1> QED BY <1>1, <1>2
        DEF EvaluationInv, RunningProgram, SeedKept, DerivedSoFar, NothingUnforced,
            Supported, PivotsSuffice, AnswerIsStratifiedModel, Running

(* Seeding the database establishes it for the new program.                 *)
LEMMA SeedStep ==
    ASSUME EvaluationInv, TypeOK', NEW p \in Program, Seed(p)
    PROVE  EvaluationInv'
<1>1. p \in ProgramType /\ Stratified(p)
  BY AcceptedProgram DEF Seed
<1>2. program' = p /\ edb' = db' /\ level' = -1 /\ phase' # "round" /\ db' \subseteq Fact
  BY DEF Seed, TypeOK
<1>3. LeftStrataClosed'
  BY <1>1, <1>2 DEF LeftStrataClosed, ProgramType
<1>4. \A l \in LevelsOf(p) : LeastAt(p, edb', l, db')
  BY <1>2, SeedIsLeast
<1>5. AnswerIsStratifiedModel'
  <2>1. SUFFICES ASSUME phase' = "idle" PROVE StratifiedModel(p, edb', db')
    BY <1>2 DEF AnswerIsStratifiedModel
  <2>2. p.levels = {}
    BY <2>1 DEF Seed
  <2> QED BY <1>1, <1>2, <1>4, <2>2, ClosedEverywhere DEF StratifiedModel
<1>6. RunningProgram'
  BY <1>2 DEF RunningProgram, Running, Seed
<1> QED BY <1>2, <1>3, <1>4, <1>5, <1>6
        DEF EvaluationInv, SeedKept, DerivedSoFar, NothingUnforced, Supported, PivotsSuffice

(* Entering a stratum keeps it: the pivots start from the whole database.   *)
LEMMA EnterStep ==
    ASSUME EvaluationInv, TypeOK', EnterStratum
    PROVE  EvaluationInv'
<1>1. PICK l \in program.levels :
         level < l /\ (\A k \in program.levels : level < k => l <= k) /\ level' = l
  BY DEF EnterStratum
<1>2. program \in ProgramType /\ level \in Int /\ program.levels \subseteq Nat
  BY ProgramIsTyped DEF EvaluationInv, TypeOK, ProgramType
<1>3. LeftStrataClosed'
  <2> SUFFICES ASSUME NEW k \in program.levels, k < l
               PROVE  ClosedAt(program, k, db)
    BY <1>1 DEF LeftStrataClosed, EnterStratum
  <2>1. k < level \/ k = level
    BY <1>1, <1>2
  <2> QED BY <2>1 DEF EvaluationInv, LeftStrataClosed, EnterStratum
<1>4. PivotsSuffice'
  BY DEF PivotsSuffice, EnterStratum, BodyHolds
<1>5. DerivedSoFar'
  <2> SUFFICES ASSUME NEW f \in db \ edb PROVE program.level[f] <= l
    BY <1>1 DEF DerivedSoFar, EnterStratum
  <2>1. program.level[f] <= level
    BY DEF EvaluationInv, DerivedSoFar, Running, EnterStratum
  <2>2. program.level[f] \in Nat
    BY <1>2 DEF EvaluationInv, TypeOK, ProgramType
  <2> QED BY <1>1, <1>2, <2>1, <2>2
<1> QED BY <1>3, <1>4, <1>5
        DEF EvaluationInv, RunningProgram, SeedKept, NothingUnforced, Supported,
            AnswerIsStratifiedModel, Running, EnterStratum

(* Finishing keeps it: with every stratum closed the database is the model. *)
LEMMA FinishStep ==
    ASSUME EvaluationInv, TypeOK', Finish
    PROVE  EvaluationInv'
<1>1. program \in ProgramType /\ Stratified(program)
  BY AcceptedProgram DEF EvaluationInv, RunningProgram, Running, Finish
<1>2. \A l \in program.levels : ClosedAt(program, l, db)
  <2> SUFFICES ASSUME NEW l \in program.levels PROVE ClosedAt(program, l, db)
    OBVIOUS
  <2>1. l < level \/ l = level
    BY <1>1 DEF Finish, ProgramType, EvaluationInv, TypeOK
  <2> QED BY <2>1 DEF EvaluationInv, LeftStrataClosed, Finish
<1>3. StratifiedModel(program, edb, db)
  BY <1>1, <1>2, ClosedEverywhere
     DEF EvaluationInv, TypeOK, SeedKept, NothingUnforced, Running, Finish, StratifiedModel
<1>4. LeftStrataClosed'
  BY DEF EvaluationInv, LeftStrataClosed, Finish
<1>5. Supported'
  BY DEF EvaluationInv, Supported, Finish
<1>6. AnswerIsStratifiedModel'
  BY <1>3 DEF AnswerIsStratifiedModel, Finish
<1> QED BY <1>4, <1>5, <1>6
        DEF EvaluationInv, RunningProgram, SeedKept, DerivedSoFar, NothingUnforced,
            PivotsSuffice, Running, Finish

(* A round keeps it.                                                        *)
LEMMA RoundStep ==
    ASSUME EvaluationInv, TypeOK', Round
    PROVE  EvaluationInv'
<1>1. phase' # "idle" /\ phase # "idle" /\ outcome' = outcome
  BY DEF Round
<1>2. RunningProgram' /\ SeedKept' /\ AnswerIsStratifiedModel'
  BY <1>1, RoundAdds
     DEF EvaluationInv, RunningProgram, SeedKept, AnswerIsStratifiedModel, Running
<1>3. DerivedSoFar'
  <2> SUFFICES ASSUME NEW f \in db' \ edb PROVE program.level[f] <= level
    BY RoundAdds DEF DerivedSoFar
  <2>1. CASE f \in db
    BY <1>1, <2>1 DEF EvaluationInv, DerivedSoFar, Running
  <2>2. CASE f \notin db
    BY <2>2, RoundAdds DEF EvaluationInv, TypeOK
  <2> QED BY <2>1, <2>2
<1> QED BY <1>2, <1>3, SupportedStep, PivotsStep, ClosedStep, LeastStep DEF EvaluationInv

(* Every step keeps the inductive invariant.                                *)
LEMMA EvaluationStep == EvaluationInv /\ [Next]_vars => EvaluationInv'
<1> SUFFICES ASSUME EvaluationInv, [Next]_vars PROVE EvaluationInv'
  OBVIOUS
<1>0. TypeOK'
  BY TypeStep DEF EvaluationInv
<1>1. CASE UNCHANGED vars
  BY <1>0, <1>1, EvaluationFrame DEF vars
<1>2. ASSUME NEW f \in SessionFact, Assert(f) \/ Retract(f) PROVE EvaluationInv'
  BY <1>0, <1>2, EvaluationFrame DEF Assert, Retract
<1>3. CASE Clear
  BY <1>0, <1>3, EvaluationFrame DEF Clear
<1>4. ASSUME NEW p \in Program, Reject(p) \/ Seed(p) PROVE EvaluationInv'
  BY <1>0, <1>4, RejectStep, SeedStep
<1>5. CASE EnterStratum
  BY <1>0, <1>5, EnterStep
<1>6. CASE Finish
  BY <1>0, <1>6, FinishStep
<1>7. CASE Round
  BY <1>0, <1>7, RoundStep
<1> QED BY <1>1, <1>2, <1>3, <1>4, <1>5, <1>6, <1>7 DEF Next

(* The evaluator's state keeps its types: db, deltas and ticks.            *)
THEOREM TypeCorrect == Spec => []TypeOK
BY TypeInit, TypeStep, PTL DEF Spec

(* The inductive invariant of the stratum-by-stratum seminaive evaluation. *)
THEOREM EvaluationInvariant == Spec => []EvaluationInv
BY EvaluationInit, EvaluationStep, PTL DEF Spec

(* evaluate_stratified answers the stratified model of its program.        *)
THEOREM AnswerCorrect == Spec => []AnswerIsStratifiedModel
<1>1. EvaluationInv => AnswerIsStratifiedModel
  BY DEF EvaluationInv
<1> QED BY <1>1, EvaluationInvariant, PTL

(* Every derived tuple keeps a justification (negation is stratified).     *)
THEOREM DerivedTuplesSupported == Spec => []Supported
<1>1. EvaluationInv => Supported
  BY DEF EvaluationInv
<1> QED BY <1>1, EvaluationInvariant, PTL

(* Pivoting on the last round's tuples loses no derivation: whatever the   *)
(* rules still force in a stratum has a positive goal among them.          *)
THEOREM NoDerivationMissed == Spec => []PivotsSuffice
<1>1. EvaluationInv => PivotsSuffice
  BY DEF EvaluationInv
<1> QED BY <1>1, EvaluationInvariant, PTL

-----------------------------------------------------------------------------
(* Every step of the evaluator is a step of the abstract session, or a     *)
(* stutter: a stratum entered or a round done changes nothing a caller     *)
(* sees before the answer.                                                 *)
LEMMA AnswersInit == Init => Answers!Init
BY DEF Init, Answers!Init, NoProgram, Answers!NoProgram

(* Every step is a step of DatalogAnswers or leaves its view unchanged.     *)
LEMMA AnswersStep ==
    EvaluationInv /\ EvaluationInv' /\ [Next]_vars => [Answers!Next]_(Answers!vars)
<1> SUFFICES ASSUME EvaluationInv, EvaluationInv', [Next]_vars
             PROVE  [Answers!Next]_(Answers!vars)
  OBVIOUS
<1>1. CASE UNCHANGED vars
  BY <1>1 DEF vars, Answers!vars
<1>2. ASSUME NEW f \in SessionFact, Assert(f) \/ Retract(f) PROVE Answers!ChangeSession
  BY <1>2 DEF Assert, Retract, Answers!ChangeSession
<1>3. CASE Clear
  BY <1>3 DEF Clear, Answers!ChangeSession, Answers!Next
<1>4. ASSUME NEW p \in Program, Reject(p) PROVE Answers!Reject(p)
  BY <1>4 DEF Reject, Answers!Reject
<1>5. ASSUME NEW p \in Program, Seed(p)
      PROVE  Answers!Start(p) \/ Answers!StartAndAnswer(p)
  <2>1. CASE p.levels = {}
    <3>1. phase' = "idle" /\ outcome' = "ok" /\ program' = p /\ db' \in SUBSET Fact
      BY <1>5, <2>1 DEF Seed, EvaluationInv, TypeOK
    <3>2. StratifiedModel(p, edb', db')
      BY <3>1 DEF EvaluationInv, AnswerIsStratifiedModel
    <3>3. Answers!StratifiedModel(p, edb', IF phase' = "idle" THEN db' ELSE {})
      BY <3>1, <3>2
         DEF StratifiedModel, Answers!StratifiedModel, LevelsOf, Answers!LevelsOf,
             ClosedAt, Answers!ClosedAt, LeastAt, Answers!LeastAt,
             AgreeBelow, Answers!AgreeBelow, BodyHolds, Answers!BodyHolds
    <3> QED BY <1>5, <3>1, <3>3 DEF Seed, Answers!StartAndAnswer
  <2>2. CASE p.levels # {}
    BY <1>5, <2>2 DEF Seed, Answers!Start
  <2> QED BY <2>1, <2>2
<1>6. CASE EnterStratum
  BY <1>6 DEF EnterStratum, Answers!vars
<1>7. CASE Finish
  <2>1. phase' = "idle" /\ outcome' = "ok" /\ db' \in SUBSET Fact
    BY <1>7 DEF Finish, EvaluationInv, TypeOK
  <2>2. StratifiedModel(program', edb', db')
    BY <2>1 DEF EvaluationInv, AnswerIsStratifiedModel
  <2>3. Answers!StratifiedModel(program, edb, IF phase' = "idle" THEN db' ELSE {})
    BY <1>7, <2>1, <2>2
       DEF Finish, StratifiedModel, Answers!StratifiedModel, LevelsOf, Answers!LevelsOf,
           ClosedAt, Answers!ClosedAt, LeastAt, Answers!LeastAt,
           AgreeBelow, Answers!AgreeBelow, BodyHolds, Answers!BodyHolds
  <2> QED BY <1>7, <2>1, <2>3 DEF Finish, Answers!Answer, Answers!Next
<1>8. CASE Round
  BY <1>8 DEF Round, Answers!vars
<1> QED BY <1>1, <1>2, <1>3, <1>4, <1>5, <1>6, <1>7, <1>8 DEF Next, Answers!Next

(* The evaluator implements the session's promise: the answer is taken     *)
(* from the session as it stood when the evaluation began.                 *)
THEOREM EvaluatorImplementsAnswers == Spec => ImplementsAnswers
<1>1. Spec => Answers!Init /\ [][Answers!Next]_(Answers!vars)
  BY AnswersInit, AnswersStep, EvaluationInvariant, PTL DEF Spec
<1> QED BY <1>1 DEF ImplementsAnswers, Answers!Spec
=============================================================================
