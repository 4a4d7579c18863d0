-------------------------- MODULE DatalogAnswers --------------------------
(***************************************************************************)
(* What a Datalog session promises: asserted facts stay until retracted,   *)
(* an evaluation sees the session as it was when it began, and its answer  *)
(* is the stratified model of the program over the program's facts and the *)
(* session's, or a rejection and no tuple at all.                          *)
(***************************************************************************)
EXTENDS DatalogSemantics

VARIABLES session, running, program, edb, answer, outcome

vars == <<session, running, program, edb, answer, outcome>>

Init ==
    /\ session = {}
    /\ running = FALSE
    /\ program = NoProgram
    /\ edb = {}
    /\ answer = {}
    /\ outcome = "none"

ChangeSession ==
    /\ ~running
    /\ \/ session' = {}
       \/ \E f \in SessionFact : session' \in {session \union {f}, session \ {f}}
    /\ UNCHANGED <<running, program, edb, answer, outcome>>

Reject(p) ==
    /\ ~running
    /\ p.verdict # "ok"
    /\ program' = p
    /\ edb' = {}
    /\ answer' = {}
    /\ outcome' = p.verdict
    /\ UNCHANGED <<session, running>>

Start(p) ==
    /\ ~running
    /\ p.verdict = "ok"
    /\ running' = TRUE
    /\ program' = p
    /\ edb' = p.facts \union session
    /\ answer' = {}
    /\ outcome' = "none"
    /\ UNCHANGED session

Answer ==
    /\ running
    /\ running' = FALSE
    /\ answer' \in SUBSET Fact
    /\ StratifiedModel(program, edb, answer')
    /\ outcome' = "ok"
    /\ UNCHANGED <<session, program, edb>>

(* A program without rules is answered by the call that starts it.         *)
StartAndAnswer(p) ==
    /\ ~running
    /\ p.verdict = "ok"
    /\ program' = p
    /\ edb' = p.facts \union session
    /\ answer' \in SUBSET Fact
    /\ StratifiedModel(p, edb', answer')
    /\ outcome' = "ok"
    /\ UNCHANGED <<session, running>>

Next ==
    \/ ChangeSession
    \/ \E p \in Program : Reject(p) \/ Start(p) \/ StartAndAnswer(p)
    \/ Answer

Spec == Init /\ [][Next]_vars
=============================================================================
