---------------------------- MODULE MCShellPasses ----------------------------
(***************************************************************************)
(* What the shell computes for a program and a script: the strata of a     *)
(* program, its evaluation rule by rule, its rewriting for a query, and    *)
(* the module graph of a script.  The four share nothing, so a behaviour   *)
(* runs one of them and the others wait in an initial state without work.  *)
(*                                                                         *)
(* Scripts: a root and two modules in the project, a second copy of one of *)
(* them in the system path, with up to two imports of any of the three     *)
(* names in the root and the first module, one in the others, and with the *)
(* absent and broken files a search meets.                                 *)
(***************************************************************************)
EXTENDS MCStratification, MCDatalogProgram, ScriptImports

VARIABLE working

all == <<vars, evaluateVars, rewriteVars, importVars, working>>

MCPath == Dir \X Name
MCPathJoin == [dn \in Dir \X Name |-> dn]
MCSearchList == <<"proj", "sys">>
MCroot == <<"proj", "main">>

Absent == [exists |-> FALSE, parses |-> FALSE, imports |-> <<>>]
Broken == [exists |-> TRUE, parses |-> FALSE, imports |-> <<>>]
Scripts(n) ==
    {[exists |-> TRUE, parses |-> TRUE, imports |-> h] :
        h \in BoundedSeq({[path |-> m, alias |-> m] : m \in Name}, n)}

NoFiles == [p \in MCPath |-> Absent]

MCFileSystems ==
    {[NoFiles EXCEPT ![MCroot] = main, ![<<"proj", "a">>] = a1,
                     ![<<"proj", "b">>] = b1, ![<<"sys", "b">>] = b2] :
        main \in Scripts(2) \union {Broken}, a1 \in Scripts(2) \union {Absent, Broken},
        b1 \in Scripts(1) \union {Absent}, b2 \in Scripts(1) \union {Absent}}
    \union {NoFiles}

NoStrata == edges = {} /\ Init
NoRewriting == case = NoProgram /\ RewriteInit
NoImports == files = NoFiles /\ ImportInit

MCInit ==
    /\ EvaluateInit
    /\ \/ working = "strata" /\ NoRewriting /\ NoImports /\ Init
       \/ working = "evaluation" /\ NoStrata /\ NoRewriting /\ NoImports
       \/ working = "rewriting" /\ NoStrata /\ NoImports /\ RewriteInit
       \/ working = "imports" /\ NoStrata /\ NoRewriting /\ ImportInit

MCNext ==
    /\ UNCHANGED working
    /\ \/ working = "strata" /\ Next /\ UNCHANGED <<evaluateVars, rewriteVars, importVars>>
       \/ working = "evaluation" /\ EvaluateNext /\ UNCHANGED <<vars, rewriteVars, importVars>>
       \/ working = "rewriting" /\ RewriteNext /\ UNCHANGED <<vars, evaluateVars, importVars>>
       \/ working = "imports" /\ ImportNext /\ UNCHANGED <<vars, evaluateVars, rewriteVars>>

(* Each of the four is one sequential call after another.                  *)
MCSpec == MCInit /\ [][MCNext]_all /\ WF_all(MCNext)

(* compute_strata, evaluate_stratified, rewrite and build_from_root return, *)
(* whatever the graph, the program or the files.                           *)
Terminates ==
    []<>(CASE working = "strata" -> pc = "done"
           [] working = "evaluation" -> stage = "idle"
           [] working = "rewriting" -> phase = "done"
           [] working = "imports" -> ~Running)
=============================================================================
