----------------------------- MODULE MCServices -----------------------------
(***************************************************************************)
(* The two services that answer requests as they come: the Datalog         *)
(* evaluator and the language server.  They share nothing, so a behaviour  *)
(* runs one of them and the other has no work.                             *)
(*                                                                         *)
(* The evaluator: two calls of any entry points, each failing at any of    *)
(* its stages or succeeding after two rounds, and an id taken from outside.*)
(* The language server: two documents and room for the diagnostics of one, *)
(* with a two-byte character, a surrogate pair, a newline and one faulty   *)
(* character.                                                              *)
(***************************************************************************)
EXTENDS DatalogEvaluator, LanguageServer

VARIABLE serving

all == <<vars, serverVars, serving>>

MCRequest ==
    {r \in [entry : Entry, fault : Stage \union {"none"}, rounds : {2}, count : {1}] :
        r.fault = "none" \/ \E k \in DOMAIN Stages[r.entry] : Stages[r.entry][k] = r.fault}

MCChar == {"!", "e", "g", "n"}
MCUtf8 == [c \in MCChar |-> CASE c = "e" -> 2 [] c = "g" -> 4 [] OTHER -> 1]
MCUtf16 == [c \in MCChar |-> IF c = "g" THEN 2 ELSE 1]
MCTexts == {<<"g", "!">>, <<"n", "!">>}
MCInsertions == {<<>>, <<"e">>}

Rejected == CHOOSE r \in Request : r.fault = Stages[r.entry][1]

(* Every call has been rejected before its first round.                    *)
NoCalls ==
    /\ next_query_id = 0 /\ sink = <<>> /\ reserved = {}
    /\ ticks = [j \in Job |-> 0] /\ id = [j \in Job |-> NoId]
    /\ request = [j \in Job |-> Rejected]
    /\ stage = [j \in Job |-> "err"]

MCInit ==
    \/ serving = "queries" /\ ServerInit /\ Init
    \/ serving = "editor" /\ NoCalls /\ ServerInit

MCNext ==
    \/ serving = "queries" /\ Next /\ UNCHANGED <<serverVars, serving>>
    \/ serving = "editor" /\ ServerNext /\ UNCHANGED <<vars, serving>>

(* The server handles what has arrived.                                    *)
MCSpec == MCInit /\ [][MCNext]_all /\ ServerFairness
=============================================================================
