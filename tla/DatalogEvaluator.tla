-------------------------- MODULE DatalogEvaluator --------------------------
(***************************************************************************)
(* The Evaluator facade of the Datalog engine (eval.rs, fingerprint.rs,    *)
(* progress.rs): one Evaluator behind an Arc answers calls of several      *)
(* threads at once.  The calls share its query counter and its two sinks.  *)
(*                                                                         *)
(* What a call computes is the subject of DatalogProgram and MagicSets;    *)
(* here a call is an entry point, the stage at which it fails if it does,  *)
(* the number of rounds its fixpoint takes and the size of its result.     *)
(***************************************************************************)
EXTENDS Integers, Sequences, FiniteSets

CONSTANTS
    Job,          \* the calls made on the evaluator, each by some thread
    Request,      \* what a call may ask: [entry, fault, rounds, count]
    MaxReserved   \* bound on the next_query_id calls made from outside

ASSUME ReservedAssumption == MaxReserved \in Nat

VARIABLES
    next_query_id,  \* Evaluator::next_query_id
    sink,           \* the tags a CollectingSink holds, <<id, result count>>
    ticks,          \* ticks[j]: the progress ticks call j has sent
    request,        \* request[j]: what call j asked
    stage,          \* stage[j]: where call j is
    id,             \* id[j]: the id call j has minted, or NoId
    reserved        \* the ids handed to outside callers

vars == <<next_query_id, sink, ticks, request, stage, id, reserved>>

NoId == -1

(* The fallible stages of each entry point, in order.  The session and the *)
(* graph variants only seed the evaluation differently.                    *)
run_query == <<"evaluate", "query">>
run_query_typed == <<"type_check", "evaluate", "query">>
run_stratified == <<"evaluate">>
run_query_via_magic_sets == run_query
run_aggregate_query == <<"reject_bound", "evaluate", "aggregate">>
run_query_with_session == <<"evaluate", "query">>
run_stratified_with_session == <<"evaluate">>
run_aggregate_query_with_session == <<"reject_bound", "evaluate", "aggregate">>
run_query_with_graph == run_query_with_session

Stages ==
    [run_query |-> run_query,
     run_query_typed |-> run_query_typed,
     run_stratified |-> run_stratified,
     run_query_via_magic_sets |-> run_query_via_magic_sets,
     run_aggregate_query |-> run_aggregate_query,
     run_query_with_session |-> run_query_with_session,
     run_stratified_with_session |-> run_stratified_with_session,
     run_aggregate_query_with_session |-> run_aggregate_query_with_session,
     run_query_with_graph |-> run_query_with_graph]

Entry == DOMAIN Stages
Stage == {"evaluate", "query", "type_check", "reject_bound", "aggregate"}

RequestType == [entry : Entry, fault : Stage \union {"none"}, rounds : Nat, count : Nat]

ASSUME RequestAssumption == Request \subseteq RequestType

(* The stage after s of an entry point: the next fallible one, or the      *)
(* minting of the id once all of them have succeeded.                      *)
After(e, s) ==
    LET k == CHOOSE k \in 1..Len(Stages[e]) : Stages[e][k] = s
    IN IF k = Len(Stages[e]) THEN "mint" ELSE Stages[e][k + 1]

TypeOK ==
    /\ next_query_id \in Nat
    /\ sink \in Seq(Nat \X Nat)
    /\ ticks \in [Job -> Nat]
    /\ request \in [Job -> Request]
    /\ stage \in [Job -> Stage \union {"new", "mint", "emit", "ok", "err"}]
    /\ id \in [Job -> Nat \union {NoId}]
    /\ reserved \subseteq Nat

Init ==
    /\ next_query_id = 0
    /\ sink = <<>>
    /\ ticks = [j \in Job |-> 0]
    /\ request \in [Job -> Request]
    /\ stage = [j \in Job |-> "new"]
    /\ id = [j \in Job |-> NoId]
    /\ reserved = {}

-----------------------------------------------------------------------------
Call(j) ==
    /\ stage[j] = "new"
    /\ stage' = [stage EXCEPT ![j] = Stages[request[j].entry][1]]
    /\ UNCHANGED <<next_query_id, sink, ticks, request, id, reserved>>

(* One round of the fixpoint reports to the shared progress sink.  A       *)
(* rejected program is rejected before its first round.                    *)
Tick(j) ==
    /\ stage[j] = "evaluate"
    /\ request[j].fault # "evaluate"
    /\ ticks[j] < request[j].rounds
    /\ ticks' = [ticks EXCEPT ![j] = @ + 1]
    /\ UNCHANGED <<next_query_id, sink, request, stage, id, reserved>>

Succeed(j) ==
    /\ stage[j] \in Stage
    /\ request[j].fault # stage[j]
    /\ stage[j] = "evaluate" => ticks[j] = request[j].rounds
    /\ stage' = [stage EXCEPT ![j] = After(request[j].entry, stage[j])]
    /\ UNCHANGED <<next_query_id, sink, ticks, request, id, reserved>>

(* Mutant: a failing call takes an id too.                                 *)
Fail_burning_an_id(j) ==
    /\ stage[j] \in Stage
    /\ request[j].fault = stage[j]
    /\ stage' = [stage EXCEPT ![j] = "err"]
    /\ next_query_id' = next_query_id + 1
    /\ UNCHANGED <<sink, ticks, request, id, reserved>>

Fail(j) ==
    /\ stage[j] \in Stage
    /\ request[j].fault = stage[j]
    /\ stage' = [stage EXCEPT ![j] = "err"]
    /\ UNCHANGED <<next_query_id, sink, ticks, request, id, reserved>>

(* Mutant: the id is the number of tags sent so far.                       *)
Mint_from_sink(j) ==
    /\ stage[j] = "mint"
    /\ id' = [id EXCEPT ![j] = Len(sink)]
    /\ next_query_id' = next_query_id + 1
    /\ stage' = [stage EXCEPT ![j] = "emit"]
    /\ UNCHANGED <<sink, ticks, request, reserved>>

Mint(j) ==
    /\ stage[j] = "mint"
    /\ id' = [id EXCEPT ![j] = next_query_id]
    /\ next_query_id' = next_query_id + 1
    /\ stage' = [stage EXCEPT ![j] = "emit"]
    /\ UNCHANGED <<sink, ticks, request, reserved>>

(* Mutant: the id is read again from the counter when the tag is sent.     *)
Emit_rereading(j) ==
    /\ stage[j] = "emit"
    /\ sink' = Append(sink, <<next_query_id - 1, request[j].count>>)
    /\ stage' = [stage EXCEPT ![j] = "ok"]
    /\ UNCHANGED <<next_query_id, ticks, request, id, reserved>>

Emit(j) ==
    /\ stage[j] = "emit"
    /\ sink' = Append(sink, <<id[j], request[j].count>>)
    /\ stage' = [stage EXCEPT ![j] = "ok"]
    /\ UNCHANGED <<next_query_id, ticks, request, id, reserved>>

(* next_query_id is public: an outside caller takes an id.                 *)
Reserve ==
    /\ Cardinality(reserved) < MaxReserved
    /\ reserved' = reserved \union {next_query_id}
    /\ next_query_id' = next_query_id + 1
    /\ UNCHANGED <<sink, ticks, request, stage, id>>

Ended(j) == stage[j] \in {"ok", "err"}

Finished ==
    /\ \A j \in Job : Ended(j)
    /\ UNCHANGED vars

Step(j) == Call(j) \/ Tick(j) \/ Succeed(j) \/ Fail(j) \/ Mint(j) \/ Emit(j)

Next == (\E j \in Job : Step(j)) \/ Reserve \/ Finished

Spec == Init /\ [][Next]_vars

-----------------------------------------------------------------------------
Minted == {j \in Job : id[j] # NoId}

(* No two tags carry the same id, whatever the interleaving of the calls   *)
(* and of the outside callers of next_query_id.                            *)
TagsUnique == \A a, b \in DOMAIN sink : sink[a][1] = sink[b][1] => a = b

(* A tag is proof of completion: a call that returned Ok left exactly its  *)
(* own id and result count in the sink, and every tag comes from a call    *)
(* that returned Ok.                                                       *)
TagsProveCompletion ==
    /\ \A j \in Job : stage[j] = "ok" =>
          \E a \in DOMAIN sink : sink[a] = <<id[j], request[j].count>>
    /\ \A a \in DOMAIN sink : \E j \in Job :
          stage[j] = "ok" /\ sink[a] = <<id[j], request[j].count>>

(* Failed calls burn no id: when all calls have returned, the ids of the   *)
(* tags and the reserved ids are all the ids below the counter, without a  *)
(* gap.                                                                    *)
NoIdBurnt ==
    (\A j \in Job : Ended(j)) =>
        {sink[a][1] : a \in DOMAIN sink} \union reserved = 0..(next_query_id - 1)

-----------------------------------------------------------------------------
(* The inductive invariant behind TagsUnique and TagsProveCompletion.      *)
IdsDistinct ==
    /\ \A j \in Minted : id[j] < next_query_id /\ id[j] \notin reserved
    /\ \A j, k \in Minted : id[j] = id[k] => j = k
    /\ \A n \in reserved : n < next_query_id

MintedExactly == \A j \in Job : id[j] # NoId <=> stage[j] \in {"emit", "ok"}

OnItsPath ==
    \A j \in Job : stage[j] \in Stage =>
        \E k \in 1..Len(Stages[request[j].entry]) : Stages[request[j].entry][k] = stage[j]

EvaluatorInv ==
    /\ TypeOK
    /\ OnItsPath
    /\ IdsDistinct
    /\ MintedExactly
    /\ TagsProveCompletion
    /\ TagsUnique

(* What NoIdBurnt needs while calls are still running: an id below the     *)
(* counter is reserved or in the hands of some call.                       *)
IdsAccounted ==
    \A n \in 0..(next_query_id - 1) : n \in reserved \/ \E j \in Job : id[j] = n
=============================================================================
