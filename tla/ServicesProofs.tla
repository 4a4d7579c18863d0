--------------------------- MODULE ServicesProofs ---------------------------
(***************************************************************************)
(* Proofs about the two long-lived services: the shared Datalog Evaluator, *)
(* for any set of concurrent calls, and the language server, for any       *)
(* documents, texts, edits and cache capacity, and any backlog of          *)
(* messages.                                                               *)
(***************************************************************************)
EXTENDS DatalogEvaluator, LanguageServer, SequenceTheorems, TLAPS

(* The stages of an entry point are fallible stages, and there is one.     *)
LEMMA StagesNamed ==
    \A e \in Entry : Stages[e] \in Seq(Stage) /\ Len(Stages[e]) > 0
<1> DEFINE Good(s) == s \in Seq(Stage) /\ Len(s) > 0
<1>1. /\ Good(run_query) /\ Good(run_query_typed) /\ Good(run_stratified)
      /\ Good(run_query_via_magic_sets) /\ Good(run_query_with_session)
      /\ Good(run_stratified_with_session) /\ Good(run_query_with_graph)
  BY DEF run_query, run_query_typed, run_stratified, run_query_via_magic_sets,
         run_query_with_session, run_stratified_with_session, run_query_with_graph, Stage
<1>2. Good(run_aggregate_query) /\ Good(run_aggregate_query_with_session)
  BY DEF run_aggregate_query, run_aggregate_query_with_session, Stage
<1>3. \A e \in Entry : Good(Stages[e])
  <2> HIDE DEF Good
  <2> QED  BY <1>1, <1>2 DEF Entry, Stages
<1> QED  BY <1>3

(* A call that succeeds at a stage goes on to another stage of its entry   *)
(* point or to the minting of its id.                                      *)
LEMMA AfterNamed ==
    ASSUME NEW e \in Entry, NEW s,
           \E k \in 1..Len(Stages[e]) : Stages[e][k] = s
    PROVE  \/ After(e, s) = "mint"
           \/ After(e, s) \in Stage /\ \E k \in 1..Len(Stages[e]) : Stages[e][k] = After(e, s)
<1> DEFINE at == CHOOSE k \in 1..Len(Stages[e]) : Stages[e][k] = s
<1>1. at \in 1..Len(Stages[e])
  OBVIOUS
<1>2. Stages[e] \in Seq(Stage)
  BY StagesNamed
<1>3. CASE at = Len(Stages[e])
  BY <1>3 DEF After
<1>4. CASE at # Len(Stages[e])
  <2>1. After(e, s) = Stages[e][at + 1]
    BY <1>4 DEF After
  <2>2. at + 1 \in 1..Len(Stages[e])
    BY <1>1, <1>2, <1>4
  <2> HIDE DEF at
  <2> QED  BY <1>2, <2>1, <2>2
<1> QED  BY <1>3, <1>4

(* A new Evaluator, with no call in flight and no tag returned, satisfies  *)
(* the inductive invariant.                                                *)
LEMMA EvaluatorInit == Init => EvaluatorInv
<1> SUFFICES ASSUME Init PROVE EvaluatorInv
  OBVIOUS
<1> USE DEF Init
<1>1. TypeOK
  BY DEF TypeOK, NoId
<1>2. OnItsPath /\ IdsDistinct /\ MintedExactly
  BY DEF OnItsPath, IdsDistinct, Minted, MintedExactly, Stage
<1>3. TagsProveCompletion /\ TagsUnique
  BY DEF TagsProveCompletion, TagsUnique
<1> QED  BY <1>1, <1>2, <1>3 DEF EvaluatorInv

(* Every step of a call and every outside next_query_id keeps it.          *)
LEMMA EvaluatorStep == EvaluatorInv /\ [Next]_vars => EvaluatorInv'
<1> SUFFICES ASSUME EvaluatorInv, [Next]_vars PROVE EvaluatorInv'
  OBVIOUS
<1> USE RequestAssumption
<1>a. /\ TypeOK /\ OnItsPath /\ IdsDistinct /\ MintedExactly
      /\ TagsProveCompletion /\ TagsUnique
  BY DEF EvaluatorInv
<1>b. \A j \in Job : request[j] \in RequestType /\ request[j].entry \in Entry
  BY <1>a DEF TypeOK, RequestType
<1>1. ASSUME NEW j \in Job, Call(j) PROVE EvaluatorInv'
  <2>1. Stages[request[j].entry][1] \in Stage /\ Len(Stages[request[j].entry]) \in Nat \ {0}
    BY <1>b, StagesNamed
  <2>2. stage'[j] \in Stage /\ \A i \in Job \ {j} : stage'[i] = stage[i]
    BY <1>1, <1>a, <2>1 DEF Call, TypeOK
  <2>3. stage[j] = "new" /\ UNCHANGED <<next_query_id, sink, ticks, request, id, reserved>>
    BY <1>1 DEF Call
  <2>4. TypeOK'
    BY <1>1, <1>a, <2>1, <2>3 DEF Call, TypeOK
  <2>5. OnItsPath'
    <3>1. stage'[j] = Stages[request[j].entry][1] /\ 1 \in 1..Len(Stages[request[j].entry])
      BY <1>1, <1>a, <2>1 DEF Call, TypeOK
    <3> QED  BY <1>a, <2>2, <2>3, <3>1 DEF OnItsPath
  <2>6. IdsDistinct' /\ TagsUnique'
    BY <1>a, <2>3 DEF IdsDistinct, Minted, TagsUnique
  <2>7. MintedExactly'
    BY <1>a, <2>2, <2>3 DEF MintedExactly, Stage
  <2>8. TagsProveCompletion'
    BY <1>a, <2>2, <2>3 DEF TagsProveCompletion, Stage
  <2> QED  BY <2>4, <2>5, <2>6, <2>7, <2>8 DEF EvaluatorInv
<1>2. ASSUME NEW j \in Job, Tick(j) PROVE EvaluatorInv'
  BY <1>2, <1>a DEF Tick, EvaluatorInv, TypeOK, OnItsPath, IdsDistinct, Minted,
                    MintedExactly, TagsProveCompletion, TagsUnique
<1>3. ASSUME NEW j \in Job, Succeed(j) PROVE EvaluatorInv'
  <2>1. \/ After(request[j].entry, stage[j]) = "mint"
        \/ /\ After(request[j].entry, stage[j]) \in Stage
           /\ \E k \in 1..Len(Stages[request[j].entry]) :
                Stages[request[j].entry][k] = After(request[j].entry, stage[j])
    BY <1>3, <1>a, <1>b, AfterNamed DEF Succeed, OnItsPath
  <2>2. /\ stage'[j] = After(request[j].entry, stage[j])
        /\ \A i \in Job \ {j} : stage'[i] = stage[i]
    BY <1>3, <1>a DEF Succeed, TypeOK
  <2>3. stage[j] \in Stage /\ UNCHANGED <<next_query_id, sink, ticks, request, id, reserved>>
    BY <1>3 DEF Succeed
  <2>4. TypeOK'
    BY <1>3, <1>a, <2>1, <2>3 DEF Succeed, TypeOK
  <2>5. OnItsPath'
    BY <1>a, <2>1, <2>2, <2>3 DEF OnItsPath, Stage
  <2>6. IdsDistinct' /\ TagsUnique'
    BY <1>a, <2>3 DEF IdsDistinct, Minted, TagsUnique
  <2>7. MintedExactly'
    BY <1>a, <2>1, <2>2, <2>3 DEF MintedExactly, Stage
  <2>8. TagsProveCompletion'
    BY <1>a, <2>1, <2>2, <2>3 DEF TagsProveCompletion, Stage
  <2> QED  BY <2>4, <2>5, <2>6, <2>7, <2>8 DEF EvaluatorInv
<1>4. ASSUME NEW j \in Job, Fail(j) PROVE EvaluatorInv'
  <2>1. stage'[j] = "err" /\ \A i \in Job \ {j} : stage'[i] = stage[i]
    BY <1>4, <1>a DEF Fail, TypeOK
  <2>2. stage[j] \in Stage /\ UNCHANGED <<next_query_id, sink, ticks, request, id, reserved>>
    BY <1>4 DEF Fail
  <2>3. TypeOK'
    BY <1>4, <1>a DEF Fail, TypeOK
  <2>4. OnItsPath' /\ MintedExactly'
    BY <1>a, <2>1, <2>2 DEF OnItsPath, MintedExactly, Stage
  <2>5. IdsDistinct' /\ TagsUnique'
    BY <1>a, <2>2 DEF IdsDistinct, Minted, TagsUnique
  <2>6. TagsProveCompletion'
    BY <1>a, <2>1, <2>2 DEF TagsProveCompletion, Stage
  <2> QED  BY <2>3, <2>4, <2>5, <2>6 DEF EvaluatorInv
<1>5. ASSUME NEW j \in Job, Mint(j) PROVE EvaluatorInv'
  <2>1. /\ stage[j] = "mint" /\ stage'[j] = "emit" /\ id'[j] = next_query_id
        /\ \A i \in Job \ {j} : stage'[i] = stage[i] /\ id'[i] = id[i]
        /\ next_query_id' = next_query_id + 1
        /\ UNCHANGED <<sink, ticks, request, reserved>>
    <3>1. DOMAIN stage = Job /\ DOMAIN id = Job
      BY <1>a DEF TypeOK
    <3> QED  BY <1>5, <3>1 DEF Mint
  <2>2. next_query_id \in Nat /\ id[j] = NoId
    BY <1>a, <2>1 DEF TypeOK, MintedExactly
  <2>3. TypeOK'
    BY <1>5, <1>a DEF Mint, TypeOK
  <2>4. OnItsPath' /\ MintedExactly'
    BY <1>a, <2>1, <2>2 DEF OnItsPath, MintedExactly, Stage, NoId
  <2>5. IdsDistinct'
    <3>1. \A i \in Minted' : i = j \/ (i \in Minted /\ id'[i] = id[i])
      BY <2>1 DEF Minted
    <3>2. \A i \in Minted : id[i] \in Nat /\ id[i] < next_query_id /\ id[i] \notin reserved
      BY <1>a DEF TypeOK, IdsDistinct, Minted
    <3>3. \A n \in reserved : n \in Nat /\ n < next_query_id
      BY <1>a DEF TypeOK, IdsDistinct
    <3>4. \A i \in Minted' : id'[i] < next_query_id' /\ id'[i] \notin reserved'
      BY <2>1, <2>2, <3>1, <3>2, <3>3
    <3>5. \A i, k \in Minted' : id'[i] = id'[k] => i = k
      BY <1>a, <2>1, <2>2, <3>1, <3>2 DEF IdsDistinct
    <3>6. \A n \in reserved' : n < next_query_id'
      BY <2>1, <2>2, <3>3
    <3> QED  BY <3>4, <3>5, <3>6 DEF IdsDistinct
  <2>6. TagsUnique'
    BY <1>a, <2>1 DEF TagsUnique
  <2>7. TagsProveCompletion'
    BY <1>a, <2>1 DEF TagsProveCompletion
  <2> QED  BY <2>3, <2>4, <2>5, <2>6, <2>7 DEF EvaluatorInv
<1>6. ASSUME NEW j \in Job, Emit(j) PROVE EvaluatorInv'
  <2> DEFINE tag == <<id[j], request[j].count>>
  <2>1. /\ stage[j] = "emit" /\ stage'[j] = "ok"
        /\ \A i \in Job \ {j} : stage'[i] = stage[i]
        /\ sink' = Append(sink, tag)
        /\ UNCHANGED <<next_query_id, ticks, request, id, reserved>>
    BY <1>6, <1>a DEF Emit, TypeOK
  <2>2. j \in Minted /\ id[j] \in Nat /\ tag \in Nat \X Nat
    BY <1>a, <1>b, <2>1 DEF MintedExactly, Minted, TypeOK, RequestType
  <2>3. sink \in Seq(Nat \X Nat)
    BY <1>a DEF TypeOK
  <2>4. /\ DOMAIN sink = 1..Len(sink) /\ Len(sink) \in Nat
        /\ DOMAIN sink' = 1..(Len(sink) + 1)
        /\ sink'[Len(sink) + 1] = tag
        /\ \A a \in DOMAIN sink : sink'[a] = sink[a]
    <3> HIDE DEF tag
    <3> QED  BY <2>1, <2>2, <2>3
  <2>5. TypeOK'
    <3>1. sink' \in Seq(Nat \X Nat)
      <4> HIDE DEF tag
      <4> QED  BY <2>1, <2>2, <2>3
    <3>2. stage' \in [Job -> Stage \union {"new", "mint", "emit", "ok", "err"}]
      BY <1>6, <1>a DEF Emit, TypeOK
    <3> QED  BY <1>a, <2>1, <3>1, <3>2 DEF TypeOK
  <2>6. OnItsPath' /\ MintedExactly'
    BY <1>a, <2>1 DEF OnItsPath, MintedExactly, Stage
  <2>7. IdsDistinct'
    BY <1>a, <2>1 DEF IdsDistinct, Minted
  <2>8. \A a \in DOMAIN sink : sink[a][1] # id[j]
    <3>1. SUFFICES ASSUME NEW a \in DOMAIN sink, sink[a][1] = id[j] PROVE FALSE
      OBVIOUS
    <3>2. PICK i \in Job : stage[i] = "ok" /\ sink[a] = <<id[i], request[i].count>>
      BY <1>a DEF TagsProveCompletion
    <3>3. i \in Minted /\ id[i] = id[j]
      BY <1>a, <3>1, <3>2 DEF MintedExactly, Minted
    <3>4. i = j
      BY <1>a, <2>2, <3>3 DEF IdsDistinct
    <3> QED  BY <2>1, <3>2, <3>4
  <2>9. TagsUnique'
    <3> SUFFICES ASSUME NEW a \in DOMAIN sink', NEW b \in DOMAIN sink',
                        sink'[a][1] = sink'[b][1]
                 PROVE  a = b
      BY DEF TagsUnique
    <3>1. /\ a \in DOMAIN sink \/ a = Len(sink) + 1
          /\ b \in DOMAIN sink \/ b = Len(sink) + 1
      BY <2>4
    <3>2. CASE a \in DOMAIN sink /\ b \in DOMAIN sink
      BY <1>a, <2>4, <3>2 DEF TagsUnique
    <3>3. CASE a = Len(sink) + 1 /\ b \in DOMAIN sink
      BY <2>4, <2>8, <3>3
    <3>4. CASE a \in DOMAIN sink /\ b = Len(sink) + 1
      BY <2>4, <2>8, <3>4
    <3> QED  BY <3>1, <3>2, <3>3, <3>4
  <2>10. TagsProveCompletion'
    <3>1. ASSUME NEW i \in Job, stage'[i] = "ok"
          PROVE  \E a \in DOMAIN sink' : sink'[a] = <<id'[i], request'[i].count>>
      <4>1. CASE i = j
        BY <2>1, <2>4, <4>1
      <4>2. CASE i # j
        <5>1. PICK a \in DOMAIN sink : sink[a] = <<id[i], request[i].count>>
          BY <1>a, <2>1, <3>1, <4>2 DEF TagsProveCompletion
        <5> QED  BY <2>1, <2>4, <5>1
      <4> QED  BY <4>1, <4>2
    <3>2. ASSUME NEW a \in DOMAIN sink'
          PROVE  \E i \in Job : stage'[i] = "ok" /\ sink'[a] = <<id'[i], request'[i].count>>
      <4>1. CASE a = Len(sink) + 1
        BY <2>1, <2>4, <4>1
      <4>2. CASE a \in DOMAIN sink
        <5>1. PICK i \in Job : stage[i] = "ok" /\ sink[a] = <<id[i], request[i].count>>
          BY <1>a, <4>2 DEF TagsProveCompletion
        <5> QED  BY <2>1, <2>4, <4>2, <5>1
      <4> QED  BY <2>4, <3>2, <4>1, <4>2
    <3> QED  BY <3>1, <3>2 DEF TagsProveCompletion
  <2> QED  BY <2>5, <2>6, <2>7, <2>9, <2>10 DEF EvaluatorInv
<1>7. ASSUME Reserve PROVE EvaluatorInv'
  <2>1. /\ reserved' = reserved \union {next_query_id}
        /\ next_query_id' = next_query_id + 1
        /\ UNCHANGED <<sink, ticks, request, stage, id>>
    BY <1>7 DEF Reserve
  <2>2. \A i \in Minted : id[i] \in Nat /\ id[i] < next_query_id
    BY <1>a DEF TypeOK, IdsDistinct, Minted
  <2>3. next_query_id \in Nat /\ \A n \in reserved : n \in Nat /\ n < next_query_id
    BY <1>a DEF TypeOK, IdsDistinct
  <2>4. TypeOK' /\ OnItsPath' /\ MintedExactly' /\ TagsProveCompletion'
    BY <1>a, <2>1 DEF TypeOK, OnItsPath, MintedExactly, TagsProveCompletion
  <2>5. IdsDistinct'
    BY <1>a, <2>1, <2>2, <2>3 DEF IdsDistinct, Minted
  <2>6. TagsUnique'
    BY <1>a, <2>1 DEF TagsUnique
  <2> QED  BY <2>4, <2>5, <2>6 DEF EvaluatorInv
<1>8. CASE UNCHANGED vars
  BY <1>8, <1>a DEF vars, EvaluatorInv, TypeOK, OnItsPath, IdsDistinct, Minted,
                    MintedExactly, TagsProveCompletion, TagsUnique
<1> QED  BY <1>1, <1>2, <1>3, <1>4, <1>5, <1>6, <1>7, <1>8 DEF Next, Step, Finished

(* The ids that were minted, handed out and put into tags stay consistent  *)
(* with the shared counter in every interleaving of the calls.             *)
THEOREM EvaluatorInvariant == Spec => []EvaluatorInv
BY EvaluatorInit, EvaluatorStep, PTL DEF Spec

(* No two fingerprint tags of one Evaluator carry the same query id.       *)
THEOREM IdsNeverShared == Spec => []TagsUnique
<1>1. EvaluatorInv => TagsUnique
  BY Zenon DEF EvaluatorInv
<1> QED  BY <1>1, EvaluatorInvariant, PTL

(* The tags are exactly those of the calls that returned Ok.               *)
THEOREM TagsAreProofs == Spec => []TagsProveCompletion
<1>1. EvaluatorInv => TagsProveCompletion
  BY Zenon DEF EvaluatorInv
<1> QED  BY <1>1, EvaluatorInvariant, PTL

(* The counter moves only together with an id that is handed out: a        *)
(* failing call does not touch it, Mint and Reserve keep what they took.   *)
LEMMA AccountedStep == EvaluatorInv /\ IdsAccounted /\ [Next]_vars => IdsAccounted'
<1> SUFFICES ASSUME EvaluatorInv, IdsAccounted, [Next]_vars PROVE IdsAccounted'
  OBVIOUS
<1>a. /\ next_query_id \in Nat /\ id \in [Job -> Nat \union {NoId}]
      /\ \A j \in Job : stage[j] = "mint" => id[j] = NoId
  BY DEF EvaluatorInv, TypeOK, MintedExactly
<1>1. CASE UNCHANGED <<next_query_id, id, reserved>>
  BY <1>1 DEF IdsAccounted
<1>2. ASSUME NEW j \in Job, Mint(j) PROVE IdsAccounted'
  <2>1. /\ id' = [id EXCEPT ![j] = next_query_id] /\ next_query_id' = next_query_id + 1
        /\ reserved' = reserved /\ id[j] = NoId
    BY <1>a, <1>2 DEF Mint
  <2> SUFFICES ASSUME NEW n \in 0..next_query_id
               PROVE  n \in reserved \/ \E i \in Job : id'[i] = n
    BY <1>a, <2>1 DEF IdsAccounted
  <2>2. CASE n = next_query_id
    BY <1>a, <2>1, <2>2
  <2>3. CASE n # next_query_id
    <3>1. n \in 0..(next_query_id - 1) /\ n # NoId
      BY <1>a, <2>3 DEF NoId
    <3>2. n \in reserved \/ \E i \in Job : id[i] = n /\ i # j
      BY <2>1, <3>1 DEF IdsAccounted
    <3> QED  BY <1>a, <2>1, <3>2
  <2> QED  BY <2>2, <2>3
<1>3. ASSUME Reserve PROVE IdsAccounted'
  BY <1>a, <1>3 DEF Reserve, IdsAccounted
<1> QED  BY <1>1, <1>2, <1>3 DEF Next, Step, Call, Tick, Succeed, Fail, Emit, Finished, vars

(* Failed calls burn no id: once every call has returned, the ids of the   *)
(* tags and the ones reserved from outside are exactly those below the     *)
(* counter, in whatever order the calls ran and wherever they failed.      *)
THEOREM NoIdLost == Spec => []NoIdBurnt
<1>1. Init => IdsAccounted
  BY DEF Init, IdsAccounted
<1>2. EvaluatorInv /\ IdsAccounted => NoIdBurnt
  <2> SUFFICES ASSUME EvaluatorInv, IdsAccounted, \A j \in Job : Ended(j)
               PROVE  {sink[a][1] : a \in DOMAIN sink} \union reserved = 0..(next_query_id - 1)
    BY DEF NoIdBurnt
  <2>1. /\ next_query_id \in Nat /\ id \in [Job -> Nat \union {NoId}] /\ reserved \subseteq Nat
        /\ TagsProveCompletion /\ MintedExactly /\ IdsDistinct
    BY DEF EvaluatorInv, TypeOK
  <2>2. \A a \in DOMAIN sink : sink[a][1] \in 0..(next_query_id - 1)
    <3> TAKE a \in DOMAIN sink
    <3>1. PICK j \in Job : stage[j] = "ok" /\ sink[a] = <<id[j], request[j].count>>
      BY <2>1 DEF TagsProveCompletion
    <3>2. j \in Minted /\ id[j] \in Nat
      BY <2>1, <3>1 DEF MintedExactly, Minted
    <3> QED  BY <2>1, <3>1, <3>2 DEF IdsDistinct
  <2>3. \A n \in reserved : n \in 0..(next_query_id - 1)
    BY <2>1 DEF IdsDistinct
  <2>4. ASSUME NEW n \in 0..(next_query_id - 1), n \notin reserved
        PROVE  \E a \in DOMAIN sink : sink[a][1] = n
    <3>1. PICK j \in Job : id[j] = n
      BY <2>4 DEF IdsAccounted
    <3>2. id[j] # NoId
      BY <2>1, <3>1 DEF NoId
    <3>3. stage[j] = "ok"
      BY <2>1, <3>2 DEF MintedExactly, Ended
    <3>4. PICK a \in DOMAIN sink : sink[a] = <<id[j], request[j].count>>
      BY <2>1, <3>3 DEF TagsProveCompletion
    <3> QED  BY <3>1, <3>4
  <2> QED  BY <2>2, <2>3, <2>4
<1> QED  BY <1>1, <1>2, EvaluatorInvariant, AccountedStep, PTL DEF Spec

-----------------------------------------------------------------------------

(* A sequence is a sequence of its own elements.                           *)
LEMMA OwnElements ==
    ASSUME NEW S, NEW s \in Seq(S)
    PROVE  /\ s \in Seq(Elements(s))
           /\ Elements(s) \subseteq S
<1>1. Len(s) \in Nat /\ s \in [1..Len(s) -> S]
  BY LenProperties
<1>2. s \in [1..Len(s) -> Elements(s)]
  BY <1>1 DEF Elements
<1>3. s \in Seq(Elements(s))
  BY <1>1, <1>2, SeqDef
<1>4. Elements(s) \subseteq S
  BY <1>1 DEF Elements
<1> QED  BY <1>3, <1>4

(* Appending adds one element.                                             *)
LEMMA AppendElements ==
    ASSUME NEW s, s \in Seq(Elements(s)), NEW e
    PROVE  /\ Append(s, e) \in Seq(Elements(Append(s, e)))
           /\ Elements(Append(s, e)) \subseteq Elements(s) \union {e}
           /\ Len(s) \in Nat
           /\ Len(Append(s, e)) = Len(s) + 1
           /\ Append(s, e)[Len(s) + 1] = e
           /\ \A k \in 1..Len(s) : Append(s, e)[k] = s[k]
<1> DEFINE S == Elements(s) \union {e}
<1>1. s \in Seq(S)
  BY SeqMonotonic
<1> HIDE DEF S
<1>2. e \in S
  BY DEF S
<1>3. Append(s, e) \in Seq(S)
  BY <1>1, <1>2, AppendProperties
<1>4. /\ Append(s, e) \in Seq(Elements(Append(s, e)))
      /\ Elements(Append(s, e)) \subseteq S
  BY <1>3, OwnElements, Zenon
<1>5. /\ Len(s) \in Nat
      /\ Len(Append(s, e)) = Len(s) + 1
      /\ Append(s, e)[Len(s) + 1] = e
      /\ \A k \in 1..Len(s) : Append(s, e)[k] = s[k]
  BY <1>1, <1>2, AppendProperties, LenProperties
<1> QED  BY <1>4, <1>5 DEF S

(* Taking the head leaves the rest, one place earlier.                     *)
LEMMA TailElements ==
    ASSUME NEW s, s \in Seq(Elements(s)), s # <<>>
    PROVE  /\ Tail(s) \in Seq(Elements(Tail(s)))
           /\ Elements(Tail(s)) \subseteq Elements(s)
           /\ Len(s) \in Nat \ {0}
           /\ Head(s) = s[1] /\ Head(s) \in Elements(s)
           /\ Len(Tail(s)) = Len(s) - 1
           /\ \A k \in 1..(Len(s) - 1) : Tail(s)[k] = s[k + 1]
<1> DEFINE S == Elements(s)
<1>1. s \in Seq(S)
  OBVIOUS
<1> HIDE DEF S
<1>2. /\ Tail(s) \in Seq(S) /\ Head(s) \in S
      /\ Len(Tail(s)) = Len(s) - 1
      /\ \A k \in 1..(Len(s) - 1) : Tail(s)[k] = s[k + 1]
      /\ Len(s) \in Nat \ {0}
  BY <1>1, HeadTailProperties, EmptySeq
<1>3. Head(s) = s[1]
  BY <1>1
<1>4. /\ Tail(s) \in Seq(Elements(Tail(s)))
      /\ Elements(Tail(s)) \subseteq S
  BY <1>2, OwnElements, Zenon
<1> QED  BY <1>2, <1>3, <1>4 DEF S

-----------------------------------------------------------------------------
(* Whether it hits or misses, the cache answers with the entry of the text *)
(* asked about.                                                            *)
LEMMA CacheAnswersForTheText ==
    ASSUME NEW u, NEW text, CacheIsHonest
    PROVE  Diagnosed(u, text) = CacheEntry(u, text)
<1>1. CASE lookup(u, text) = {}
  BY <1>1 DEF Diagnosed
<1>2. CASE lookup(u, text) # {}
  <2> DEFINE k == CHOOSE k \in lookup(u, text) : TRUE
  <2>1. k \in lookup(u, text)
    BY <1>2
  <2> HIDE DEF k
  <2>2. k \in 1..Len(cache) /\ cache[k].uri = u /\ cache[k].content = text
    BY <2>1 DEF lookup, Entries
  <2>3. cache[k] = CacheEntry(cache[k].uri, cache[k].content)
    BY <2>2 DEF CacheIsHonest, Elements
  <2>4. Diagnosed(u, text) = cache[k]
    BY <1>2 DEF Diagnosed, k
  <2> QED  BY <2>2, <2>3, <2>4
<1> QED  BY <1>1, <1>2

(* What LruCache keeps are the new entry and entries it had.               *)
LEMMA UsedElements ==
    ASSUME NEW entry, CacheIsHonest
    PROVE  /\ Used(entry) \in Seq(Elements(Used(entry)))
           /\ Elements(Used(entry)) \subseteq Elements(cache) \union {entry}
<1> DEFINE S == Elements(cache) \union {entry}
           k == CHOOSE k \in Entries(entry.uri) : TRUE
           others == Prefix(cache, k - 1) \o SubSeq(cache, k + 1, Len(cache))
           rest == IF Entries(entry.uri) = {} THEN cache ELSE others
           room == IF Len(rest) < Capacity THEN Len(rest) ELSE Capacity - 1
<1>1. cache \in Seq(S)
  BY SeqMonotonic DEF CacheIsHonest
<1>2. Len(cache) \in Nat /\ \A i \in 1..Len(cache) : cache[i] \in S
  BY <1>1, LenProperties, ElementOfSeq
<1>3. <<entry>> \in Seq(S)
  OBVIOUS
<1>4. ASSUME Entries(entry.uri) # {}
      PROVE  others \in Seq(S)
  <2>1. k \in 1..Len(cache)
    BY <1>4 DEF Entries
  <2> HIDE DEF k, S
  <2>2. Prefix(cache, k - 1) \in Seq(S)
    <3>1. \A i \in 1..(k - 1) : cache[i] \in S
      BY <2>1, <1>2
    <3> QED  BY <2>1, <1>2, <3>1, SubSeqProperties DEF Prefix
  <2>3. SubSeq(cache, k + 1, Len(cache)) \in Seq(S)
    <3>1. \A i \in (k + 1)..Len(cache) : cache[i] \in S
      BY <2>1, <1>2
    <3> QED  BY <2>1, <1>2, <3>1, SubSeqProperties
  <2> QED  BY <2>2, <2>3, ConcatProperties
<1>5. rest \in Seq(S)
  BY <1>1, <1>4
<1>6. Used(entry) = <<entry>> \o Prefix(rest, room)
  BY DEF Used
<1> HIDE DEF S, k, others, rest
<1>7. Prefix(rest, room) \in Seq(S)
  <2>1. Len(rest) \in Nat /\ \A i \in 1..Len(rest) : rest[i] \in S
    BY <1>5, LenProperties, ElementOfSeq
  <2>2. room \in Int /\ room <= Len(rest)
    BY <2>1, ServerAssumption
  <2> HIDE DEF room
  <2>3. \A i \in 1..room : rest[i] \in S
    BY <2>1, <2>2
  <2> QED  BY <2>2, <2>3, SubSeqProperties DEF Prefix
<1>8. Used(entry) \in Seq(S)
  BY <1>3, <1>6, <1>7, ConcatProperties
<1>9. Used(entry) \in Seq(Elements(Used(entry))) /\ Elements(Used(entry)) \subseteq S
  BY <1>8, OwnElements
<1> QED  BY <1>9 DEF S

(* An honest cache stays honest when the text's own entry is used.         *)
LEMMA UsedStaysHonest ==
    ASSUME NEW u, NEW text, CacheIsHonest, cache' = Used(Diagnosed(u, text))
    PROVE  CacheIsHonest'
<1>1. cache' = Used(CacheEntry(u, text))
  BY CacheAnswersForTheText
<1>2. /\ cache' \in Seq(Elements(cache'))
      /\ Elements(cache') \subseteq Elements(cache) \union {CacheEntry(u, text)}
  BY <1>1, UsedElements
<1>3. \A e \in Elements(cache') : e = CacheEntry(e.uri, e.content)
  BY <1>2 DEF CacheIsHonest, CacheEntry
<1> QED  BY <1>2, <1>3, Zenon DEF CacheIsHonest, CacheEntry, diagnose_document, Elements

-----------------------------------------------------------------------------
(* The publication a document's text calls for.                            *)
Current(u) == Publication(u, docs[u].version, diagnose_document(docs[u].text))

(* LastPublicationIsCurrent, for one document.                             *)
CurrentLast(u) ==
    \/ shown[u] = Current(u) /\ \A k \in 1..Len(to_client) : to_client[k].uri # u
    \/ \E k \in 1..Len(to_client) :
          /\ to_client[k] = Current(u)
          /\ \A j \in (k + 1)..Len(to_client) : to_client[j].uri # u

LEMMA LastByDocument ==
    LastPublicationIsCurrent <=> \A u \in Uri : docs[u].open => CurrentLast(u)
BY DEF LastPublicationIsCurrent, CurrentLast, Current

(* Setting a document and publishing it keeps the invariant: the document  *)
(* has the newest publication, and the others' are where they were.        *)
LEMMA PublishKeeps ==
    ASSUME NEW u \in Uri, NEW version, NEW text, ServerInv,
           docs' = [docs EXCEPT ![u] = Document(TRUE, version, text)],
           Publish(u, version, text), Take, UNCHANGED shown
    PROVE  ServerInv'
<1> DEFINE p == Publication(u, version, diagnose_document(text))
<1>1. cache' = Used(Diagnosed(u, text)) /\ CacheIsHonest
  BY DEF Publish, ServerInv
<1>2. CacheIsHonest'
  BY <1>1, UsedStaysHonest
<1>3. to_client' = Append(to_client, p)
  BY <1>1, CacheAnswersForTheText DEF Publish, CacheEntry
<1>4. p.uri = u
  BY DEF Publication
<1>5. /\ to_client' \in Seq(Elements(to_client'))
      /\ Elements(to_client') \subseteq Elements(to_client) \union {p}
      /\ Len(to_client) \in Nat
      /\ Len(to_client') = Len(to_client) + 1
      /\ to_client'[Len(to_client) + 1] = p
      /\ \A k \in 1..Len(to_client) : to_client'[k] = to_client[k]
  BY <1>3, AppendElements DEF ServerInv, StreamsInv
<1>6. /\ to_server' \in Seq(Elements(to_server'))
      /\ Elements(to_server') \subseteq Elements(to_server)
  BY TailElements DEF Take, ServerInv, StreamsInv
<1>7. docs' = [v \in Uri |-> docs'[v]] /\ shown' = [v \in Uri |-> shown'[v]]
  BY Zenon DEF ServerInv
<1>8. StreamsInv'
  <2>1. \A m \in Elements(to_server') \union Elements(to_client') : m.uri \in Uri
    BY <1>4, <1>5, <1>6 DEF ServerInv, StreamsInv
  <2> QED  BY <1>5, <1>6, <2>1 DEF StreamsInv, Elements
<1>9. ASSUME NEW v \in Uri, docs'[v].open
      PROVE  CurrentLast(v)'
  <2>1. CASE v = u
    <3>1. docs'[u] = Document(TRUE, version, text)
      BY DEF ServerInv
    <3>2. Current(u)' = p
      BY <3>1 DEF Current, Document
    <3> QED  BY <2>1, <3>2, <1>5 DEF CurrentLast
  <2>2. CASE v # u
    <3>1. docs'[v] = docs[v] /\ shown'[v] = shown[v]
      BY <2>2 DEF ServerInv
    <3>2. Current(v)' = Current(v)
      BY <3>1, Zenon DEF Current
    <3>3. CurrentLast(v)
      BY <1>9, <3>1, LastByDocument, Zenon DEF ServerInv
    <3> HIDE DEF p
    <3>4. CASE shown[v] = Current(v) /\ \A k \in 1..Len(to_client) : to_client[k].uri # v
      <4>1. \A k \in 1..Len(to_client') : to_client'[k].uri # v
        BY <3>4, <2>2, <1>4, <1>5
      <4> QED  BY <3>1, <3>2, <3>4, <4>1 DEF CurrentLast
    <3>5. ASSUME NEW k \in 1..Len(to_client), to_client[k] = Current(v),
                 \A j \in (k + 1)..Len(to_client) : to_client[j].uri # v
          PROVE  CurrentLast(v)'
      <4>1. k \in 1..Len(to_client') /\ to_client'[k] = Current(v)'
        BY <3>2, <3>5, <1>5
      <4>2. \A j \in (k + 1)..Len(to_client') : to_client'[j].uri # v
        <5>1. \A j \in (k + 1)..Len(to_client') :
                \/ j \in (k + 1)..Len(to_client) /\ j \in 1..Len(to_client)
                \/ j = Len(to_client) + 1
          BY <3>5, <1>5
        <5> QED  BY <3>5, <2>2, <1>4, <1>5, <5>1
      <4> QED  BY <4>1, <4>2 DEF CurrentLast
    <3> QED  BY <3>3, <3>4, <3>5 DEF CurrentLast
  <2> QED  BY <2>1, <2>2
<1>10. LastPublicationIsCurrent'
  BY <1>9, Zenon DEF LastPublicationIsCurrent, CurrentLast, Current
<1> QED  BY <1>2, <1>7, <1>8, <1>10 DEF ServerInv

-----------------------------------------------------------------------------
LEMMA ServerInvInit == ServerInit => ServerInv
<1> SUFFICES ASSUME ServerInit PROVE ServerInv
  OBVIOUS
<1>1. docs = [u \in Uri |-> docs[u]] /\ shown = [u \in Uri |-> shown[u]]
  BY DEF ServerInit
<1>2. Elements(<<>>) = {} /\ <<>> \in Seq({})
  BY DEF Elements
<1>3. CacheIsHonest /\ StreamsInv
  BY <1>2 DEF ServerInit, CacheIsHonest, StreamsInv
<1>4. LastPublicationIsCurrent
  BY DEF ServerInit, LastPublicationIsCurrent, NoDocument, Document
<1> QED  BY <1>1, <1>3, <1>4 DEF ServerInv

(* A message the editor sends about one of its documents only lengthens    *)
(* the stream to the server.                                               *)
LEMMA SendingKeeps ==
    ASSUME ServerInv, NEW m, m.uri \in Uri, to_server' = Append(to_server, m),
           UNCHANGED <<server, shown, to_client>>
    PROVE  ServerInv'
<1>1. /\ to_server' \in Seq(Elements(to_server'))
      /\ Elements(to_server') \subseteq Elements(to_server) \union {m}
  BY AppendElements DEF ServerInv, StreamsInv
<1>2. StreamsInv'
  BY <1>1, Zenon DEF ServerInv, StreamsInv, Elements
<1>3. CacheIsHonest' /\ LastPublicationIsCurrent'
  BY DEF ServerInv, CacheIsHonest, LastPublicationIsCurrent, server, Elements
<1> QED  BY <1>2, <1>3 DEF ServerInv, server

LEMMA HandleKeeps == ServerInv /\ Handle => ServerInv'
<1> SUFFICES ASSUME ServerInv, Handle PROVE ServerInv'
  OBVIOUS
<1> DEFINE m == Head(to_server)
<1>1. Take
  BY Zenon DEF Handle, did_open, did_change, did_close, Receive
<1>2. /\ m.uri \in Uri
      /\ to_server' \in Seq(Elements(to_server'))
      /\ Elements(to_server') \subseteq Elements(to_server)
  BY <1>1, TailElements DEF Take, ServerInv, StreamsInv
<1>3. CASE did_open
  <2>1. /\ docs' = [docs EXCEPT ![m.uri] = Document(TRUE, m.version, m.text)]
        /\ Publish(m.uri, m.version, m.text) /\ UNCHANGED shown
    BY <1>3 DEF did_open
  <2> HIDE DEF m
  <2> QED  BY <1>1, <1>2, <2>1, PublishKeeps, Zenon
<1>4. CASE did_change /\ docs[m.uri].open
  <2>1. /\ docs' = Changed(m.uri, m.version, m.changes) /\ UNCHANGED shown
        /\ Publish(m.uri, docs'[m.uri].version, docs'[m.uri].text)
    BY <1>4 DEF did_change
  <2> HIDE DEF m
  <2>2. PICK text : docs' = [docs EXCEPT ![m.uri] = Document(TRUE, m.version, text)]
    BY <2>1, Zenon DEF Changed
  <2>3. docs'[m.uri] = Document(TRUE, m.version, text)
    BY <1>2, <2>2, Zenon DEF ServerInv
  <2>4. Publish(m.uri, m.version, text)
    BY <2>1, <2>3 DEF Document
  <2> QED  BY <1>1, <1>2, <2>1, <2>2, <2>4, PublishKeeps, Zenon
<1>5. CASE \/ did_close
           \/ did_change /\ ~docs[m.uri].open
  <2>1. UNCHANGED <<cache, shown, to_client>>
    BY <1>5 DEF did_close, did_change, server
  <2>2. docs' = docs \/ docs' = [docs EXCEPT ![m.uri] = NoDocument]
    BY <1>5 DEF did_close, did_change, server
  <2> HIDE DEF m
  <2>3. docs' = [v \in Uri |-> docs'[v]] /\ shown' = [v \in Uri |-> shown'[v]]
    BY <2>1, <2>2 DEF ServerInv
  <2>4. CacheIsHonest'
    BY <2>1 DEF ServerInv, CacheIsHonest, Elements
  <2>5. StreamsInv'
    BY <1>2, <2>1, Zenon DEF ServerInv, StreamsInv, Elements
  <2>6. \A v \in Uri : docs'[v].open => docs'[v] = docs[v] /\ docs[v].open
    BY <1>2, <2>2 DEF ServerInv, NoDocument, Document
  <2>7. LastPublicationIsCurrent'
    BY <2>1, <2>6 DEF ServerInv, LastPublicationIsCurrent
  <2> QED  BY <2>3, <2>4, <2>5, <2>7 DEF ServerInv
<1> QED  BY <1>3, <1>4, <1>5 DEF Handle

(* The head of the stream becomes what is shown; if it was the last about  *)
(* its document, it is now the one shown with none behind it.              *)
LEMMA DeliverKeeps == ServerInv /\ Deliver => ServerInv'
<1> SUFFICES ASSUME ServerInv, Deliver PROVE ServerInv'
  OBVIOUS
<1> DEFINE p == Head(to_client)
<1>1. /\ to_client' \in Seq(Elements(to_client'))
      /\ Elements(to_client') \subseteq Elements(to_client)
      /\ Len(to_client) \in Nat \ {0}
      /\ p = to_client[1] /\ p \in Elements(to_client)
      /\ Len(to_client') = Len(to_client) - 1
      /\ \A k \in 1..(Len(to_client) - 1) : to_client'[k] = to_client[k + 1]
  BY TailElements DEF Deliver, ServerInv, StreamsInv
<1>2. p.uri \in Uri
  BY <1>1 DEF ServerInv, StreamsInv
<1>3. UNCHANGED <<docs, cache, to_server>> /\ shown' = [shown EXCEPT ![p.uri] = p]
  BY DEF Deliver, server
<1> HIDE DEF p
<1>4. docs' = [v \in Uri |-> docs'[v]] /\ shown' = [v \in Uri |-> shown'[v]]
  BY <1>3 DEF ServerInv
<1>5. CacheIsHonest'
  BY <1>3 DEF ServerInv, CacheIsHonest, Elements
<1>6. StreamsInv'
  BY <1>1, <1>3, Zenon DEF ServerInv, StreamsInv, Elements
<1>7. ASSUME NEW v \in Uri, docs'[v].open
      PROVE  CurrentLast(v)'
  <2>1. Current(v)' = Current(v) /\ CurrentLast(v)
    BY <1>3, <1>7, LastByDocument DEF ServerInv, Current
  <2>2. CASE shown[v] = Current(v) /\ \A k \in 1..Len(to_client) : to_client[k].uri # v
    <3>1. shown'[v] = shown[v]
      BY <1>1, <1>2, <1>3, <2>2 DEF ServerInv
    <3>2. \A k \in 1..Len(to_client') : to_client'[k].uri # v
      BY <1>1, <2>2
    <3> QED  BY <2>1, <2>2, <3>1, <3>2 DEF CurrentLast
  <2>3. ASSUME NEW k \in 1..Len(to_client), to_client[k] = Current(v),
               \A j \in (k + 1)..Len(to_client) : to_client[j].uri # v
        PROVE  CurrentLast(v)'
    <3>1. CASE k = 1
      <4>1. p.uri = v
        BY <1>1, <2>3, <3>1 DEF Current, Publication
      <4>2. shown'[v] = Current(v)'
        BY <1>1, <1>2, <1>3, <2>1, <2>3, <3>1, <4>1 DEF ServerInv
      <4>3. \A j \in 1..Len(to_client') : to_client'[j].uri # v
        BY <1>1, <2>3, <3>1
      <4> QED  BY <4>2, <4>3 DEF CurrentLast
    <3>2. CASE k # 1
      <4>1. k - 1 \in 1..Len(to_client') /\ to_client'[k - 1] = Current(v)'
        BY <1>1, <2>1, <2>3, <3>2
      <4>2. \A j \in ((k - 1) + 1)..Len(to_client') : to_client'[j].uri # v
        BY <1>1, <2>3, <3>2
      <4> QED  BY <4>1, <4>2 DEF CurrentLast
    <3> QED  BY <3>1, <3>2
  <2> QED  BY <2>1, <2>2, <2>3 DEF CurrentLast
<1>8. LastPublicationIsCurrent'
  BY <1>7 DEF LastPublicationIsCurrent, CurrentLast, Current
<1> QED  BY <1>4, <1>5, <1>6, <1>8 DEF ServerInv

LEMMA TypeKeeps == ServerInv /\ Type => ServerInv'
<1> SUFFICES ASSUME ServerInv, NEW u \in Uri,
                    Open(u) \/ Edit(u) \/ EditTwice(u) \/ Replace(u) \/ Close(u)
             PROVE  ServerInv'
  BY DEF Type
<1>1. ASSUME NEW list, NEW text, SendChanges(u, list, text)
      PROVE  ServerInv'
  <2> DEFINE m == Message("didChange", u, edited[u].version + 1, <<>>, list)
  <2>1. to_server' = Append(to_server, m) /\ UNCHANGED <<server, shown, to_client>>
    BY <1>1 DEF SendChanges
  <2>2. m.uri \in Uri
    BY DEF Message
  <2> HIDE DEF m
  <2> QED  BY <2>1, <2>2, SendingKeeps
<1>2. CASE Edit(u) \/ EditTwice(u) \/ Replace(u)
  <2>1. Edit(u) => \E list, text : SendChanges(u, list, text)
    BY Zenon DEF Edit
  <2>2. EditTwice(u) => \E list, text : SendChanges(u, list, text)
    <3> DEFINE text == edited[u].text
    <3> SUFFICES ASSUME EditTwice(u)
                 PROVE  \E list, t : SendChanges(u, list, t)
      OBVIOUS
    <3>1. PICK i, j, new :
            LET next == Splice(text, i, j, new)
            IN  \E k \in 0..Len(next) : \E l \in k..Len(next), new2 \in Insertions :
                  SendChanges(u, <<Change(text, i, j, new), Change(next, k, l, new2)>>,
                              Splice(next, k, l, new2))
      BY Zenon DEF EditTwice
    <3> DEFINE next == Splice(text, i, j, new)
    <3> HIDE DEF text, next
    <3> QED  BY <3>1, Zenon DEF next
  <2>3. Replace(u) => \E list, text : SendChanges(u, list, text)
    BY Zenon DEF Replace
  <2> QED  BY <1>1, <1>2, <2>1, <2>2, <2>3
<1>3. CASE Open(u) \/ Close(u)
  <2>1. PICK kind, version, text :
          to_server' = Append(to_server, Message(kind, u, version, text, <<>>))
    BY <1>3, Zenon DEF Open, Close
  <2>2. UNCHANGED <<server, shown, to_client>>
    BY <1>3, Zenon DEF Open, Close
  <2> DEFINE m == Message(kind, u, version, text, <<>>)
  <2>3. m.uri \in Uri
    BY DEF Message
  <2> HIDE DEF m
  <2>4. to_server' = Append(to_server, m)
    BY <2>1 DEF m
  <2> QED  BY <2>2, <2>3, <2>4, SendingKeeps
<1> QED  BY <1>2, <1>3

(* ServerInv is inductive: did_open, did_change and did_close, a delivery, *)
(* and anything the editor sends keep it.                                  *)
LEMMA ServerInvInductive == ServerInv /\ [ServerNext]_serverVars => ServerInv'
<1>1. ServerInv /\ UNCHANGED serverVars => ServerInv'
  BY DEF serverVars, server, ServerInv, CacheIsHonest, StreamsInv, LastPublicationIsCurrent, Elements
<1> QED  BY <1>1, HandleKeeps, DeliverKeeps, TypeKeeps DEF ServerNext

(* The last publication about an open document is always that of the text  *)
(* the store holds, however did_open and did_change use the cache.         *)
THEOREM PublicationsAreCurrent == ServerSpec => []LastPublicationIsCurrent
<1>1. ServerInv => LastPublicationIsCurrent
  BY DEF ServerInv
<1> QED  BY <1>1, ServerInvInit, ServerInvInductive, PTL DEF ServerSpec

(* ParseCache never holds diagnostics of another text than the one whose   *)
(* hash it holds, through edits, evictions, closing and opening again.     *)
THEOREM CacheStaysHonest == ServerSpec => []CacheIsHonest
<1>1. ServerInv => CacheIsHonest
  BY DEF ServerInv
<1> QED  BY <1>1, ServerInvInit, ServerInvInductive, PTL DEF ServerSpec

=============================================================================
