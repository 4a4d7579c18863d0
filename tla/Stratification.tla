--------------------------- MODULE Stratification ---------------------------
(***************************************************************************)
(* compute_strata (paideia-as-shell-datalog, stratification.rs): the       *)
(* strongly connected components of the predicate dependency graph by an   *)
(* iterative Tarjan search, the rejection of negation inside a component,  *)
(* and the relaxation that lifts the components to strata.                 *)
(*                                                                         *)
(* An edge <<s, t, neg>> says that a rule with head predicate t has a goal *)
(* of predicate s, negated when neg holds.  Predicates are the indices of  *)
(* the sorted pred_list.  The order of a predicate's edges follows the     *)
(* order of the rules in the program, and the relaxation walks a HashMap:  *)
(* both orders are chosen nondeterministically.                            *)
(***************************************************************************)
EXTENDS Integers, Sequences

CONSTANTS
    Count,     \* the length of pred_list
    Graph      \* the dependency graphs: sets of edges

Preds == 1..Count

ASSUME GraphAssumption ==
    /\ Count \in Nat
    /\ Graph \subseteq SUBSET (Preds \X Preds \X BOOLEAN)

VARIABLES
    edges,     \* adj
    pc,        \* "search" | "reject" | "pass" | "done"
    start,     \* the next root of the outer loop of tarjan_sccs
    stack,     \* Tarjan's stack; on_stack holds of exactly its elements
    index_counter,
    indices,   \* discovery index; None (0) before discovery, counted from 1
    lowlinks,
    frames,    \* the hand-rolled recursion: [node, rest], rest the children left
    sccs,      \* the components found, each as a set
    scc_stratum,
    passes,    \* relaxation passes begun
    pending,   \* the component edges this pass has still to relax
    changed,
    result,    \* "none" | "ok" | "cycle"
    cycle      \* the predicates CycleThroughNegation names

vars == <<edges, pc, start, stack, index_counter, indices, lowlinks, frames, sccs,
          scc_stratum, passes, pending, changed, result, cycle>>

search == <<start, stack, index_counter, indices, lowlinks, frames, sccs>>
verdict == <<result, cycle>>
relax  == <<scc_stratum, passes, pending, changed>>

None == 0

OutEdges(v) == {e \in edges : e[1] = v}
on_stack == {stack[i] : i \in 1..Len(stack)}
top_frame == frames[Len(frames)]
lower_frames == SubSeq(frames, 1, Len(frames) - 1)

Init ==
    /\ edges \in Graph
    /\ pc = "search"
    /\ start = 1
    /\ stack = <<>>
    /\ index_counter = 1
    /\ indices = [v \in Preds |-> None]
    /\ lowlinks = [v \in Preds |-> 0]
    /\ frames = <<>>
    /\ sccs = <<>>
    /\ scc_stratum = <<>>
    /\ passes = 0
    /\ pending = {}
    /\ changed = FALSE
    /\ result = "none"
    /\ cycle = {}

-----------------------------------------------------------------------------
(* tarjan_sccs.                                                            *)

(* Recurse into an undiscovered node: index it, push it and open a frame.  *)
Discover(v, below) ==
    /\ indices' = [indices EXCEPT ![v] = index_counter]
    /\ lowlinks' = [lowlinks EXCEPT ![v] = index_counter]
    /\ index_counter' = index_counter + 1
    /\ stack' = Append(stack, v)
    /\ frames' = Append(below, [node |-> v, rest |-> OutEdges(v)])

NextRoot ==
    /\ pc = "search" /\ frames = <<>> /\ start \in Preds
    /\ start' = start + 1
    /\ IF indices[start] # None
       THEN UNCHANGED <<index_counter, indices, lowlinks, stack, frames>>
       ELSE Discover(start, <<>>)
    /\ UNCHANGED <<edges, pc, sccs, relax, verdict>>

(* Mutant: a child that has left the stack still lowers the lowlink.       *)
VisitChild_off_stack ==
    /\ pc = "search" /\ frames # <<>>
    /\ LET top == top_frame
           v   == top.node
       IN \E e \in top.rest :
             LET w      == e[2]
                 popped == Append(lower_frames, [top EXCEPT !.rest = @ \ {e}])
             IN IF indices[w] = None
                THEN Discover(w, popped)
                ELSE /\ frames' = popped
                     /\ lowlinks' = IF indices[w] < lowlinks[v]
                                    THEN [lowlinks EXCEPT ![v] = indices[w]] ELSE lowlinks
                     /\ UNCHANGED <<stack, index_counter, indices>>
    /\ UNCHANGED <<edges, pc, start, sccs, relax, verdict>>

VisitChild ==
    /\ pc = "search" /\ frames # <<>>
    /\ LET top == top_frame
           v   == top.node
       IN \E e \in top.rest :
             LET w      == e[2]
                 popped == Append(lower_frames, [top EXCEPT !.rest = @ \ {e}])
             IN IF indices[w] = None
                THEN Discover(w, popped)
                ELSE /\ frames' = popped
                     /\ lowlinks' = IF w \in on_stack /\ indices[w] < lowlinks[v]
                                    THEN [lowlinks EXCEPT ![v] = indices[w]] ELSE lowlinks
                     /\ UNCHANGED <<stack, index_counter, indices>>
    /\ UNCHANGED <<edges, pc, start, sccs, relax, verdict>>

(* All children of the top frame are done: propagate its lowlink to the    *)
(* parent and, at a component's root, pop the component off the stack.     *)
CloseFrame ==
    /\ pc = "search" /\ frames # <<>> /\ top_frame.rest = {}
    /\ LET v == top_frame.node
       IN /\ frames' = lower_frames
          /\ lowlinks' = IF Len(frames) > 1
                         THEN LET parent == frames[Len(frames) - 1].node
                              IN IF lowlinks[v] < lowlinks[parent]
                                 THEN [lowlinks EXCEPT ![parent] = lowlinks[v]]
                                 ELSE lowlinks
                         ELSE lowlinks
          /\ IF lowlinks[v] = indices[v]
             THEN LET k == CHOOSE j \in 1..Len(stack) : stack[j] = v
                  IN /\ sccs' = Append(sccs, {stack[j] : j \in k..Len(stack)})
                     /\ stack' = SubSeq(stack, 1, k - 1)
             ELSE UNCHANGED <<sccs, stack>>
    /\ UNCHANGED <<edges, pc, start, index_counter, indices, relax, verdict>>

-----------------------------------------------------------------------------
(* Steps 3 to 5 of compute_strata.                                         *)

SearchDone ==
    /\ pc = "search" /\ frames = <<>> /\ start \notin Preds
    /\ pc' = "reject"
    /\ UNCHANGED <<edges, search, relax, verdict>>

(* Mutant: a negated self-loop is not seen as a cycle.                     *)
NegatedInside_no_self_loop(c) ==
    \E e \in edges : e[3] /\ e[1] \in c /\ e[2] \in c /\ e[1] # e[2]

NegatedInside(c) == \E e \in edges : e[3] /\ e[1] \in c /\ e[2] \in c

scc_of(v) == CHOOSE k \in 1..Len(sccs) : v \in sccs[k]

(* Component edges: parallel edges are merged and a negated one wins.      *)
scc_edges ==
    LET pairs == {<<scc_of(e[1]), scc_of(e[2])>> : e \in edges}
    IN {<<p[1], p[2], \E e \in edges :
                         e[3] /\ scc_of(e[1]) = p[1] /\ scc_of(e[2]) = p[2]>> :
           p \in {q \in pairs : q[1] # q[2]}}

(* A cycle through negation is reported at the first such component; with  *)
(* no component (an empty program) no pass is made.                        *)
Reject ==
    /\ pc = "reject"
    /\ LET bad == {k \in 1..Len(sccs) : NegatedInside(sccs[k])}
       IN IF bad # {}
          THEN /\ result' = "cycle"
               /\ cycle' = sccs[CHOOSE k \in bad : \A j \in bad : k <= j]
               /\ pc' = "done"
               /\ UNCHANGED relax
          ELSE /\ scc_stratum' = [k \in 1..Len(sccs) |-> 0]
               /\ passes' = 1
               /\ pending' = scc_edges
               /\ changed' = FALSE
               /\ pc' = "pass"
               /\ UNCHANGED verdict
    /\ UNCHANGED <<edges, search>>

Relax ==
    /\ pc = "pass"
    /\ \E e \in pending :
          LET candidate == scc_stratum[e[1]] + (IF e[3] THEN 1 ELSE 0)
          IN /\ pending' = pending \ {e}
             /\ IF candidate > scc_stratum[e[2]]
                THEN scc_stratum' = [scc_stratum EXCEPT ![e[2]] = candidate] /\ changed' = TRUE
                ELSE UNCHANGED <<scc_stratum, changed>>
    /\ UNCHANGED <<edges, pc, search, passes, verdict>>

(* Mutants: two passes too few; no limit and no test of the changed flag.    *)
EndPass_too_few ==
    /\ pc = "pass" /\ pending = {}
    /\ IF changed /\ passes + 2 < Len(sccs)
       THEN /\ passes' = passes + 1
            /\ pending' = scc_edges
            /\ changed' = FALSE
            /\ UNCHANGED <<pc, verdict>>
       ELSE /\ pc' = "done"
            /\ result' = "ok"
            /\ UNCHANGED <<passes, pending, changed, cycle>>
    /\ UNCHANGED <<edges, search, scc_stratum>>

EndPass_forever ==
    /\ pc = "pass" /\ pending = {}
    /\ pending' = scc_edges
    /\ changed' = FALSE
    /\ UNCHANGED <<edges, pc, search, scc_stratum, passes, verdict>>

EndPass ==
    /\ pc = "pass" /\ pending = {}
    /\ IF changed /\ passes < Len(sccs)
       THEN /\ passes' = passes + 1
            /\ pending' = scc_edges
            /\ changed' = FALSE
            /\ UNCHANGED <<pc, verdict>>
       ELSE /\ pc' = "done"
            /\ result' = "ok"
            /\ UNCHANGED <<passes, pending, changed, cycle>>
    /\ UNCHANGED <<edges, search, scc_stratum>>

Next == NextRoot \/ VisitChild \/ CloseFrame \/ SearchDone \/ Reject \/ Relax \/ EndPass

Spec == Init /\ [][Next]_vars /\ WF_vars(Next)

-----------------------------------------------------------------------------
(* Properties.                                                             *)

(* Reference: v is reachable from u when every set that holds u and is     *)
(* closed under the edges holds v.                                         *)
Reaches(u, v) ==
    \A S \in SUBSET Preds :
        u \in S /\ (\A e \in edges : e[1] \in S => e[2] \in S) => v \in S

(* tarjan_sccs returns exactly the classes of mutual reachability, each    *)
(* once, for every graph and every order of the edges.                     *)
ComponentsExact ==
    pc = "reject" =>
        /\ \A v \in Preds :
              \E k \in 1..Len(sccs) : sccs[k] = {w \in Preds : Reaches(v, w) /\ Reaches(w, v)}
        /\ \A j, k \in 1..Len(sccs) : sccs[j] \intersect sccs[k] # {} => j = k

(* A program is refused exactly when some negated goal lies on a cycle,    *)
(* and the cycle reported holds such a goal.                               *)
RejectsExactly ==
    pc = "done" =>
        LET recursiveNegation == {e \in edges : e[3] /\ Reaches(e[2], e[1])}
        IN IF recursiveNegation = {} THEN result = "ok"
           ELSE result = "cycle" /\ \E e \in recursiveNegation :
                   cycle = {w \in Preds : Reaches(e[1], w) /\ Reaches(w, e[1])}

stratum(v) == scc_stratum[scc_of(v)]

(* The strata returned order every goal before its head, strictly when the *)
(* goal is negated: scc_count passes are enough in every order of the      *)
(* edges.  This is what the evaluator relies on (DatalogSemantics,         *)
(* Stratified).  And they are the least such strata: a predicate above     *)
(* stratum 0 depends, within its stratum, on one that negates a predicate  *)
(* of the stratum just below.                                              *)
StrataAreLeast ==
    pc = "done" /\ result = "ok" =>
        /\ \A e \in edges : stratum(e[2]) >= stratum(e[1]) + (IF e[3] THEN 1 ELSE 0)
        /\ \A v \in Preds : stratum(v) > 0 =>
              \E e \in edges : /\ e[3] /\ stratum(e[1]) = stratum(v) - 1
                               /\ stratum(e[2]) = stratum(v) /\ Reaches(e[2], v)
=============================================================================
