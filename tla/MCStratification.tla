-------------------------- MODULE MCStratification --------------------------
(***************************************************************************)
(* All graphs over Count predicates with fewer than MaxEdges edges, and    *)
(* those with MaxEdges edges, at most MaxNegated of them negated; among    *)
(* them parallel positive and negated edges, chains and cycles; self-loops *)
(* on predicate 1 only, to keep the set small.                             *)
(***************************************************************************)
EXTENDS Stratification, SequencesExt

CONSTANTS MaxEdges, MaxNegated

MCEdges == {e \in Preds \X Preds \X BOOLEAN : e[1] # e[2] \/ e[1] = 1}

MCGraphs[k \in 0..MaxEdges] ==
    IF k = 0 THEN {{}}
    ELSE LET smaller == MCGraphs[k - 1]
         IN  smaller \union {g \union {e} : g \in smaller, e \in MCEdges}

MCGraph ==
    {g \in MCGraphs[MaxEdges] :
        Cardinality(g) < MaxEdges \/ Cardinality({e \in g : e[3]}) <= MaxNegated}
=============================================================================
