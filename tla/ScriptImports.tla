---------------------------- MODULE ScriptImports ----------------------------
(***************************************************************************)
(* The module graph of a .pds script: ModuleGraph::build_from_root of      *)
(* import_resolve.rs.  The recursion of dfs is a pair of sequences, the    *)
(* active stack and the position each activation has reached among the     *)
(* imports of its header; `entering` holds the argument of a call whose    *)
(* body has not begun, or nothing.  A path is a location as the search     *)
(* spells it: nothing is canonicalised, two spellings are two paths.       *)
(***************************************************************************)
EXTENDS Integers, Sequences

CONSTANTS
    Path,          \* locations, as spelled
    Name,          \* the quoted paths of #import pragmas
    Alias,
    Dir,           \* search roots
    SearchList,    \* the project root, then the system paths
    PathJoin,      \* Path::join
    root,          \* the entry script
    FileSystems    \* the file systems to walk: Path -> File

Import == [path : Name, alias : Alias]
File == [exists : BOOLEAN, parses : BOOLEAN, imports : Seq(Import)]

ASSUME SearchAssumption ==
    /\ SearchList \in Seq(Dir)
    /\ PathJoin \in [Dir \X Name -> Path]
    /\ root \in Path
    /\ FileSystems \subseteq [Path -> File]

VARIABLES
    files,         \* what is on disk; it does not change during a walk
    importing,     \* stack: the active paths
    position,      \* the import each of them is at
    entering,      \* {} or {the argument of a dfs call not yet begun}
    visited,
    graph_edges,   \* ModuleGraph::edges
    graph_resolved,
    outcome        \* [kind, path, tried]

importVars == <<files, importing, position, entering, visited,
                graph_edges, graph_resolved, outcome>>

Kinds == {"running", "Ok", "NotFound", "Cycle", "ParseError"}
Result(kind, path, tried) == [kind |-> kind, path |-> path, tried |-> tried]
Running == outcome.kind = "running"

ImportTypeOK ==
    /\ files \in [Path -> File]
    /\ importing \in Seq(Path)
    /\ position \in Seq(Nat)
    /\ entering \in SUBSET Path
    /\ visited \in SUBSET Path
    /\ graph_edges \in Seq(Path \X Alias)
    /\ graph_resolved \in SUBSET Path
    /\ outcome \in [kind : Kinds, path : Seq(Path), tried : Seq(Path)]

-----------------------------------------------------------------------------
(* resolve_one: the first search root under which the import exists.       *)
candidate(entry, k) == PathJoin[<<SearchList[k], entry.path>>]
candidates(entry) == [k \in 1..Len(SearchList) |-> candidate(entry, k)]
ResolvesTo(entry, p) ==
    \E k \in 1..Len(SearchList) :
        /\ p = candidate(entry, k)
        /\ files[p].exists
        /\ \A j \in 1..(k - 1) : ~files[candidate(entry, j)].exists

Resolves(entry) == \E k \in 1..Len(SearchList) : files[candidate(entry, k)].exists

-----------------------------------------------------------------------------
ImportInit ==
    /\ files \in FileSystems
    /\ importing = <<>>
    /\ position = <<>>
    /\ entering = {root}
    /\ visited = {}
    /\ graph_edges = <<>>
    /\ graph_resolved = {}
    /\ outcome = Result("running", <<>>, <<>>)

Top == importing[Len(importing)]
Imports(p) == files[p].imports
Entry == Imports(Top)[position[Len(position)]]

(* Mutant: a module met before counts as an active one.                    *)
OnStack_or_done(current) == current \in graph_resolved

(* The prologue of dfs(current): the call closes a cycle, ...              *)
OnStack(current) == \E i \in 1..Len(importing) : importing[i] = current

(* Mutant: an active module is skipped like a finished one.                *)
BackEdge_skipped ==
    /\ Running
    /\ \E current \in entering : OnStack(current)
    /\ entering' = {}
    /\ UNCHANGED <<files, importing, position, visited, graph_edges, graph_resolved, outcome>>

BackEdge ==
    /\ Running
    /\ \E current \in entering :
          /\ OnStack(current)
          /\ outcome' = Result("Cycle", Append(importing, current), <<>>)
    /\ entering' = {}
    /\ UNCHANGED <<files, importing, position, visited, graph_edges, graph_resolved>>

(* Mutant: finished modules are walked again.                              *)
Finished_never(current) == FALSE

(* ... or meets a finished module and returns, ...                         *)
Finished(current) == current \in visited

Shortcut ==
    /\ Running
    /\ \E current \in entering : ~OnStack(current) /\ Finished(current)
    /\ entering' = {}
    /\ UNCHANGED <<files, importing, position, visited, graph_edges, graph_resolved, outcome>>

(* ... or pushes the module and parses it.  The parser is the caller's; it *)
(* fails on a file that is not there as on one it cannot parse.            *)
Parses(p) == files[p].exists /\ files[p].parses

ParseFails ==
    /\ Running
    /\ \E current \in entering :
          /\ ~OnStack(current) /\ ~Finished(current) /\ ~Parses(current)
          /\ outcome' = Result("ParseError", <<current>>, <<>>)
    /\ entering' = {}
    /\ UNCHANGED <<files, importing, position, visited, graph_edges, graph_resolved>>

Push ==
    /\ Running
    /\ \E current \in entering :
          /\ ~OnStack(current) /\ ~Finished(current) /\ Parses(current)
          /\ importing' = Append(importing, current)
          /\ graph_resolved' = graph_resolved \union {current}
    /\ position' = Append(position, 1)
    /\ entering' = {}
    /\ UNCHANGED <<files, visited, graph_edges, outcome>>

Idle == Running /\ entering = {} /\ importing # <<>>

Exhausted == position[Len(position)] > Len(Imports(Top))

(* The next import of the module on top: its edge, then the call.          *)
Follow ==
    /\ Idle /\ ~Exhausted
    /\ \E p \in Path :
          /\ ResolvesTo(Entry, p)
          /\ entering' = {p}
    /\ position' = [position EXCEPT ![Len(position)] = @ + 1]
    /\ graph_edges' = Append(graph_edges, <<Top, Entry.alias>>)
    /\ UNCHANGED <<files, importing, visited, graph_resolved, outcome>>

Unresolved ==
    /\ Idle /\ ~Exhausted
    /\ ~Resolves(Entry)
    /\ outcome' = Result("NotFound", <<>>, candidates(Entry))
    /\ UNCHANGED <<files, importing, position, entering, visited, graph_edges, graph_resolved>>

ButLast(s) == SubSeq(s, 1, Len(s) - 1)

(* Every import is done: the activation returns.                           *)
Leave ==
    /\ Idle /\ Exhausted
    /\ importing' = ButLast(importing)
    /\ position' = ButLast(position)
    /\ visited' = visited \union {Top}
    /\ UNCHANGED <<files, entering, graph_edges, graph_resolved, outcome>>

Finish ==
    /\ Running /\ entering = {} /\ importing = <<>>
    /\ outcome' = Result("Ok", <<>>, <<>>)
    /\ UNCHANGED <<files, importing, position, entering, visited, graph_edges, graph_resolved>>

ImportNext ==
    BackEdge \/ Shortcut \/ ParseFails \/ Push \/ Follow \/ Unresolved \/ Leave \/ Finish

ImportSpec == ImportInit /\ [][ImportNext]_importVars /\ WF_importVars(ImportNext)

-----------------------------------------------------------------------------
(* What the files on disk say, whatever the walk does.                     *)
Depends(p, q) ==
    Parses(p) /\ \E k \in 1..Len(Imports(p)) : ResolvesTo(Imports(p)[k], q)

Complete(p) == Parses(p) /\ \A k \in 1..Len(Imports(p)) : Resolves(Imports(p)[k])

Closed(S) == root \in S /\ \A p \in S : \A q \in Path : Depends(p, q) => q \in S

Reachable == {p \in Path : \A S \in SUBSET Path : Closed(S) => p \in S}

(* Every member imports a member: a finite set of this kind holds a cycle. *)
Circular(S) == S # {} /\ \A p \in S : \E q \in S : Depends(p, q)

(* build_from_root returns a graph only if every script the root needs is  *)
(* there, parses and can be loaded in some order: the graph then holds     *)
(* exactly these scripts and there is no cycle among them.                 *)
GraphIsLoadable ==
    outcome.kind = "Ok" =>
        /\ graph_resolved = Reachable
        /\ \A p \in Reachable : Complete(p)
        /\ \A S \in SUBSET Reachable : ~Circular(S)

(* Each refusal of build_from_root has its cause in the files the root     *)
(* needs: a Cycle names a chain of imports from the root back into itself, *)
(* a NotFound lists every location of an import that exists in none, and a *)
(* ParseError names a needed script that does not parse.                   *)
RefusalsHaveCauses ==
    /\ outcome.kind = "Cycle" =>
          LET c == outcome.path
              n == Len(c)
          IN  /\ n > 1 /\ c[1] = root
              /\ \A i \in 1..(n - 1) : Depends(c[i], c[i + 1])
              /\ \E i \in 1..(n - 1) : c[i] = c[n]
    /\ outcome.kind = "NotFound" =>
          \E p \in Reachable : \E k \in 1..Len(Imports(p)) :
              /\ Parses(p) /\ ~Resolves(Imports(p)[k])
              /\ outcome.tried = candidates(Imports(p)[k])
    /\ outcome.kind = "ParseError" =>
          outcome.path[1] \in Reachable /\ ~Parses(outcome.path[1])

(* The edge of the k-th import of p, and where the edges of its first n    *)
(* are: at[k] is the place of the k-th, and p has no other.                *)
HeaderEdge(p, k) == <<p, Imports(p)[k].alias>>

PlacesOf(at, p, n) ==
    /\ \A k \in 1..n : graph_edges[at[k]] = HeaderEdge(p, k)
    /\ \A k, l \in 1..n : k < l => at[k] < at[l]
    /\ \A m \in DOMAIN graph_edges :
          graph_edges[m][1] = p => \E k \in 1..n : at[k] = m

EdgesFor(p, n) == \E at \in [1..n -> DOMAIN graph_edges] : PlacesOf(at, p, n)

(* A module several scripts import is walked once and still has an edge    *)
(* from each of them: the edges out of a finished module are its imports,  *)
(* each once and in the order of its header.                               *)
EdgesMatchHeaders == \A p \in visited : EdgesFor(p, Len(Imports(p)))
=============================================================================
