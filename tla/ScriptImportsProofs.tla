------------------------- MODULE ScriptImportsProofs -------------------------
(***************************************************************************)
(* For every file system, search list and root: a graph the walk returns   *)
(* is complete and free of cycles, and every refusal has its cause on      *)
(* disk.  The invariant says what the walk knows at each moment: finished  *)
(* modules depend on finished modules only, the active stack is a chain of *)
(* imports from the root without repetition, and an import already passed  *)
(* by an active module is finished or is the next one up the stack.        *)
(***************************************************************************)
EXTENDS ScriptImports, SequenceTheorems, TLAPS

Active == 1..Len(importing)

(* The i-th active module has handed q on to the walk.                     *)
Handled(i, q) ==
    \/ q \in visited
    \/ i < Len(importing) /\ q = importing[i + 1]
    \/ i = Len(importing) /\ q \in entering

StackInv ==
    /\ Len(position) = Len(importing)
    /\ importing # <<>> => importing[1] = root
    /\ \A i \in Active :
          /\ Parses(importing[i])
          /\ importing[i] \notin visited
          /\ importing[i] \in Reachable
          /\ position[i] \in 1..(Len(Imports(importing[i])) + 1)
    /\ \A i, j \in Active : importing[i] = importing[j] => i = j
    /\ \A i \in Active : i < Len(importing) => Depends(importing[i], importing[i + 1])

PassedInv ==
    \A i \in Active : \A k \in 1..(position[i] - 1) :
        /\ Resolves(Imports(importing[i])[k])
        /\ \A q \in Path : ResolvesTo(Imports(importing[i])[k], q) => Handled(i, q)

EnteringInv ==
    /\ \A p, q \in entering : p = q
    /\ \A p \in entering :
          /\ p \in Reachable
          /\ IF importing = <<>> THEN p = root ELSE Depends(Top, p)
    /\ root \in visited \/ importing # <<>> \/ root \in entering

VisitedInv ==
    /\ visited \subseteq Reachable
    /\ \A p \in visited : Complete(p)
    /\ \A p \in visited : \A q \in Path : Depends(p, q) => q \in visited
    /\ \A S \in SUBSET visited : ~Circular(S)
    /\ graph_resolved = visited \union {importing[i] : i \in Active}

WalkInv ==
    /\ ImportTypeOK
    /\ Running => StackInv /\ PassedInv /\ EnteringInv /\ VisitedInv
    /\ GraphIsLoadable
    /\ RefusalsHaveCauses

-----------------------------------------------------------------------------
(* resolve_one finds one place at most: the first that exists.             *)
LEMMA OnePlace ==
  ASSUME NEW e, NEW p, NEW q, ResolvesTo(e, p), ResolvesTo(e, q)
  PROVE  p = q
<1>1. Len(SearchList) \in Nat
  BY SearchAssumption
<1>2. PICK k \in 1..Len(SearchList) :
        p = candidate(e, k) /\ files[p].exists
        /\ \A j \in 1..(k - 1) : ~files[candidate(e, j)].exists
  BY DEF ResolvesTo
<1>3. PICK l \in 1..Len(SearchList) :
        q = candidate(e, l) /\ files[q].exists
        /\ \A j \in 1..(l - 1) : ~files[candidate(e, j)].exists
  BY DEF ResolvesTo
<1>4. k = l
  BY <1>1, <1>2, <1>3
<1> QED
  BY <1>2, <1>3, <1>4

(* A place found is a place where the import exists.                       *)
LEMMA FoundResolves ==
  ASSUME NEW e, NEW p, ResolvesTo(e, p)
  PROVE  Resolves(e)
BY DEF ResolvesTo, Resolves

(* What the root needs, needs what it needs.                               *)
LEMMA ReachableClosed ==
  /\ root \in Reachable
  /\ \A p \in Reachable : \A q \in Path : Depends(p, q) => q \in Reachable
BY SearchAssumption DEF Reachable, Closed

(* The walk does not write: what the files say stays what they say.        *)
LEMMA FilesStay ==
  ASSUME files' = files
  PROVE  /\ Reachable' = Reachable
         /\ \A p : Parses(p)' = Parses(p) /\ Complete(p)' = Complete(p)
                  /\ Imports(p)' = Imports(p)
         /\ \A p, q : Depends(p, q)' = Depends(p, q) /\ ResolvesTo(p, q)' = ResolvesTo(p, q)
         /\ \A e : Resolves(e)' = Resolves(e)
         /\ \A S : Circular(S)' = Circular(S)
<1>1. \A e, q : ResolvesTo(e, q)' = ResolvesTo(e, q)
  BY DEF ResolvesTo, candidate
<1>2. \A e : Resolves(e)' = Resolves(e)
  BY DEF Resolves, candidate
<1>3. \A p : Parses(p)' = Parses(p) /\ Imports(p)' = Imports(p)
  BY DEF Parses, Imports
<1>4. \A p, q : Depends(p, q)' = Depends(p, q)
  BY <1>1, <1>3 DEF Depends
<1>5. \A p : Complete(p)' = Complete(p)
  BY <1>2, <1>3 DEF Complete
<1>6. \A S : Circular(S)' = Circular(S)
  BY <1>4 DEF Circular
<1>7. Reachable' = Reachable
  BY <1>4 DEF Reachable, Closed
<1> QED
  BY <1>1, <1>2, <1>3, <1>4, <1>5, <1>6, <1>7

(* The entry the top of the stack is at.                                   *)
LEMMA EntryTyped ==
  ASSUME ImportTypeOK, StackInv, importing # <<>>, ~Exhausted
  PROVE  /\ Len(importing) \in Active /\ Top \in Path
         /\ position[Len(importing)] \in 1..Len(Imports(Top))
         /\ Entry \in Import
<1>1. importing \in Seq(Path) /\ position \in Seq(Nat) /\ Len(importing) \in Nat \ {0}
  BY DEF ImportTypeOK
<1>2. Len(importing) \in Active /\ Top \in Path
  BY <1>1 DEF Active, Top
<1>3. Imports(Top) \in Seq(Import)
  BY <1>2 DEF ImportTypeOK, Imports, File
<1>4. position[Len(importing)] \in 1..(Len(Imports(Top)) + 1)
  BY <1>2 DEF StackInv, Top
<1>5. position[Len(importing)] \in 1..Len(Imports(Top))
  BY <1>3, <1>4 DEF Exhausted, StackInv
<1>6. Imports(Top)[position[Len(importing)]] \in Import
  BY <1>3, <1>5
<1> QED
  BY <1>2, <1>5, <1>6 DEF Entry, StackInv

(* The list of the places tried is a list of paths.                        *)
LEMMA CandidatesTyped ==
  ASSUME NEW e \in Import
  PROVE  candidates(e) \in Seq(Path)
<1>1. Len(SearchList) \in Nat
  BY SearchAssumption
<1>2. \A k \in 1..Len(SearchList) : candidate(e, k) \in Path
  BY SearchAssumption DEF candidate, Import
<1> QED
  BY <1>1, <1>2 DEF candidates

(* Every step keeps the types.                                             *)
LEMMA StepTyped ==
  ASSUME WalkInv, [ImportNext]_importVars
  PROVE  ImportTypeOK'
<1> USE DEF ImportTypeOK, Result, Kinds
<1>1. CASE BackEdge
  BY <1>1 DEF WalkInv, BackEdge
<1>2. CASE Shortcut
  BY <1>2 DEF WalkInv, Shortcut
<1>3. CASE ParseFails
  BY <1>3 DEF WalkInv, ParseFails
<1>4. CASE Push
  BY <1>4 DEF WalkInv, Push
<1>5. CASE Follow
  <2>1. Top \in Path /\ Entry.alias \in Alias
    BY <1>5, EntryTyped DEF WalkInv, Follow, Idle, Import
  <2>2. graph_edges' \in Seq(Path \X Alias)
    BY <1>5, <2>1 DEF WalkInv, Follow
  <2>3. position' \in Seq(Nat)
    <3>1. position \in Seq(Nat)
      BY DEF WalkInv
    <3>2. position' = [position EXCEPT ![Len(position)] = position[Len(position)] + 1]
      BY <1>5 DEF Follow
    <3>3. Len(position) \in 1..Len(position) /\ position[Len(position)] + 1 \in Nat
      BY <1>5, <3>1 DEF WalkInv, Follow, Idle, StackInv
    <3> QED
      BY <3>1, <3>2, <3>3, ExceptSeq
  <2> QED
    BY <1>5, <2>2, <2>3 DEF WalkInv, Follow
<1>6. CASE Unresolved
  <2>1. candidates(Entry) \in Seq(Path)
    BY <1>6, EntryTyped, CandidatesTyped DEF WalkInv, Unresolved, Idle
  <2> QED
    BY <1>6, <2>1 DEF WalkInv, Unresolved
<1>7. CASE Leave
  <2>1. importing \in Seq(Path) /\ position \in Seq(Nat) /\ Len(importing) \in Nat \ {0}
        /\ Len(position) = Len(importing)
    BY <1>7 DEF WalkInv, Leave, Idle, StackInv
  <2>2. importing' \in Seq(Path) /\ position' \in Seq(Nat) /\ Top \in Path
    BY <1>7, <2>1 DEF Leave, ButLast, Top
  <2> QED
    BY <1>7, <2>2 DEF WalkInv, Leave
<1>8. CASE Finish
  BY <1>8 DEF WalkInv, Finish
<1>9. CASE UNCHANGED importVars
  BY <1>9 DEF WalkInv, importVars
<1> QED
  BY <1>1, <1>2, <1>3, <1>4, <1>5, <1>6, <1>7, <1>8, <1>9 DEF ImportNext

-----------------------------------------------------------------------------
(* A call onto the active stack closes a chain of imports from the root.   *)
LEMMA BackEdgeHasCause ==
  ASSUME WalkInv, BackEdge
  PROVE  ~Running' /\ GraphIsLoadable' /\ RefusalsHaveCauses'
<1>0. Running /\ files' = files /\ StackInv /\ EnteringInv
  BY DEF WalkInv, BackEdge
<1>1. PICK current \in entering :
        /\ OnStack(current)
        /\ outcome' = Result("Cycle", Append(importing, current), <<>>)
  BY DEF BackEdge
<1> DEFINE c == Append(importing, current)
<1>2. importing \in Seq(Path) /\ current \in Path /\ Len(importing) \in Nat
  BY <1>1 DEF WalkInv, ImportTypeOK
<1>3. PICK m \in 1..Len(importing) : importing[m] = current
  BY <1>1 DEF OnStack
<1>4. /\ Len(c) = Len(importing) + 1 /\ c[Len(c)] = current
      /\ \A i \in 1..Len(importing) : c[i] = importing[i]
  BY <1>2
<1>5. importing # <<>> /\ Len(importing) >= 1
  BY <1>2, <1>3
<1>6. c[1] = root
  BY <1>0, <1>2, <1>4, <1>5 DEF StackInv
<1>7. ASSUME NEW i \in 1..(Len(c) - 1)
      PROVE  Depends(c[i], c[i + 1])
  <2>1. CASE i < Len(importing)
    BY <1>0, <1>2, <1>4, <2>1 DEF StackInv, Active
  <2>2. CASE i = Len(importing)
    BY <1>0, <1>1, <1>2, <1>4, <1>5, <2>2 DEF EnteringInv, Top
  <2> QED
    BY <1>2, <1>4, <2>1, <2>2
<1>8. \E i \in 1..(Len(c) - 1) : c[i] = c[Len(c)]
  BY <1>2, <1>3, <1>4
<1>9. outcome'.kind = "Cycle" /\ outcome'.path = c
  BY <1>1 DEF Result
<1>10. ~Running' /\ GraphIsLoadable'
  BY <1>9 DEF Running, GraphIsLoadable
<1>11. \A p, q : Depends(p, q)' = Depends(p, q)
  BY <1>0, FilesStay
<1> HIDE DEF c
<1>12. RefusalsHaveCauses'
  BY <1>2, <1>4, <1>5, <1>6, <1>7, <1>8, <1>9, <1>11 DEF RefusalsHaveCauses
<1> QED
  BY <1>10, <1>12

(* A module the parser refuses is one the root needs.                      *)
LEMMA ParseFailureHasCause ==
  ASSUME WalkInv, ParseFails
  PROVE  ~Running' /\ GraphIsLoadable' /\ RefusalsHaveCauses'
<1>0. Running /\ files' = files /\ EnteringInv
  BY DEF WalkInv, ParseFails
<1>1. PICK current \in entering :
        ~Parses(current) /\ outcome' = Result("ParseError", <<current>>, <<>>)
  BY DEF ParseFails
<1>2. outcome'.kind = "ParseError" /\ outcome'.path[1] = current
  BY <1>1 DEF Result
<1>3. current \in Reachable
  BY <1>0, <1>1 DEF EnteringInv
<1>4. current \in Reachable' /\ ~Parses(current)'
  BY <1>0, <1>1, <1>3, FilesStay
<1>5. (~Parses(outcome.path[1]))'
  BY <1>2, <1>4
<1> QED
  BY <1>2, <1>4, <1>5 DEF Running, GraphIsLoadable, RefusalsHaveCauses

(* An import that is nowhere is an import of a module the root needs.      *)
LEMMA UnresolvedHasCause ==
  ASSUME WalkInv, Unresolved
  PROVE  ~Running' /\ GraphIsLoadable' /\ RefusalsHaveCauses'
<1>0. Running /\ files' = files /\ StackInv /\ importing # <<>> /\ ~Exhausted /\ ImportTypeOK
  BY DEF WalkInv, Unresolved, Idle
<1>1. /\ Len(importing) \in Active /\ position[Len(importing)] \in 1..Len(Imports(Top))
      /\ position[Len(importing)] = position[Len(position)]
  BY <1>0, EntryTyped DEF StackInv
<1>2. Top \in Reachable /\ Parses(Top)
  BY <1>0, <1>1 DEF StackInv, Top
<1> DEFINE k == position[Len(importing)]
<1>3. Imports(Top)[k] = Entry /\ ~Resolves(Entry)
  BY <1>1 DEF Entry, Unresolved
<1>4. outcome'.kind = "NotFound" /\ outcome'.tried = candidates(Entry)
  BY DEF Unresolved, Result
<1> HIDE DEF k
<1>5. \E p \in Reachable : \E j \in 1..Len(Imports(p)) :
        /\ Parses(p) /\ ~Resolves(Imports(p)[j])
        /\ outcome'.tried = candidates(Imports(p)[j])
  BY <1>1, <1>2, <1>3, <1>4 DEF k
<1>6. \A e : candidates(e)' = candidates(e)
  BY DEF candidates, candidate
<1>7. Reachable' = Reachable
  BY <1>0, FilesStay
<1>8. \A p : Imports(p)' = Imports(p) /\ Parses(p)' = Parses(p)
  BY <1>0, FilesStay
<1>9. \A e : Resolves(e)' = Resolves(e)
  BY <1>0, FilesStay
<1>10. (\E p \in Reachable : \E j \in 1..Len(Imports(p)) :
          /\ Parses(p) /\ ~Resolves(Imports(p)[j])
          /\ outcome.tried = candidates(Imports(p)[j]))'
  BY <1>5, <1>6, <1>7, <1>8, <1>9
<1> QED
  BY <1>4, <1>10 DEF Running, GraphIsLoadable, RefusalsHaveCauses

(* When the first activation has returned, what is finished is exactly     *)
(* what the root needs.                                                    *)
LEMMA FinishedIsNeeded ==
  ASSUME WalkInv, Finish
  PROVE  ~Running' /\ GraphIsLoadable' /\ RefusalsHaveCauses'
<1>0. /\ Running /\ files' = files /\ entering = {} /\ importing = <<>>
      /\ EnteringInv /\ VisitedInv /\ ImportTypeOK
      /\ graph_resolved' = graph_resolved
  BY DEF WalkInv, Finish
<1>1. Closed(visited)
  BY <1>0 DEF EnteringInv, VisitedInv, Closed
<1>2. Reachable = visited
  BY <1>0, <1>1 DEF Reachable, VisitedInv, ImportTypeOK
<1>3. graph_resolved = visited
  BY <1>0 DEF VisitedInv, Active
<1>4. (\A p \in visited : Complete(p)) /\ (\A S \in SUBSET visited : ~Circular(S))
  BY <1>0 DEF VisitedInv
<1>5. outcome'.kind = "Ok"
  BY DEF Finish, Result
<1>6. Reachable' = visited /\ (\A p : Complete(p)' = Complete(p))
      /\ (\A S : Circular(S)' = Circular(S))
  BY <1>0, <1>2, FilesStay
<1>7. GraphIsLoadable'
  BY <1>0, <1>3, <1>4, <1>6 DEF GraphIsLoadable
<1> QED
  BY <1>5, <1>7 DEF Running, RefusalsHaveCauses

-----------------------------------------------------------------------------
RunInv == StackInv /\ PassedInv /\ EnteringInv /\ VisitedInv

(* A finished module is not walked again, and is finished.                 *)
LEMMA ShortcutKeeps ==
  ASSUME WalkInv, Shortcut
  PROVE  RunInv'
<1>0. /\ Running /\ files' = files /\ RunInv /\ entering' = {}
      /\ UNCHANGED <<importing, position, visited, graph_resolved>>
  BY DEF WalkInv, Shortcut, RunInv
<1>1. \A q \in entering : q \in visited
  BY <1>0 DEF Shortcut, Finished, RunInv, EnteringInv
<1>2. StackInv' /\ VisitedInv'
  BY <1>0, FilesStay DEF RunInv, StackInv, VisitedInv, Active
<1>3. \A i, q : Handled(i, q) => Handled(i, q)'
  BY <1>0, <1>1 DEF Handled
<1>4. PassedInv'
  BY <1>0, <1>3, FilesStay DEF RunInv, PassedInv, Active
<1>5. EnteringInv'
  BY <1>0, <1>1 DEF RunInv, EnteringInv
<1> QED
  BY <1>2, <1>4, <1>5 DEF RunInv

(* A module that begins extends the chain.                                 *)
LEMMA PushKeeps ==
  ASSUME WalkInv, Push
  PROVE  RunInv'
<1>0. /\ Running /\ files' = files /\ RunInv /\ entering' = {} /\ ImportTypeOK
      /\ UNCHANGED visited
  BY DEF WalkInv, Push, RunInv
<1>1. PICK current \in entering :
        /\ ~OnStack(current) /\ ~Finished(current) /\ Parses(current)
        /\ importing' = Append(importing, current)
        /\ graph_resolved' = graph_resolved \union {current}
  BY DEF Push
<1> DEFINE n == Len(importing)
<1>2. /\ importing \in Seq(Path) /\ position \in Seq(Nat) /\ n \in Nat /\ Len(position) = n
      /\ current \in Path
  BY <1>0, <1>1 DEF ImportTypeOK, RunInv, StackInv
<1>3. position' = Append(position, 1)
  BY DEF Push
<1>4. /\ Len(importing') = n + 1 /\ Len(position') = n + 1
      /\ importing'[n + 1] = current /\ position'[n + 1] = 1
      /\ \A i \in 1..n : importing'[i] = importing[i] /\ position'[i] = position[i]
  BY <1>1, <1>2, <1>3
<1>5. Active' = Active \union {n + 1} /\ Active = 1..n
  BY <1>2, <1>4 DEF Active
<1>6. \A q \in entering : q = current
  BY <1>0, <1>1 DEF RunInv, EnteringInv
<1>7. current \in Reachable /\ current \notin visited
      /\ (\A i \in 1..n : importing[i] # current)
  BY <1>0, <1>1 DEF RunInv, EnteringInv, OnStack, Finished
<1> HIDE DEF n
<1>8. StackInv'
  <2>1. importing' # <<>> /\ importing'[1] = root
    <3>1. CASE n = 0
      <4>1. importing = <<>>
        BY <1>2, <3>1 DEF n
      <4> QED
        BY <1>0, <1>1, <1>4, <3>1, <4>1 DEF RunInv, EnteringInv
    <3>2. CASE n # 0
      <4>1. importing # <<>> /\ 1 \in 1..n
        BY <1>2, <3>2 DEF n
      <4> QED
        BY <1>0, <1>2, <1>4, <4>1 DEF RunInv, StackInv, n
    <3> QED
      BY <3>1, <3>2
  <2>2. ASSUME NEW i \in Active'
        PROVE  (/\ Parses(importing[i])
                /\ importing[i] \notin visited
                /\ importing[i] \in Reachable
                /\ position[i] \in 1..(Len(Imports(importing[i])) + 1))'
    <3>1. CASE i \in 1..n
      BY <1>0, <1>4, <1>5, <3>1, FilesStay DEF RunInv, StackInv
    <3>2. CASE i = n + 1
      <4>1. Imports(current) \in Seq(Import)
        BY <1>0, <1>2 DEF ImportTypeOK, Imports, File
      <4>2. 1 \in 1..(Len(Imports(current)) + 1)
        BY <4>1
      <4> QED
        BY <1>0, <1>1, <1>4, <1>7, <3>2, <4>2, FilesStay
    <3> QED
      BY <1>5, <3>1, <3>2
  <2>3. ASSUME NEW i \in Active', NEW j \in Active', importing'[i] = importing'[j]
        PROVE  i = j
    BY <1>0, <1>4, <1>5, <1>7, <2>3 DEF RunInv, StackInv
  <2>4. ASSUME NEW i \in Active', i < n + 1
        PROVE  Depends(importing'[i], importing'[i + 1])
    <3>1. i \in 1..n
      BY <1>2, <1>5, <2>4
    <3>2. CASE i < n
      <4>1. i + 1 \in 1..n
        BY <1>2, <3>1, <3>2
      <4> QED
        BY <1>0, <1>4, <1>5, <3>1, <3>2, <4>1 DEF RunInv, StackInv, n
    <3>3. CASE i = n
      <4>1. importing # <<>> /\ Top = importing[n]
        BY <1>2, <3>1, <3>3 DEF Top, n
      <4> QED
        BY <1>0, <1>1, <1>4, <3>1, <3>3, <4>1 DEF RunInv, EnteringInv
    <3> QED
      BY <1>2, <3>1, <3>2, <3>3
  <2>5. (\A i \in Active : i < Len(importing) => Depends(importing[i], importing[i + 1]))'
    <3>1. \A p, q : Depends(p, q)' = Depends(p, q)
      BY <1>0, FilesStay
    <3> QED
      BY <1>4, <2>4, <3>1
  <2> QED
    BY <1>4, <2>1, <2>2, <2>3, <2>5 DEF StackInv
<1>9. PassedInv'
  <2> SUFFICES ASSUME NEW i \in Active', NEW k \in 1..(position'[i] - 1)
               PROVE  /\ Resolves(Imports(importing'[i])[k])
                      /\ \A q \in Path : ResolvesTo(Imports(importing'[i])[k], q)
                                          => Handled(i, q)'
    BY <1>0, FilesStay DEF PassedInv
  <2>1. i \in 1..n
    BY <1>2, <1>4, <1>5
  <2>2. \A q : Handled(i, q) => Handled(i, q)'
    BY <1>2, <1>0, <1>4, <1>6, <2>1 DEF Handled, n
  <2> QED
    BY <1>0, <1>4, <1>5, <2>1, <2>2 DEF RunInv, PassedInv
<1>10. EnteringInv'
  BY <1>0, <1>2, <1>4 DEF EnteringInv
<1>11. VisitedInv'
  <2>1. {importing'[i] : i \in Active'} = {importing[i] : i \in Active} \union {current}
    BY <1>4, <1>5
  <2>2. graph_resolved' = visited' \union {importing'[i] : i \in Active'}
    BY <1>0, <1>1, <2>1, Zenon DEF RunInv, VisitedInv
  <2> QED
    BY <1>0, <2>2, FilesStay DEF RunInv, VisitedInv
<1> QED
  BY <1>8, <1>9, <1>10, <1>11 DEF RunInv

(* An import followed is handed on.                                        *)
LEMMA FollowKeeps ==
  ASSUME WalkInv, Follow
  PROVE  RunInv'
<1>0. /\ Running /\ files' = files /\ RunInv /\ ImportTypeOK
      /\ UNCHANGED <<importing, visited, graph_resolved>>
      /\ entering = {} /\ importing # <<>> /\ ~Exhausted
  BY DEF WalkInv, Follow, RunInv, Idle
<1> DEFINE n == Len(importing)
<1>1. PICK target \in Path : ResolvesTo(Entry, target) /\ entering' = {target}
  BY DEF Follow
<1>2. /\ n \in Active /\ Top \in Path /\ position[n] \in 1..Len(Imports(Top))
      /\ Len(position) = n /\ n \in Nat \ {0} /\ position \in Seq(Nat)
  BY <1>0, EntryTyped DEF RunInv, StackInv, ImportTypeOK
<1>3. Entry = Imports(Top)[position[n]] /\ Top = importing[n]
  BY <1>2 DEF Entry, Top
<1>4. Imports(Top) \in Seq(Import)
  BY <1>0, <1>2 DEF ImportTypeOK, Imports, File
<1>5. /\ Len(position') = n /\ position'[n] = position[n] + 1
      /\ \A i \in 1..n : i # n => position'[i] = position[i]
  <2>1. position' = [position EXCEPT ![n] = position[n] + 1]
    BY <1>2 DEF Follow
  <2>2. n \in 1..Len(position) /\ position[n] + 1 \in Nat
    BY <1>2
  <2> QED
    BY <1>2, <2>1, <2>2, ExceptSeq
<1>6. Active' = Active /\ Active = 1..n
  BY <1>0 DEF Active
<1>7. Depends(Top, target)
  BY <1>0, <1>1, <1>2, <1>3 DEF Depends, RunInv, StackInv
<1> HIDE DEF n
<1>8. StackInv'
  <2>1. \A i \in Active : position'[i] \in 1..(Len(Imports(importing[i])) + 1)
    <3> SUFFICES ASSUME NEW i \in Active
                 PROVE  position'[i] \in 1..(Len(Imports(importing[i])) + 1)
      OBVIOUS
    <3>1. CASE i = n
      BY <1>2, <1>3, <1>4, <1>5, <3>1
    <3>2. CASE i # n
      BY <1>0, <1>5, <1>6, <3>2 DEF RunInv, StackInv
    <3> QED
      BY <3>1, <3>2
  <2>2. \A i \in Active : /\ Parses(importing[i])' /\ importing'[i] \notin visited'
                         /\ (importing[i] \in Reachable)'
                         /\ (position[i] \in 1..(Len(Imports(importing[i])) + 1))'
    BY <1>0, <2>1, FilesStay DEF RunInv, StackInv
  <2>3. /\ Len(position') = Len(importing') /\ (importing # <<>> => importing[1] = root)'
        /\ \A i, j \in Active : (importing[i] = importing[j])' => i = j
    BY <1>0, <1>5 DEF RunInv, StackInv, n
  <2>4. \A i \in Active : (i < Len(importing) => Depends(importing[i], importing[i + 1]))'
    BY <1>0, FilesStay DEF RunInv, StackInv
  <2> QED
    BY <1>6, <2>2, <2>3, <2>4 DEF StackInv
<1>9. PassedInv'
  <2> SUFFICES ASSUME NEW i \in Active, NEW k \in 1..(position'[i] - 1)
               PROVE  /\ Resolves(Imports(importing[i])[k])
                      /\ \A q \in Path : ResolvesTo(Imports(importing[i])[k], q)
                                          => Handled(i, q)'
    BY <1>0, <1>6, FilesStay DEF PassedInv
  <2>1. \A q : Handled(i, q) => Handled(i, q)'
    BY <1>0 DEF Handled
  <2>2. CASE k \in 1..(position[i] - 1)
    BY <1>0, <2>1, <2>2 DEF RunInv, PassedInv
  <2>3. CASE k \notin 1..(position[i] - 1)
    <3>1. i = n /\ k = position[n]
      BY <1>2, <1>5, <1>6, <2>3
    <3>2. Imports(importing[i])[k] = Entry
      BY <1>3, <3>1
    <3>3. \A q \in Path : ResolvesTo(Entry, q) => Handled(i, q)'
      BY <1>0, <1>1, <3>1, OnePlace DEF Handled, n
    <3> QED
      BY <1>1, <3>2, <3>3, FoundResolves
  <2> QED
    BY <2>2, <2>3
<1>10. EnteringInv'
  <2>1. target \in Reachable
    BY <1>0, <1>1, <1>2, <1>3, <1>7, ReachableClosed DEF RunInv, StackInv
  <2>2. Top' = Top
    BY <1>0 DEF Top
  <2>3. Reachable' = Reachable /\ \A p, q : Depends(p, q)' = Depends(p, q)
    BY <1>0, FilesStay
  <2> QED
    BY <1>0, <1>1, <1>7, <2>1, <2>2, <2>3 DEF EnteringInv
<1>11. VisitedInv'
  BY <1>0, <1>6, FilesStay DEF RunInv, VisitedInv
<1> QED
  BY <1>8, <1>9, <1>10, <1>11 DEF RunInv

(* A module that returns has only finished imports, itself not among them. *)
LEMMA LeaveKeeps ==
  ASSUME WalkInv, Leave
  PROVE  RunInv'
<1>0. /\ Running /\ files' = files /\ RunInv /\ ImportTypeOK
      /\ UNCHANGED <<entering, graph_resolved>> /\ visited' = visited \union {Top}
      /\ entering = {} /\ importing # <<>> /\ Exhausted
  BY DEF WalkInv, Leave, RunInv, Idle
<1> DEFINE n == Len(importing)
<1>1. /\ importing \in Seq(Path) /\ position \in Seq(Nat)
      /\ n \in Nat \ {0} /\ Len(position) = n /\ n \in Active /\ Active = 1..n
  BY <1>0 DEF ImportTypeOK, RunInv, StackInv, Active
<1>2. /\ Len(importing') = n - 1 /\ Len(position') = n - 1
      /\ \A i \in 1..(n - 1) : importing'[i] = importing[i] /\ position'[i] = position[i]
      /\ importing' \in Seq(Path)
  BY <1>1 DEF Leave, ButLast
<1>3. Active' = 1..(n - 1)
  BY <1>2 DEF Active
<1>4. Top = importing[n] /\ Top \in Path /\ Top \notin visited /\ Top \in Reachable /\ Parses(Top)
  BY <1>0, <1>1 DEF Top, RunInv, StackInv
<1>5. Imports(Top) \in Seq(Import)
  BY <1>0, <1>4 DEF ImportTypeOK, Imports, File
<1>6. \A k \in 1..Len(Imports(Top)) : k \in 1..(position[n] - 1)
  BY <1>0, <1>1, <1>4, <1>5 DEF Exhausted, RunInv, StackInv
<1>7. Complete(Top)
  BY <1>0, <1>1, <1>4, <1>6 DEF Complete, RunInv, PassedInv
<1>8. \A q \in Path : Depends(Top, q) => q \in visited
  BY <1>0, <1>1, <1>4, <1>6 DEF Depends, RunInv, PassedInv, Handled
<1>9. \A i \in 1..(n - 1) : i \in Active /\ i < n /\ i # n
  BY <1>1
<1> HIDE DEF n
<1>10. \A i \in 1..(n - 1) : importing[i] # Top
  BY <1>0, <1>1, <1>4, <1>9 DEF RunInv, StackInv
<1>11. StackInv'
  <2>1. importing' # <<>> => 1 \in 1..(n - 1)
    BY <1>1, <1>2
  <2>2. importing' # <<>> => importing'[1] = root
    BY <1>0, <1>2, <2>1 DEF RunInv, StackInv
  <2>3. \A i \in 1..(n - 1) :
          /\ Parses(importing[i]) /\ importing[i] \notin visited' /\ importing[i] \in Reachable
          /\ position[i] \in 1..(Len(Imports(importing[i])) + 1)
    BY <1>0, <1>9, <1>10 DEF RunInv, StackInv
  <2>4. \A i, j \in 1..(n - 1) : importing[i] = importing[j] => i = j
    BY <1>0, <1>1 DEF RunInv, StackInv
  <2>5. \A i \in 1..(n - 1) : i < n - 1 => i + 1 \in 1..(n - 1)
                             /\ Depends(importing[i], importing[i + 1])
    <3>1. \A i \in 1..(n - 1) : i < n - 1 => i + 1 \in 1..(n - 1)
      BY <1>1
    <3> QED
      BY <1>0, <1>9, <3>1, Zenon DEF RunInv, StackInv, n
  <2>6. Len(position') = Len(importing')
    BY <1>2
  <2>7. (\A i \in Active :
          /\ Parses(importing[i]) /\ importing[i] \notin visited /\ importing[i] \in Reachable
          /\ position[i] \in 1..(Len(Imports(importing[i])) + 1))'
    BY <1>0, <1>2, <1>3, <2>3, FilesStay
  <2>8. (\A i, j \in Active : importing[i] = importing[j] => i = j)'
    BY <1>2, <1>3, <2>4
  <2>9. (\A i \in Active : i < Len(importing) => Depends(importing[i], importing[i + 1]))'
    <3>1. \A p, q : Depends(p, q)' = Depends(p, q)
      BY <1>0, FilesStay
    <3> QED
      BY <1>2, <1>3, <2>5, <3>1
  <2> QED
    BY <2>2, <2>6, <2>7, <2>8, <2>9 DEF StackInv
<1>12. PassedInv'
  <2> SUFFICES ASSUME NEW i \in 1..(n - 1), NEW k \in 1..(position[i] - 1)
               PROVE  /\ Resolves(Imports(importing[i])[k])
                      /\ \A q \in Path : ResolvesTo(Imports(importing[i])[k], q)
                                          => Handled(i, q)'
    BY <1>0, <1>2, <1>3, FilesStay DEF PassedInv
  <2>1. i \in Active /\ i < n
    BY <1>1
  <2>2. \A q : Handled(i, q) => Handled(i, q)'
    <3> SUFFICES ASSUME NEW q, Handled(i, q) PROVE Handled(i, q)'
      OBVIOUS
    <3>1. CASE q \in visited
      BY <1>0, <3>1 DEF Handled
    <3>2. CASE q = importing[i + 1]
      <4>1. CASE i + 1 = n
        BY <1>0, <1>4, <3>2, <4>1 DEF Handled
      <4>2. CASE i + 1 # n
        <5>1. i + 1 \in 1..(n - 1) /\ i < n - 1
          BY <1>1, <2>1, <4>2
        <5> QED
          BY <1>2, <3>2, <5>1 DEF Handled
      <4> QED
        BY <4>1, <4>2
    <3> QED
      BY <2>1, <3>1, <3>2 DEF Handled, n
  <2> QED
    BY <1>0, <2>1, <2>2 DEF RunInv, PassedInv
<1>13. EnteringInv'
  <2>1. CASE n = 1
    BY <1>0, <1>1, <1>4, <2>1 DEF EnteringInv, RunInv, StackInv
  <2>2. CASE n # 1
    <3>1. importing' # <<>>
      BY <1>1, <1>2, <2>2
    <3> QED
      BY <1>0, <3>1 DEF EnteringInv
  <2> QED
    BY <2>1, <2>2
<1>14. VisitedInv'
  <2>1. visited' \subseteq Reachable /\ \A p \in visited' : Complete(p)
    BY <1>0, <1>4, <1>7 DEF RunInv, VisitedInv
  <2>2. \A p \in visited' : \A q \in Path : Depends(p, q) => q \in visited
    BY <1>0, <1>8 DEF RunInv, VisitedInv
  <2>3. \A S \in SUBSET visited' : ~Circular(S)
    <3> SUFFICES ASSUME NEW S \in SUBSET visited', Circular(S)
                 PROVE  FALSE
      OBVIOUS
    <3>1. S \subseteq Path
      BY <1>0, <1>4 DEF ImportTypeOK
    <3>2. \A p \in S : \E q \in S : Depends(p, q) /\ q \in S \ {Top}
      BY <1>4, <2>2, <3>1 DEF Circular
    <3>3. S \ {Top} \in SUBSET visited
      BY <1>0
    <3>4. Circular(S \ {Top})
      BY <3>2 DEF Circular
    <3> QED
      BY <1>0, <3>3, <3>4 DEF RunInv, VisitedInv
  <2>4. graph_resolved' = visited' \union {importing'[i] : i \in Active'}
    <3>1. {importing'[i] : i \in Active'} \union {Top} = {importing[i] : i \in Active}
      <4>1. {importing'[i] : i \in Active'} = {importing[i] : i \in 1..(n - 1)}
        BY <1>2, <1>3
      <4>2. 1..n = 1..(n - 1) \union {n}
        BY <1>1
      <4> QED
        BY <1>1, <1>4, <4>1, <4>2, Zenon
    <3> QED
      BY <1>0, <3>1 DEF RunInv, VisitedInv
  <2> QED
    BY <1>0, <2>1, <2>2, <2>3, <2>4, FilesStay DEF VisitedInv
<1> QED
  BY <1>11, <1>12, <1>13, <1>14 DEF RunInv

-----------------------------------------------------------------------------
(* The invariant holds before the first call, ...                          *)
LEMMA WalkInvInit == ImportInit => WalkInv
<1> SUFFICES ASSUME ImportInit PROVE WalkInv
  OBVIOUS
<1>1. ImportTypeOK
  BY SearchAssumption DEF ImportInit, ImportTypeOK, Result, Kinds
<1>2. StackInv /\ PassedInv
  BY DEF ImportInit, StackInv, PassedInv, Active
<1>3. EnteringInv
  BY ReachableClosed DEF ImportInit, EnteringInv
<1>4. VisitedInv
  BY DEF ImportInit, VisitedInv, Active, Circular
<1>5. GraphIsLoadable /\ RefusalsHaveCauses
  BY DEF ImportInit, Result, GraphIsLoadable, RefusalsHaveCauses
<1> QED
  BY <1>1, <1>2, <1>3, <1>4, <1>5 DEF WalkInv

(* ... and every step of the walk keeps it.                                *)
LEMMA WalkInvStep == WalkInv /\ [ImportNext]_importVars => WalkInv'
<1> SUFFICES ASSUME WalkInv, [ImportNext]_importVars PROVE WalkInv'
  OBVIOUS
<1>0. ImportTypeOK'
  BY StepTyped
<1>1. CASE BackEdge \/ ParseFails \/ Unresolved \/ Finish
  BY <1>0, <1>1, BackEdgeHasCause, ParseFailureHasCause, UnresolvedHasCause, FinishedIsNeeded
  DEF WalkInv
<1>2. CASE Shortcut \/ Push \/ Follow \/ Leave
  <2>1. RunInv'
    BY <1>2, ShortcutKeeps, PushKeeps, FollowKeeps, LeaveKeeps
  <2>2. outcome'.kind = "running"
    BY <1>2 DEF Shortcut, Push, Follow, Leave, Idle, Running
  <2>3. GraphIsLoadable' /\ RefusalsHaveCauses'
    BY <2>2 DEF GraphIsLoadable, RefusalsHaveCauses
  <2> QED
    BY <1>0, <2>1, <2>3 DEF WalkInv, RunInv
<1>3. CASE UNCHANGED importVars
  <2>1. /\ files' = files /\ importing' = importing /\ position' = position
        /\ entering' = entering /\ visited' = visited
        /\ graph_resolved' = graph_resolved /\ outcome' = outcome
    BY <1>3 DEF importVars
  <2>2. (Running => RunInv)'
    BY <2>1, FilesStay DEF WalkInv, RunInv, Running, StackInv, PassedInv, EnteringInv,
                           VisitedInv, Active, Handled, Top
  <2>3. GraphIsLoadable' /\ RefusalsHaveCauses'
    <3>1. \A e : candidates(e)' = candidates(e)
      BY DEF candidates, candidate
    <3>2. \A S : Circular(S)' = Circular(S)
      BY <2>1, FilesStay DEF Circular
    <3>3. GraphIsLoadable'
      BY <2>1, <3>2, FilesStay DEF WalkInv, GraphIsLoadable
    <3>4. RefusalsHaveCauses'
      <4>1. CASE outcome'.kind = "Cycle"
        <5> DEFINE c == outcome.path
        <5>1. /\ Len(c) > 1 /\ c[1] = root
              /\ \A i \in 1..(Len(c) - 1) : Depends(c[i], c[i + 1])
              /\ \E i \in 1..(Len(c) - 1) : c[i] = c[Len(c)]
          BY <2>1, <4>1 DEF WalkInv, RefusalsHaveCauses
        <5>2. \A i \in 1..(Len(c) - 1) : Depends(c[i], c[i + 1])'
          BY <2>1, <5>1, FilesStay, Zenon
        <5> QED
          BY <2>1, <4>1, <5>1, <5>2 DEF RefusalsHaveCauses
      <4>2. CASE outcome'.kind = "NotFound"
        BY <2>1, <3>1, <4>2, FilesStay DEF WalkInv, RefusalsHaveCauses
      <4>3. CASE outcome'.kind = "ParseError"
        BY <2>1, <4>3, FilesStay DEF WalkInv, RefusalsHaveCauses
      <4> QED
        BY <4>1, <4>2, <4>3, Zenon DEF RefusalsHaveCauses
    <3> QED
      BY <3>3, <3>4
  <2> QED
    BY <1>0, <2>2, <2>3 DEF WalkInv, RunInv
<1> QED
  BY <1>1, <1>2, <1>3 DEF ImportNext

(* The invariant holds throughout.                                         *)
THEOREM WalkInvHolds == ImportSpec => []WalkInv
<1>1. ImportInit => WalkInv
  BY WalkInvInit
<1>2. WalkInv /\ [ImportNext]_importVars => WalkInv'
  BY WalkInvStep
<1> QED
  BY <1>1, <1>2, PTL DEF ImportSpec

(* Whatever is on disk, a graph build_from_root returns holds exactly what *)
(* the root needs, all of it loadable and without a cycle.                 *)
THEOREM GraphsLoad == ImportSpec => []GraphIsLoadable
<1>1. WalkInv => GraphIsLoadable
  BY DEF WalkInv
<1> QED
  BY <1>1, WalkInvHolds, PTL

(* Whatever is on disk, a refusal has its cause there.                     *)
THEOREM RefusalsJustified == ImportSpec => []RefusalsHaveCauses
<1>1. WalkInv => RefusalsHaveCauses
  BY DEF WalkInv
<1> QED
  BY <1>1, WalkInvHolds, PTL

-----------------------------------------------------------------------------
(* The edges recorded so far: a finished module has those of all of its    *)
(* imports, an active one those of the imports it has passed, and no other *)
(* module has any.                                                         *)
EdgesInv ==
    /\ \A p \in visited : EdgesFor(p, Len(Imports(p)))
    /\ \A i \in Active : EdgesFor(importing[i], position[i] - 1)
    /\ \A m \in DOMAIN graph_edges :
          graph_edges[m][1] \in visited \/ \E i \in Active : importing[i] = graph_edges[m][1]

(* Modules keep their edges while none is added and the files stay.        *)
LEMMA EdgesStay ==
  ASSUME files' = files, graph_edges' = graph_edges
  PROVE  \A p, n : EdgesFor(p, n)' <=> EdgesFor(p, n)
<1>1. \A p, k : HeaderEdge(p, k)' = HeaderEdge(p, k)
  BY DEF HeaderEdge, Imports
<1>2. \A at, p, n : PlacesOf(at, p, n)' <=> PlacesOf(at, p, n)
  BY <1>1 DEF PlacesOf
<1> QED
  BY <1>2 DEF EdgesFor

(* A module without an edge has passed no import.                          *)
LEMMA NoEdges ==
  ASSUME NEW p, \A m \in DOMAIN graph_edges : graph_edges[m][1] # p
  PROVE  EdgesFor(p, 0)
<1> DEFINE at == [k \in 1..0 |-> 0]
<1>1. at \in [1..0 -> DOMAIN graph_edges]
  OBVIOUS
<1>2. \A k : k \notin 1..0
  OBVIOUS
<1> HIDE DEF at
<1>3. PlacesOf(at, p, 0)
  BY <1>2, Zenon DEF PlacesOf
<1> QED
  BY <1>1, <1>3, Zenon DEF EdgesFor

(* The import that is followed becomes the last edge of its module, ...    *)
LEMMA EdgeAdded ==
  ASSUME files' = files, NEW p, NEW n \in Nat, EdgesFor(p, n),
         graph_edges \in Seq(Path \X Alias), HeaderEdge(p, n + 1) \in Path \X Alias,
         graph_edges' = Append(graph_edges, HeaderEdge(p, n + 1))
  PROVE  EdgesFor(p, n + 1)'
<1> DEFINE last == Len(graph_edges) + 1
<1>1. PICK at \in [1..n -> DOMAIN graph_edges] : PlacesOf(at, p, n)
  BY Zenon DEF EdgesFor
<1>2. \A k : HeaderEdge(p, k)' = HeaderEdge(p, k)
  BY DEF HeaderEdge, Imports
<1>3. /\ \A k \in 1..n : graph_edges[at[k]] = HeaderEdge(p, k)
      /\ \A k, l \in 1..n : k < l => at[k] < at[l]
      /\ \A m \in DOMAIN graph_edges :
            graph_edges[m][1] = p => \E k \in 1..n : at[k] = m
  BY <1>1, Zenon DEF PlacesOf
<1>4. /\ DOMAIN graph_edges = 1..Len(graph_edges) /\ Len(graph_edges) \in Nat
      /\ DOMAIN graph_edges' = 1..last
      /\ graph_edges'[last] = HeaderEdge(p, n + 1)
      /\ \A m \in DOMAIN graph_edges : graph_edges'[m] = graph_edges[m]
  OBVIOUS
<1>5. PICK bt \in [1..(n + 1) -> DOMAIN graph_edges'] :
        bt[n + 1] = last /\ \A k \in 1..n : bt[k] = at[k]
  <2> DEFINE b == [k \in 1..(n + 1) |-> IF k = n + 1 THEN last ELSE at[k]]
  <2>1. b[n + 1] = last /\ \A k \in 1..n : b[k] = at[k]
    OBVIOUS
  <2>2. b \in [1..(n + 1) -> DOMAIN graph_edges']
    BY <1>4
  <2> HIDE DEF b
  <2> QED
    BY <2>1, <2>2, Zenon
<1>7. /\ \A k \in 1..(n + 1) : k \in 1..n \/ k = n + 1
      /\ \A k \in 1..n : k \in 1..(n + 1) /\ k < n + 1
      /\ n + 1 \in 1..(n + 1)
  OBVIOUS
<1>8. \A k \in 1..n : at[k] \in DOMAIN graph_edges /\ at[k] < last /\ at[k] \in Nat
  BY <1>4
<1>9. \A m \in DOMAIN graph_edges' : m = last \/ m \in DOMAIN graph_edges
  BY <1>4
<1> HIDE DEF last
<1>10. ASSUME NEW k \in 1..(n + 1)
       PROVE  graph_edges'[bt[k]] = HeaderEdge(p, k)
  BY <1>3, <1>4, <1>5, <1>7, <1>8, Zenon
<1>11. ASSUME NEW k \in 1..(n + 1), NEW l \in 1..(n + 1), k < l
       PROVE  bt[k] < bt[l]
  <2>1. k \in 1..n
    BY <1>11
  <2>2. CASE l \in 1..n
    BY <1>3, <1>5, <1>11, <2>1, <2>2, Zenon
  <2>3. CASE l = n + 1
    BY <1>5, <1>8, <2>1, <2>3, Zenon
  <2> QED
    BY <1>7, <2>2, <2>3
<1>12. ASSUME NEW m \in DOMAIN graph_edges', graph_edges'[m][1] = p
       PROVE  \E k \in 1..(n + 1) : bt[k] = m
  <2>1. CASE m = last
    BY <1>5, <1>7, <2>1, Zenon
  <2>2. CASE m \in DOMAIN graph_edges
    <3>1. graph_edges[m][1] = p
      BY <1>4, <1>12, <2>2, Zenon
    <3>2. PICK k \in 1..n : at[k] = m
      BY <1>3, <2>2, <3>1, Zenon
    <3> QED
      BY <1>5, <1>7, <3>2, Zenon
  <2> QED
    BY <1>9, <2>1, <2>2
<1>13. PlacesOf(bt, p, n + 1)'
  BY <1>2, <1>10, <1>11, <1>12, Zenon DEF PlacesOf
<1> QED
  BY <1>5, <1>13, Zenon DEF EdgesFor

(* ... and leaves the edges of the others alone.                           *)
LEMMA EdgeElsewhere ==
  ASSUME files' = files, NEW p, NEW n, EdgesFor(p, n),
         graph_edges \in Seq(Path \X Alias), NEW e \in Path \X Alias, e[1] # p,
         graph_edges' = Append(graph_edges, e)
  PROVE  EdgesFor(p, n)'
<1>1. PICK at \in [1..n -> DOMAIN graph_edges] : PlacesOf(at, p, n)
  BY Zenon DEF EdgesFor
<1>2. /\ DOMAIN graph_edges \subseteq DOMAIN graph_edges'
      /\ \A m \in DOMAIN graph_edges : graph_edges'[m] = graph_edges[m]
      /\ \A m \in DOMAIN graph_edges' : m \in DOMAIN graph_edges \/ graph_edges'[m] = e
  OBVIOUS
<1>3. \A k : HeaderEdge(p, k)' = HeaderEdge(p, k)
  BY DEF HeaderEdge, Imports
<1>4. at \in [1..n -> DOMAIN graph_edges'] /\ \A k \in 1..n : at[k] \in DOMAIN graph_edges
  BY <1>2, Zenon
<1>5. PlacesOf(at, p, n)'
  BY <1>1, <1>2, <1>3, <1>4, Zenon DEF PlacesOf
<1> QED
  BY <1>4, <1>5, Zenon DEF EdgesFor

(* No step disturbs the record of the edges.                               *)
LEMMA EdgesInvStep ==
  ASSUME WalkInv, EdgesInv, [ImportNext]_importVars
  PROVE  EdgesInv'
<1>0. ImportTypeOK
  BY DEF WalkInv
<1>1. CASE UNCHANGED <<files, importing, position, visited, graph_edges>>
  BY <1>1, EdgesStay DEF EdgesInv, Active, Imports
<1>2. CASE Push
  <2>1. /\ files' = files /\ graph_edges' = graph_edges /\ visited' = visited /\ Running
        /\ position' = Append(position, 1)
    BY <1>2 DEF Push
  <2>2. PICK current \in entering :
          ~OnStack(current) /\ ~Finished(current) /\ importing' = Append(importing, current)
    BY <1>2 DEF Push
  <2> DEFINE n == Len(importing)
  <2>3. /\ importing \in Seq(Path) /\ position \in Seq(Nat) /\ n \in Nat /\ Len(position) = n
        /\ current \in Path
    BY <1>0, <2>1, <2>2 DEF ImportTypeOK, WalkInv, StackInv
  <2>4. /\ Len(importing') = n + 1 /\ importing'[n + 1] = current /\ position'[n + 1] = 1
        /\ \A i \in 1..n : importing'[i] = importing[i] /\ position'[i] = position[i]
    BY <2>1, <2>2, <2>3
  <2>5. Active' = Active \union {n + 1} /\ Active = 1..n
    BY <2>3, <2>4 DEF Active
  <2> HIDE DEF n
  <2>6. EdgesFor(current, 0)
    <3>1. \A m \in DOMAIN graph_edges : graph_edges[m][1] # current
      BY <2>2, <2>5 DEF EdgesInv, OnStack, Finished, n
    <3> QED
      BY <3>1, NoEdges
  <2>7. ASSUME NEW i \in Active' PROVE EdgesFor(importing[i], position[i] - 1)'
    <3>1. CASE i \in Active
      <4>1. PICK p, j : p = importing[i] /\ j = position[i] - 1
        OBVIOUS
      <4>2. EdgesFor(p, j)
        BY <3>1, <4>1 DEF EdgesInv
      <4>3. EdgesFor(p, j)'
        BY <2>1, <4>2, EdgesStay
      <4>4. importing'[i] = p /\ position'[i] - 1 = j
        BY <2>4, <2>5, <3>1, <4>1
      <4> QED
        BY <4>3, <4>4
    <3>2. CASE i = n + 1
      <4>1. EdgesFor(current, 0)'
        BY <2>1, <2>6, EdgesStay
      <4>2. importing'[i] = current /\ position'[i] - 1 = 0
        BY <2>4, <3>2
      <4> QED
        BY <4>1, <4>2
    <3> QED
      BY <2>5, <3>1, <3>2
  <2>8. \A p \in visited' : EdgesFor(p, Len(Imports(p)))'
    BY <2>1, EdgesStay DEF EdgesInv, Imports
  <2>9. \A m \in DOMAIN graph_edges' :
          graph_edges'[m][1] \in visited' \/ \E i \in Active' : importing'[i] = graph_edges'[m][1]
    BY <2>1, <2>4, <2>5 DEF EdgesInv
  <2> QED
    BY <2>7, <2>8, <2>9 DEF EdgesInv
<1>3. CASE Follow
  <2>0. PICK n, t, e : n = Len(importing) /\ t = Top /\ e = <<Top, Entry.alias>>
    <3> DEFINE depth == Len(importing)
               edge == <<Top, Entry.alias>>
    <3> HIDE DEF depth, edge
    <3>1. \E n, t, e : n = depth /\ t = Top /\ e = edge
      OBVIOUS
    <3> QED
      BY <3>1 DEF depth, edge
  <2>1. /\ files' = files /\ visited' = visited /\ importing' = importing /\ Running
        /\ position' = [position EXCEPT ![Len(position)] = position[Len(position)] + 1]
        /\ graph_edges' = Append(graph_edges, e) /\ StackInv /\ importing # <<>> /\ ~Exhausted
    BY <1>3, <2>0 DEF Follow, Idle, WalkInv
  <2>2. /\ n \in Active /\ t \in Path /\ t = importing[n] /\ e[1] = t
        /\ position[n] \in 1..Len(Imports(t)) /\ Entry \in Import
    BY <1>0, <2>0, <2>1, EntryTyped DEF Top
  <2>3. /\ position \in Seq(Nat) /\ Len(position) = n /\ n \in Nat /\ n > 0
        /\ graph_edges \in Seq(Path \X Alias) /\ importing \in Seq(Path)
    BY <1>0, <2>0, <2>1 DEF ImportTypeOK, StackInv
  <2>4. position'[n] = position[n] + 1 /\ \A i \in Active \ {n} : position'[i] = position[i]
    BY <2>0, <2>1, <2>3 DEF Active
  <2>5. e \in Path \X Alias
    BY <2>0, <2>2 DEF Import
  <2>6. t \notin visited /\ \A i \in Active \ {n} : importing[i] # t
    BY <2>1, <2>2 DEF StackInv
  <2>7. e = HeaderEdge(t, position[n])
    BY <2>0, <2>3 DEF HeaderEdge, Entry
  <2>8. PICK k \in Nat : k + 1 = position[n] /\ k = position[n] - 1
    <3>1. Len(Imports(t)) \in Nat
      BY <1>0, <2>2 DEF ImportTypeOK, Imports, File
    <3> QED
      BY <2>2, <3>1
  <2>9. EdgesFor(t, k + 1)'
    <3>1. EdgesFor(t, k)
      BY <2>2, <2>8 DEF EdgesInv
    <3>2. e = HeaderEdge(t, k + 1)
      BY <2>7, <2>8
    <3> QED
      BY <2>1, <2>3, <2>5, <3>1, <3>2, EdgeAdded, Zenon
  <2>10. ASSUME NEW p, NEW j, p # t, EdgesFor(p, j) PROVE EdgesFor(p, j)'
    <3>1. e[1] # p
      BY <2>2, <2>10
    <3> QED
      BY <2>1, <2>3, <2>5, <2>10, <3>1, EdgeElsewhere
  <2>11. Active' = Active /\ \A p : Imports(p)' = Imports(p)
    BY <2>1 DEF Active, Imports
  <2>12. ASSUME NEW i \in Active' PROVE EdgesFor(importing[i], position[i] - 1)'
    <3>1. CASE i = n
      <4>1. importing'[i] = t /\ position'[i] - 1 = k + 1
        BY <2>1, <2>2, <2>4, <2>8, <3>1
      <4> QED
        BY <2>9, <4>1
    <3>2. CASE i # n
      <4>1. PICK p, j : p = importing[i] /\ j = position[i] - 1
        OBVIOUS
      <4>2. p # t /\ EdgesFor(p, j)
        BY <2>6, <2>11, <3>2, <4>1 DEF EdgesInv
      <4>3. EdgesFor(p, j)'
        BY <2>10, <4>2
      <4>4. importing'[i] = p /\ position'[i] - 1 = j
        BY <2>1, <2>4, <2>11, <3>2, <4>1
      <4> QED
        BY <4>3, <4>4
    <3> QED
      BY <3>1, <3>2
  <2>13. ASSUME NEW p \in visited' PROVE EdgesFor(p, Len(Imports(p)))'
    <3>1. PICK j : j = Len(Imports(p))
      <4> DEFINE headerLength == Len(Imports(p))
      <4> HIDE DEF headerLength
      <4>1. \E j : j = headerLength
        OBVIOUS
      <4> QED
        BY <4>1 DEF headerLength
    <3>2. p # t /\ EdgesFor(p, j)
      BY <2>1, <2>6, <3>1 DEF EdgesInv
    <3> QED
      BY <2>10, <2>11, <3>1, <3>2
  <2>14. ASSUME NEW m \in DOMAIN graph_edges'
         PROVE  graph_edges'[m][1] \in visited'
                \/ \E i \in Active' : importing'[i] = graph_edges'[m][1]
    <3>1. \/ m \in DOMAIN graph_edges /\ graph_edges'[m] = graph_edges[m]
          \/ graph_edges'[m] = e
      BY <2>1, <2>3, <2>5
    <3> QED
      BY <2>1, <2>2, <2>11, <3>1 DEF EdgesInv
  <2> QED
    BY <2>12, <2>13, <2>14 DEF EdgesInv
<1>4. CASE Leave
  <2>0. PICK n, t : n = Len(importing) /\ t = Top
    <3> DEFINE depth == Len(importing)
    <3> HIDE DEF depth
    <3>1. \E n, t : n = depth /\ t = Top
      OBVIOUS
    <3> QED
      BY <3>1 DEF depth
  <2>1. /\ files' = files /\ graph_edges' = graph_edges /\ Running /\ StackInv
        /\ importing' = ButLast(importing) /\ position' = ButLast(position)
        /\ visited' = visited \union {t} /\ importing # <<>> /\ Exhausted
    BY <1>4, <2>0 DEF Leave, Idle, WalkInv
  <2>2. /\ importing \in Seq(Path) /\ position \in Seq(Nat) /\ n \in Nat /\ n > 0
        /\ Len(position) = n /\ t = importing[n] /\ n \in Active /\ t \in Path
    BY <1>0, <2>0, <2>1 DEF ImportTypeOK, StackInv, Active, Top
  <2>3. position[n] - 1 = Len(Imports(t))
    <3>1. Len(Imports(t)) \in Nat
      BY <1>0, <2>2 DEF ImportTypeOK, Imports, File
    <3>2. position[n] \in 1..(Len(Imports(t)) + 1) /\ position[n] > Len(Imports(t))
      BY <2>0, <2>1, <2>2 DEF StackInv, Exhausted, Active
    <3> QED
      BY <3>1, <3>2
  <2>4. /\ Active' = 1..(n - 1) /\ Active = 1..n
        /\ \A i \in 1..(n - 1) : importing'[i] = importing[i] /\ position'[i] = position[i]
    BY <2>0, <2>1, <2>2 DEF Active, ButLast
  <2>5. \A i \in Active : i \in Active' \/ i = n
    BY <2>2, <2>4
  <2>6. \A i \in Active' : i \in Active
    BY <2>2, <2>4
  <2>7. \A p, j : EdgesFor(p, j)' <=> EdgesFor(p, j)
    BY <2>1, EdgesStay
  <2>8. ASSUME NEW i \in Active' PROVE EdgesFor(importing[i], position[i] - 1)'
    <3>1. EdgesFor(importing[i], position[i] - 1)
      BY <2>6 DEF EdgesInv
    <3>2. PICK p, j : p = importing[i] /\ j = position[i] - 1
      OBVIOUS
    <3>3. EdgesFor(p, j)'
      BY <2>7, <3>1, <3>2
    <3>4. importing'[i] = p /\ position'[i] - 1 = j
      BY <2>4, <3>2
    <3> QED
      BY <3>3, <3>4
  <2>9. ASSUME NEW p \in visited' PROVE EdgesFor(p, Len(Imports(p)))'
    <3>1. PICK j : j = Len(Imports(p))
      <4> DEFINE headerLength == Len(Imports(p))
      <4> HIDE DEF headerLength
      <4>1. \E j : j = headerLength
        OBVIOUS
      <4> QED
        BY <4>1 DEF headerLength
    <3>2. EdgesFor(p, j)
      BY <2>1, <2>2, <2>3, <3>1 DEF EdgesInv
    <3>3. Len(Imports(p))' = j
      BY <2>1, <3>1 DEF Imports
    <3> QED
      BY <2>7, <3>2, <3>3
  <2>10. \A m \in DOMAIN graph_edges' :
           graph_edges'[m][1] \in visited' \/ \E i \in Active' : importing'[i] = graph_edges'[m][1]
    BY <2>1, <2>2, <2>4, <2>5 DEF EdgesInv
  <2> QED
    BY <2>8, <2>9, <2>10 DEF EdgesInv
<1> QED
  BY <1>1, <1>2, <1>3, <1>4 DEF ImportNext, importVars, BackEdge, Shortcut, ParseFails,
                                Unresolved, Finish

(* A diamond keeps the edges of both importers and a finished module adds  *)
(* its own once: for every file system, search list and root the edges out *)
(* of a finished module are its imports in the order of its header.        *)
THEOREM EdgesInOrder == ImportSpec => []EdgesMatchHeaders
<1>1. ImportInit => EdgesInv
  BY DEF ImportInit, EdgesInv, Active
<1>2. EdgesInv => EdgesMatchHeaders
  BY DEF EdgesInv, EdgesMatchHeaders
<1>3. WalkInv /\ EdgesInv /\ [ImportNext]_importVars => EdgesInv'
  BY EdgesInvStep
<1> QED
  BY <1>1, <1>2, <1>3, WalkInvHolds, PTL DEF ImportSpec
=============================================================================
