---------------------------- MODULE TarjanProofs ----------------------------
(***************************************************************************)
(* tarjan_sccs, for any number of predicates, any edges and every order in *)
(* which the search takes them.                                            *)
(***************************************************************************)
EXTENDS Stratification, TLAPS

Found == {v \in Preds : indices[v] # None}

Popped == {v \in Preds : \E k \in 1..Len(sccs) : v \in sccs[k]}

Class(v) == {w \in Preds : Reaches(v, w) /\ Reaches(w, v)}

Frame == [node : Preds, rest : SUBSET edges]

(* The search is through with the edge e: it has found the source, and no  *)
(* frame has e among the children left.                                    *)
Followed(e) == e[1] \in Found /\ \A k \in 1..Len(frames) : e \notin frames[k].rest

(* x was found after the k-th frame was opened and before the next one.    *)
InFrame(k, x) ==
    /\ indices[x] >= indices[frames[k].node]
    /\ k < Len(frames) => indices[x] < indices[frames[k + 1].node]

SearchTypeOK ==
    /\ edges \in Graph
    /\ start \in 1..(Count + 1)
    /\ stack \in Seq(Preds)
    /\ index_counter \in Nat \ {0}
    /\ indices \in [Preds -> Nat]
    /\ lowlinks \in [Preds -> Nat]
    /\ frames \in Seq(Frame)
    /\ sccs \in Seq(SUBSET Preds)

(* Indices are numbers below the counter, and they grow along the stack    *)
(* and along the frames; what is found and not popped is on the stack.     *)
StackInv ==
    /\ \A v \in Preds : indices[v] < index_counter
    /\ \A j, k \in 1..Len(stack) : j < k => indices[stack[j]] < indices[stack[k]]
    /\ Found = on_stack \union Popped /\ on_stack \intersect Popped = {}
    /\ \A v \in Preds : v < start => v \in Found
    /\ \A j, k \in 1..Len(frames) : j < k => indices[frames[j].node] < indices[frames[k].node]
    /\ \A k \in 1..Len(frames) :
          frames[k].node \in on_stack /\ frames[k].rest \subseteq OutEdges(frames[k].node)

(* No edge leaves what is found unnoticed, and none leaves the components; *)
(* each component is a class of mutual reachability.                       *)
ClosedInv ==
    /\ \A e \in edges : Followed(e) => e[2] \in Found
    /\ \A e \in edges : e[1] \in Popped => e[2] \in Popped
    /\ \A k \in 1..Len(sccs) : sccs[k] # {} /\ \A v \in sccs[k] : sccs[k] = Class(v)
    /\ \A j, k \in 1..Len(sccs) : sccs[j] \intersect sccs[k] # {} => j = k

(* Down the stack everything reaches what is above it, and everything on   *)
(* the stack reaches a frame's node that was found no later.               *)
ReachInv ==
    /\ \A x, y \in on_stack : indices[x] <= indices[y] => Reaches(x, y)
    /\ \A x \in on_stack : \E k \in 1..Len(frames) :
          indices[frames[k].node] <= indices[x] /\ Reaches(x, frames[k].node)

(* A lowlink is the index of something on the stack that the node reaches, *)
(* and no edge followed from what was found since the frame was opened     *)
(* leads below it on the stack.                                            *)
LowlinkInv ==
    \A k \in 1..Len(frames) :
        LET v == frames[k].node IN
        /\ lowlinks[v] <= indices[v]
        /\ \E u \in on_stack : indices[u] = lowlinks[v] /\ Reaches(v, u)
        /\ \A e \in edges :
              Followed(e) /\ e[1] \in on_stack /\ e[2] \in on_stack /\ InFrame(k, e[1]) =>
                  indices[e[2]] >= lowlinks[v]

SearchInv == SearchTypeOK /\ StackInv /\ ClosedInv /\ ReachInv /\ LowlinkInv

(* After the search, the components are the classes, each once.            *)
Partition ==
    /\ sccs \in Seq(SUBSET Preds)
    /\ \A v \in Preds : \E k \in 1..Len(sccs) : v \in sccs[k]
    /\ \A k \in 1..Len(sccs) : sccs[k] # {} /\ \A v \in sccs[k] : sccs[k] = Class(v)
    /\ \A j, k \in 1..Len(sccs) : sccs[j] \intersect sccs[k] # {} => j = k

SccInv ==
    /\ edges \in Graph
    /\ pc \in {"search", "reject", "pass", "done"}
    /\ pc = "search" => SearchInv
    /\ pc # "search" => Partition

-----------------------------------------------------------------------------
(* Reachability. *)

LEMMA CountIsNat == Count \in Nat /\ Preds = 1..Count
  BY GraphAssumption, Zenon DEF Preds

LEMMA EdgesTyped ==
  ASSUME edges \in Graph, NEW e \in edges
  PROVE  e[1] \in Preds /\ e[2] \in Preds /\ e[3] \in BOOLEAN
  BY GraphAssumption, Zenon

LEMMA ReachSelf == \A u : Reaches(u, u)
  BY Zenon DEF Reaches

LEMMA ReachEdge == \A e \in edges : Reaches(e[1], e[2])
  BY Zenon DEF Reaches

LEMMA ReachTrans == \A u, v, w : Reaches(u, v) /\ Reaches(v, w) => Reaches(u, w)
  BY Zenon DEF Reaches

(* Nothing leads out of a closed set.                                      *)
LEMMA ReachClosed ==
  ASSUME NEW S \in SUBSET Preds, \A e \in edges : e[1] \in S => e[2] \in S,
         NEW u \in S, NEW v, Reaches(u, v)
  PROVE  v \in S
  BY Zenon DEF Reaches

LEMMA SameReach ==
  ASSUME edges' = edges
  PROVE  \A u, v : Reaches(u, v)' = Reaches(u, v)
  BY Zenon DEF Reaches

LEMMA SameClass ==
  ASSUME edges' = edges
  PROVE  \A v : Class(v)' = Class(v)
  BY SameReach, Zenon DEF Class

(* The invariant after a step, with the reachability of before.            *)
LEMMA PrimedReachInv ==
  ASSUME edges' = edges,
         \A x, y \in on_stack' : indices'[x] <= indices'[y] => Reaches(x, y),
         \A x \in on_stack' : \E k \in 1..Len(frames') :
            indices'[frames'[k].node] <= indices'[x] /\ Reaches(x, frames'[k].node)
  PROVE  ReachInv'
  BY SameReach, Zenon DEF ReachInv

LEMMA PrimedLowlinkInv ==
  ASSUME edges' = edges,
         \A k \in 1..Len(frames') :
            /\ lowlinks'[frames'[k].node] <= indices'[frames'[k].node]
            /\ \E u \in on_stack' : /\ indices'[u] = lowlinks'[frames'[k].node]
                                    /\ Reaches(frames'[k].node, u)
            /\ \A e \in edges :
                  /\ Followed(e)' /\ e[1] \in on_stack' /\ e[2] \in on_stack'
                  /\ InFrame(k, e[1])'
                  => indices'[e[2]] >= lowlinks'[frames'[k].node]
  PROVE  LowlinkInv'
  BY SameReach DEF LowlinkInv

-----------------------------------------------------------------------------
(* The frames and the stack. *)

LEMMA Element ==
  ASSUME NEW S, NEW s \in Seq(S), NEW k \in 1..Len(s)
  PROVE  s[k] \in S
  OBVIOUS

LEMMA Prefix ==
  ASSUME NEW S, NEW s \in Seq(S), NEW n \in 0..Len(s)
  PROVE  /\ SubSeq(s, 1, n) \in Seq(S) /\ Len(SubSeq(s, 1, n)) = n
         /\ \A k \in 1..n : SubSeq(s, 1, n)[k] = s[k]
  OBVIOUS

(* The frames below the top one.                                           *)
LEMMA LowerFrames ==
  ASSUME frames \in Seq(Frame), frames # <<>>
  PROVE  /\ Len(frames) \in Nat \ {0} /\ top_frame = frames[Len(frames)]
         /\ lower_frames \in Seq(Frame) /\ Len(lower_frames) = Len(frames) - 1
         /\ \A k \in 1..(Len(frames) - 1) : lower_frames[k] = frames[k]
<1> HIDE DEF Frame
<1>1. Len(frames) \in Nat \ {0} /\ Len(frames) - 1 \in 0..Len(frames)
  OBVIOUS
<1> QED BY <1>1, Prefix, Zenon DEF lower_frames, top_frame

(* The top frame with other children left.                                 *)
LEMMA TopFrame ==
  ASSUME frames \in Seq(Frame), frames # <<>>,
         NEW p, NEW t, t \in Frame, t.node = frames[Len(frames)].node, p = Append(lower_frames, t)
  PROVE  /\ p \in Seq(Frame) /\ Len(p) = Len(frames) /\ p[Len(frames)] = t
         /\ \A k \in 1..Len(frames) : p[k].node = frames[k].node
         /\ \A k \in 1..Len(frames) : k # Len(frames) => p[k].rest = frames[k].rest
<1> DEFINE n == Len(frames)
<1> HIDE DEF Frame
<1>1. /\ n \in Nat \ {0} /\ lower_frames \in Seq(Frame) /\ Len(lower_frames) = n - 1
      /\ \A k \in 1..(n - 1) : lower_frames[k] = frames[k]
  BY LowerFrames, Zenon
<1>2. /\ p \in Seq(Frame) /\ Len(p) = n /\ p[n] = t
      /\ \A k \in 1..(n - 1) : p[k] = frames[k]
  BY <1>1
<1>3. ASSUME NEW k \in 1..n
      PROVE  p[k].node = frames[k].node /\ (k # n => p[k].rest = frames[k].rest)
  <2>1. CASE k = n
    BY <1>2, <2>1, Zenon
  <2>2. CASE k # n
    <3>1. k \in 1..(n - 1)
      BY <1>1, <2>2
    <3> QED BY <1>2, <3>1, Zenon
  <2> QED BY <2>1, <2>2, Zenon
<1> QED BY <1>2, <1>3, Zenon

(* What a stack holds, and what one with one more element holds.           *)
LEMMA StackIs == on_stack = {stack[k] : k \in 1..Len(stack)}
  BY Zenon DEF on_stack

LEMMA Pushed ==
  ASSUME NEW s \in Seq(Preds), NEW w \in Preds
  PROVE  /\ Append(s, w) \in Seq(Preds) /\ Len(Append(s, w)) = Len(s) + 1
         /\ Append(s, w)[Len(s) + 1] = w
         /\ \A k \in 1..Len(s) : Append(s, w)[k] = s[k]
         /\ {Append(s, w)[k] : k \in 1..(Len(s) + 1)} = {s[k] : k \in 1..Len(s)} \union {w}
<1>1. /\ Append(s, w) \in Seq(Preds) /\ Len(Append(s, w)) = Len(s) + 1 /\ Len(s) \in Nat
      /\ Append(s, w)[Len(s) + 1] = w
      /\ \A k \in 1..Len(s) : Append(s, w)[k] = s[k]
  OBVIOUS
<1>2. {Append(s, w)[k] : k \in 1..(Len(s) + 1)} = {s[k] : k \in 1..Len(s)} \union {w}
  BY <1>1
<1> QED BY <1>1, <1>2, Zenon
-----------------------------------------------------------------------------
(* The search. *)

LEMMA SearchTyped ==
  ASSUME SearchTypeOK
  PROVE  /\ Len(stack) \in Nat /\ Len(frames) \in Nat /\ Len(sccs) \in Nat
         /\ \A k \in 1..Len(stack) : stack[k] \in Preds
         /\ \A k \in 1..Len(frames) : frames[k].node \in Preds /\ frames[k].rest \subseteq edges
         /\ \A v \in Preds : indices[v] \in Nat /\ lowlinks[v] \in Nat
         /\ on_stack \subseteq Preds /\ Found \subseteq Preds /\ Popped \subseteq Preds
<1>1. Len(stack) \in Nat /\ Len(frames) \in Nat /\ Len(sccs) \in Nat
  BY DEF SearchTypeOK
<1>2. \A k \in 1..Len(stack) : stack[k] \in Preds
  BY DEF SearchTypeOK
<1>3. \A k \in 1..Len(frames) : frames[k].node \in Preds /\ frames[k].rest \subseteq edges
  <2>1. \A k \in 1..Len(frames) : frames[k] \in Frame
    BY Element, Zenon DEF SearchTypeOK
  <2> QED BY <2>1, Zenon DEF Frame
<1>4. \A v \in Preds : indices[v] \in Nat /\ lowlinks[v] \in Nat
  BY Zenon DEF SearchTypeOK
<1>5. on_stack \subseteq Preds /\ Found \subseteq Preds /\ Popped \subseteq Preds
  BY <1>2, StackIs, Zenon DEF Found, Popped
<1> QED BY <1>1, <1>2, <1>3, <1>4, <1>5, Zenon

(* Everything on the stack reaches the node of the top frame.              *)
LEMMA ReachTop ==
  ASSUME SearchTypeOK, StackInv, ReachInv, NEW x \in on_stack, frames # <<>>
  PROVE  Reaches(x, frames[Len(frames)].node)
<1> DEFINE n == Len(frames)
<1>1. n \in 1..n /\ n \in Nat
  BY SearchTyped, LowerFrames DEF SearchTypeOK
<1>2. PICK k \in 1..n : Reaches(x, frames[k].node)
  BY Zenon DEF ReachInv
<1>3. /\ frames[k].node \in on_stack /\ frames[n].node \in on_stack
      /\ indices[frames[k].node] \in Nat /\ indices[frames[n].node] \in Nat
  BY <1>1, SearchTyped, Zenon DEF StackInv
<1>4. indices[frames[k].node] <= indices[frames[n].node]
  <2>1. CASE k = n
    BY <1>3, <2>1
  <2>2. CASE k # n
    <3>1. k < n
      BY <1>1, <2>2
    <3> QED BY <1>1, <1>3, <3>1 DEF StackInv
  <2> QED BY <2>1, <2>2, Zenon
<1>5. Reaches(frames[k].node, frames[n].node)
  BY <1>3, <1>4, Zenon DEF ReachInv
<1> QED BY <1>2, <1>5, ReachTrans, Zenon

(* One more predicate found.                                               *)
LEMMA OneMoreFound ==
  ASSUME SearchTypeOK, NEW w \in Preds, indices[w] = None,
         indices' = [indices EXCEPT ![w] = index_counter]
  PROVE  /\ index_counter \in Nat \ {0}
         /\ Found' = Found \union {w} /\ w \notin Found
         /\ indices'[w] = index_counter
         /\ \A v \in Preds : v # w => indices'[v] = indices[v]
         /\ indices' \in [Preds -> Nat]
<1>1. index_counter \in Nat \ {0} /\ indices \in [Preds -> Nat]
  BY Zenon DEF SearchTypeOK
<1>2. /\ indices'[w] = index_counter /\ indices' \in [Preds -> Nat]
      /\ \A v \in Preds : v # w => indices'[v] = indices[v]
  BY <1>1, Zenon
<1>3. Found' = Found \union {w} /\ w \notin Found
  BY <1>1, <1>2, Zenon DEF Found, None
<1> QED BY <1>1, <1>2, <1>3, Zenon

(* An undiscovered w is indexed, pushed and given a frame: everything on   *)
(* the stack reaches it, and the edges newly followed all lead to it.      *)
Discovering(w, below) ==
    /\ w \in Preds /\ indices[w] = None
    /\ below \in Seq(Frame) /\ Len(below) = Len(frames)
    /\ \A k \in 1..Len(frames) : /\ below[k].node = frames[k].node
                                 /\ below[k].rest \subseteq frames[k].rest
    /\ \A e \in edges :
          e[1] \in Found /\ (\A k \in 1..Len(frames) : e \notin below[k].rest) =>
              Followed(e) \/ e[2] = w
    /\ \A x \in on_stack : Reaches(x, w)
    /\ Discover(w, below) /\ edges' = edges /\ sccs' = sccs
    /\ start' \in 1..(Count + 1) /\ \A v \in Preds : v < start' => v \in Found \/ v = w

LEMMA DiscoverKeeps ==
  ASSUME SearchInv, NEW w, NEW below, Discovering(w, below)
  PROVE  SearchInv'
<1> DEFINE n == Len(frames)
           i == index_counter
           f == [node |-> w, rest |-> OutEdges(w)]
<1> SearchTypeOK /\ StackInv /\ ClosedInv /\ ReachInv /\ LowlinkInv
  BY Zenon DEF SearchInv
<1>0. /\ Len(stack) \in Nat /\ n \in Nat
      /\ \A k \in 1..Len(stack) : stack[k] \in on_stack
      /\ \A v \in Preds : indices[v] \in Nat /\ lowlinks[v] \in Nat
      /\ on_stack \subseteq Preds /\ Found \subseteq Preds
  BY SearchTyped, StackIs, Zenon
<1> w \in Preds /\ edges' = edges
  BY Zenon DEF Discovering
<1>1. /\ i \in Nat \ {0} /\ index_counter' = i + 1
      /\ Found' = Found \union {w} /\ w \notin Found
      /\ indices'[w] = i /\ indices' \in [Preds -> Nat]
      /\ \A v \in Preds : v # w => indices'[v] = indices[v]
  BY OneMoreFound, Zenon DEF Discover, Discovering
<1>2. \A v \in Preds : indices[v] < i
  BY Zenon DEF StackInv
<1>3. /\ lowlinks'[w] = i /\ lowlinks' \in [Preds -> Nat]
      /\ \A v \in Preds : v # w => lowlinks'[v] = lowlinks[v]
  BY <1>1, Zenon DEF SearchTypeOK, Discover, Discovering
<1>4. /\ stack' \in Seq(Preds) /\ Len(stack') = Len(stack) + 1 /\ stack'[Len(stack) + 1] = w
      /\ \A k \in 1..Len(stack) : stack'[k] = stack[k]
      /\ on_stack' = on_stack \union {w}
  <2>1. stack \in Seq(Preds) /\ stack' = Append(stack, w)
    BY Zenon DEF SearchTypeOK, Discover, Discovering
  <2>2. /\ stack' \in Seq(Preds) /\ Len(stack') = Len(stack) + 1 /\ stack'[Len(stack) + 1] = w
        /\ \A k \in 1..Len(stack) : stack'[k] = stack[k]
        /\ {stack'[k] : k \in 1..(Len(stack) + 1)} = {stack[k] : k \in 1..Len(stack)} \union {w}
    BY <2>1, Pushed
  <2>3. on_stack' = {stack'[k] : k \in 1..Len(stack')}
    BY Zenon DEF on_stack
  <2> QED BY <2>2, <2>3, StackIs, Zenon
<1>5. f \in Frame /\ f.node = w /\ f.rest = OutEdges(w)
  BY Zenon DEF Frame, OutEdges
<1>6. /\ frames' \in Seq(Frame) /\ Len(frames') = n + 1 /\ frames'[n + 1] = f
      /\ \A k \in 1..n : frames'[k] = below[k]
  <2>1. frames' = Append(below, f)
    BY Zenon DEF Discover, Discovering
  <2>2. below \in Seq(Frame) /\ Len(below) = n
    BY Zenon DEF Discovering
  <2> HIDE DEF f, Frame
  <2> QED BY <1>0, <1>5, <2>1, <2>2
<1> HIDE DEF f, i, n
<1>7. /\ frames'[n + 1].node = w /\ frames'[n + 1].rest = OutEdges(w)
      /\ \A k \in 1..n : /\ frames'[k].node = frames[k].node
                         /\ frames'[k].rest \subseteq frames[k].rest
  BY <1>5, <1>6, Zenon DEF Discovering, n
<1>8. w \notin on_stack /\ w \notin Popped /\ Popped' = Popped
  BY <1>1, Zenon DEF StackInv, Popped, Discovering
<1>9. \A k \in 1..n : frames[k].node \in on_stack /\ frames[k].node # w
  BY <1>8, Zenon DEF StackInv, n
<1>10. \A x \in on_stack : x \in Preds /\ x # w /\ indices'[x] = indices[x] /\ indices[x] < i
  BY <1>0, <1>1, <1>2, <1>8, Zenon
<1>11. ASSUME NEW e \in edges, Followed(e)'
       PROVE  e[1] \in Found /\ e[1] # w /\ (Followed(e) \/ e[2] = w)
  <2>1. e[1] \in Found' /\ \A k \in 1..(n + 1) : e \notin frames'[k].rest
    BY <1>6, <1>11, Zenon DEF Followed
  <2>2. e[1] # w
    <3>1. n + 1 \in 1..(n + 1)
      BY <1>0
    <3> QED BY <2>1, <1>7, <3>1, Zenon DEF OutEdges
  <2>3. \A k \in 1..n : k \in 1..(n + 1)
    BY <1>0
  <2> QED BY <1>1, <1>6, <2>1, <2>2, <2>3, Zenon DEF Discovering, n
<1>12. SearchTypeOK'
  <2>1. Frame' = Frame
    BY Zenon DEF Frame
  <2>2. index_counter' \in Nat \ {0} /\ start' \in 1..(Count + 1) /\ sccs' = sccs
    BY <1>1 DEF Discovering
  <2> QED BY <1>1, <1>3, <1>4, <1>6, <2>1, <2>2, Zenon DEF SearchTypeOK
<1>13. StackInv'
  <2>1. \A v \in Preds : indices'[v] < index_counter'
    BY <1>0, <1>1, <1>2, SMTT(30)
  <2>2. ASSUME NEW j \in 1..Len(stack'), NEW k \in 1..Len(stack'), j < k
        PROVE  indices'[stack'[j]] < indices'[stack'[k]]
    <3>1. j \in 1..Len(stack) /\ stack'[j] = stack[j] /\ stack[j] \in on_stack
      BY <1>0, <1>4, <2>2
    <3>2. CASE k = Len(stack) + 1
      BY <1>1, <1>4, <1>10, <3>1, <3>2, Zenon
    <3>3. CASE k \in 1..Len(stack)
      <4>1. stack'[k] = stack[k] /\ stack[k] \in on_stack
        BY <1>0, <1>4, <3>3, Zenon
      <4> QED BY <1>10, <2>2, <3>1, <3>3, <4>1, Zenon DEF StackInv
    <3> QED BY <1>0, <1>4, <3>2, <3>3
  <2>3. Found' = on_stack' \union Popped' /\ on_stack' \intersect Popped' = {}
    BY <1>1, <1>4, <1>8 DEF StackInv
  <2>4. \A v \in Preds : v < start' => v \in Found'
    BY <1>1, Zenon DEF Discovering
  <2>5. ASSUME NEW j \in 1..Len(frames'), NEW k \in 1..Len(frames'), j < k
        PROVE  indices'[frames'[j].node] < indices'[frames'[k].node]
    <3>1. j \in 1..n /\ frames'[j].node = frames[j].node /\ frames[j].node \in on_stack
      BY <1>0, <1>6, <1>7, <1>9, <2>5
    <3>2. CASE k = n + 1
      BY <1>1, <1>7, <1>10, <3>1, <3>2, Zenon
    <3>3. CASE k \in 1..n
      <4>1. frames'[k].node = frames[k].node /\ frames[k].node \in on_stack
        BY <1>7, <1>9, <3>3, Zenon
      <4> QED BY <1>10, <2>5, <3>1, <3>3, <4>1, Zenon DEF StackInv, n
    <3> QED BY <1>0, <1>6, <3>2, <3>3
  <2>6. ASSUME NEW k \in 1..Len(frames')
        PROVE  frames'[k].node \in on_stack' /\ frames'[k].rest \subseteq OutEdges(frames'[k].node)
    <3>2. CASE k = n + 1
      BY <1>4, <1>7, <3>2, Zenon
    <3>3. CASE k \in 1..n
      BY <1>4, <1>7, <1>9, <3>3, Zenon DEF StackInv, n
    <3> QED BY <1>0, <1>6, <3>2, <3>3
  <2> QED BY <2>1, <2>2, <2>3, <2>4, <2>5, <2>6, Zenon DEF StackInv, OutEdges
<1>14. ClosedInv'
  <2>1. ASSUME NEW e \in edges, Followed(e)' PROVE e[2] \in Found'
    BY <1>1, <1>11, <2>1, Zenon DEF ClosedInv
  <2> QED BY <1>8, <2>1, SameClass DEF ClosedInv, Discovering
<1>15. ReachInv'
  <2>1. ASSUME NEW x \in on_stack', NEW y \in on_stack', indices'[x] <= indices'[y]
        PROVE  Reaches(x, y)
    <3>1. CASE y = w
      BY <1>4, <3>1, ReachSelf, Zenon DEF Discovering
    <3>2. CASE y # w
      <4>1. y \in on_stack /\ indices'[y] = indices[y] /\ indices[y] < i /\ indices[y] \in Nat
        BY <1>0, <1>4, <1>10, <3>2, Zenon
      <4>2. x # w
        BY <1>1, <2>1, <4>1
      <4>3. x \in on_stack /\ indices'[x] = indices[x]
        BY <1>4, <1>10, <4>2, Zenon
      <4> QED BY <2>1, <4>1, <4>3, Zenon DEF ReachInv
    <3> QED BY <3>1, <3>2, Zenon
  <2>2. ASSUME NEW x \in on_stack'
        PROVE  \E k \in 1..Len(frames') :
                  indices'[frames'[k].node] <= indices'[x] /\ Reaches(x, frames'[k].node)
    <3>1. CASE x = w
      <4>1. n + 1 \in 1..Len(frames')
        BY <1>0, <1>6
      <4>2. indices'[frames'[n + 1].node] <= indices'[x] /\ Reaches(x, frames'[n + 1].node)
        BY <1>1, <1>7, <3>1, ReachSelf
      <4> QED BY <4>1, <4>2, Zenon
    <3>2. CASE x \in on_stack
      <4>1. PICK k \in 1..n : indices[frames[k].node] <= indices[x] /\ Reaches(x, frames[k].node)
        BY <3>2, Zenon DEF ReachInv, n
      <4>2. frames'[k].node = frames[k].node /\ frames[k].node \in on_stack /\ k \in 1..Len(frames')
        BY <1>0, <1>6, <1>7, <1>9
      <4>3. indices'[frames'[k].node] <= indices'[x] /\ Reaches(x, frames'[k].node)
        BY <1>10, <3>2, <4>1, <4>2
      <4> QED BY <4>2, <4>3, Zenon
    <3> QED BY <1>4, <3>1, <3>2, Zenon
  <2> QED BY <2>1, <2>2, PrimedReachInv, Zenon
<1>16. LowlinkInv'
  <2> SUFFICES ASSUME NEW k \in 1..Len(frames')
               PROVE  /\ lowlinks'[frames'[k].node] <= indices'[frames'[k].node]
                      /\ \E u \in on_stack' : /\ indices'[u] = lowlinks'[frames'[k].node]
                                              /\ Reaches(frames'[k].node, u)
                      /\ \A e \in edges :
                            /\ Followed(e)' /\ e[1] \in on_stack' /\ e[2] \in on_stack'
                            /\ InFrame(k, e[1])'
                            => indices'[e[2]] >= lowlinks'[frames'[k].node]
    BY PrimedLowlinkInv, Zenon
  <2>1. CASE k = n + 1
    <3>1. frames'[k].node = w /\ lowlinks'[w] = i /\ indices'[w] = i /\ w \in on_stack'
      BY <1>1, <1>3, <1>4, <1>7, <2>1, Zenon
    <3>2. ASSUME NEW e \in edges, Followed(e)', e[1] \in on_stack', InFrame(k, e[1])'
          PROVE  FALSE
      <4>1. e[1] \in on_stack /\ indices'[e[1]] >= i
        BY <1>4, <1>11, <3>1, <3>2, Zenon DEF InFrame
      <4>2. indices'[e[1]] = indices[e[1]] /\ indices[e[1]] < i /\ indices[e[1]] \in Nat
        BY <1>0, <1>10, <4>1, Zenon
      <4>3. i \in Nat
        BY <1>1, Zenon
      <4> QED BY <4>1, <4>2, <4>3
    <3>3. i <= i
      BY <1>1
    <3>4. /\ lowlinks'[w] <= indices'[w]
          /\ \E u \in on_stack' : indices'[u] = lowlinks'[w] /\ Reaches(w, u)
      BY <3>1, <3>3, ReachSelf, Zenon
    <3>5. frames'[k].node = w
      BY <3>1, Zenon
    <3> QED BY <3>2, <3>4, <3>5, Zenon
  <2>2. CASE k \in 1..n
    <3> DEFINE v == frames[k].node
    <3>1. /\ frames'[k].node = v /\ v \in on_stack /\ v \in Preds
          /\ lowlinks'[v] = lowlinks[v] /\ indices'[v] = indices[v] /\ lowlinks[v] \in Nat
      BY <1>0, <1>3, <1>7, <1>9, <1>10, <2>2, Zenon
    <3>2. lowlinks[v] <= indices[v] /\ indices[v] < i
      BY <1>10, <2>2, <3>1, Zenon DEF LowlinkInv, n
    <3>3. PICK u \in on_stack : indices[u] = lowlinks[v] /\ Reaches(v, u)
      BY <2>2, Zenon DEF LowlinkInv, n
    <3>4. u \in on_stack' /\ indices'[u] = lowlinks'[v] /\ Reaches(v, u)
      BY <1>4, <1>10, <3>1, <3>3, Zenon
    <3>5. ASSUME NEW e \in edges, Followed(e)', e[1] \in on_stack', e[2] \in on_stack',
                 InFrame(k, e[1])'
          PROVE  indices'[e[2]] >= lowlinks'[v]
      <4>1. CASE e[2] = w
        BY <1>1, <3>1, <3>2, <4>1, <1>0
      <4>2. CASE e[2] # w
        <5>1. e[1] \in on_stack /\ e[2] \in on_stack /\ Followed(e)
          BY <1>4, <1>11, <3>5, <4>2, Zenon
        <5>2. InFrame(k, e[1])
          <6>1. indices[e[1]] >= indices[v]
            BY <1>10, <3>1, <3>5, <5>1, Zenon DEF InFrame
          <6>2. ASSUME k < n PROVE indices[e[1]] < indices[frames[k + 1].node]
            <7>1. k < n + 1 /\ k + 1 \in 1..n
              BY <1>0, <2>2, <6>2
            <7>2. indices'[e[1]] < indices'[frames'[k + 1].node]
              BY <1>6, <3>5, <7>1, Zenon DEF InFrame
            <7> QED BY <1>7, <1>9, <1>10, <5>1, <7>1, <7>2, Zenon
          <6> QED BY <6>1, <6>2, Zenon DEF InFrame, n
        <5>3. indices[e[2]] >= lowlinks[v]
          BY <2>2, <5>1, <5>2, Zenon DEF LowlinkInv, n
        <5> QED BY <1>10, <3>1, <5>1, <5>3, Zenon
      <4> QED BY <4>1, <4>2, Zenon
    <3> QED BY <3>1, <3>2, <3>4, <3>5, Zenon
  <2> QED BY <1>0, <1>6, <2>1, <2>2
<1> QED BY <1>12, <1>13, <1>14, <1>15, <1>16, Zenon DEF SearchInv

(* A root that is already discovered only moves the outer loop on.         *)
LEMMA NextRootKeeps ==
  ASSUME SearchInv, NextRoot
  PROVE  SearchInv'
<1> SearchTypeOK /\ StackInv /\ ReachInv /\ edges' = edges /\ sccs' = sccs
  BY Zenon DEF SearchInv, NextRoot
<1>1. /\ frames = <<>> /\ start \in Preds /\ start' = start + 1
  BY Zenon DEF NextRoot
<1>2. /\ start' \in 1..(Count + 1)
      /\ \A v \in Preds : v < start' => v \in Found \/ v = start
  BY <1>1, CountIsNat DEF StackInv
<1>3. CASE indices[start] # None
  <2>1. UNCHANGED <<index_counter, indices, lowlinks, stack, frames>>
    BY <1>3, Zenon DEF NextRoot
  <2>2. /\ on_stack' = on_stack /\ index_counter' = index_counter /\ Popped' = Popped
        /\ Found' = Found /\ Frame' = Frame
        /\ \A v : OutEdges(v)' = OutEdges(v)
    BY <2>1, Zenon DEF on_stack, Popped, Found, Frame, OutEdges
  <2>3. \A e, k : (Followed(e)' <=> Followed(e)) /\ (InFrame(k, e[1])' <=> InFrame(k, e[1]))
    BY <2>1, <2>2, Zenon DEF Followed, InFrame
  <2>4. start \in Found
    BY <1>1, <1>3, Zenon DEF Found
  <2>5. SearchTypeOK'
    BY <1>2, <2>1, <2>2, Zenon DEF SearchTypeOK
  <2>6. StackInv'
    BY <1>2, <2>1, <2>2, <2>4, Zenon DEF StackInv
  <2>7. ClosedInv'
    BY <2>1, <2>2, <2>3, SameClass, Zenon DEF ClosedInv, SearchInv
  <2>8. ReachInv'
    BY <2>1, <2>2, SameReach, Zenon DEF ReachInv
  <2>9. LowlinkInv'
    BY <2>1, <2>2, <2>3, SameReach, Zenon DEF LowlinkInv, SearchInv
  <2> QED BY <2>5, <2>6, <2>7, <2>8, <2>9, Zenon DEF SearchInv
<1>4. CASE indices[start] = None
  <2>1. Len(frames) = 0 /\ frames \in Seq(Frame)
    BY <1>1, Zenon DEF SearchTypeOK
  <2>2. on_stack = {}
    BY <2>1 DEF ReachInv
  <2>3. Discover(start, frames)
    BY <1>1, <1>4, Zenon DEF NextRoot
  <2>4. \A e \in edges :
           e[1] \in Found /\ (\A k \in 1..Len(frames) : e \notin frames[k].rest) => Followed(e)
    BY Zenon DEF Followed
  <2>5. Discovering(start, frames)
    BY <1>1, <1>2, <1>4, <2>1, <2>2, <2>3, <2>4, Zenon DEF Discovering
  <2> QED BY <2>5, DiscoverKeeps, Zenon
<1> QED BY <1>3, <1>4, Zenon

(* The top frame takes its edge e.                                         *)
Taken(e) == Append(lower_frames, [top_frame EXCEPT !.rest = @ \ {e}])

LEMMA TakeEdge ==
  ASSUME SearchInv, frames # <<>>, NEW e \in top_frame.rest,
         NEW p, p = Taken(e)
  PROVE  /\ Len(frames) \in Nat \ {0} /\ top_frame = frames[Len(frames)]
         /\ e \in edges /\ e[1] = top_frame.node /\ e[2] \in Preds
         /\ p \in Seq(Frame) /\ Len(p) = Len(frames)
         /\ \A k \in 1..Len(frames) : /\ p[k].node = frames[k].node
                                      /\ p[k].rest \subseteq frames[k].rest
         /\ \A f \in edges : f[1] \in Found /\ (\A k \in 1..Len(frames) : f \notin p[k].rest) =>
               Followed(f) \/ f = e
<1> DEFINE n == Len(frames)
           r == top_frame.rest \ {e}
           t == [top_frame EXCEPT !.rest = r]
<1> SearchTypeOK /\ StackInv
  BY Zenon DEF SearchInv
<1>1. n \in Nat \ {0} /\ top_frame = frames[n] /\ n \in 1..n
  BY LowerFrames DEF SearchTypeOK
<1>2. frames[n].rest \subseteq OutEdges(frames[n].node) /\ frames[n].rest \subseteq edges
  BY <1>1, SearchTyped, Zenon DEF StackInv
<1>3. e \in edges /\ e[1] = top_frame.node
  BY <1>1, <1>2, Zenon DEF OutEdges
<1>4. e[2] \in Preds
  BY <1>3, EdgesTyped, Zenon DEF SearchTypeOK
<1>5. frames \in Seq(Frame) /\ frames[n] \in Frame
  BY <1>1, Element, Zenon DEF SearchTypeOK
<1>9. p = Append(lower_frames, t) /\ t \in Frame /\ t.node = frames[n].node /\ t.rest = r
  BY <1>1, <1>2, <1>5, Zenon DEF Frame, Taken
<1> HIDE DEF r, t
<1>10. /\ p \in Seq(Frame) /\ Len(p) = n /\ p[n] = t
       /\ \A k \in 1..n : p[k].node = frames[k].node
       /\ \A k \in 1..n : k # n => p[k].rest = frames[k].rest
  <2>1. frames \in Seq(Frame) /\ t \in Frame /\ t.node = frames[Len(frames)].node /\ p = Append(lower_frames, t)
    BY <1>5, <1>9, Zenon
  <2> HIDE DEF n
  <2>2. /\ p \in Seq(Frame) /\ Len(p) = Len(frames) /\ p[Len(frames)] = t
        /\ \A k \in 1..Len(frames) : p[k].node = frames[k].node
        /\ \A k \in 1..Len(frames) : k # Len(frames) => p[k].rest = frames[k].rest
    BY <2>1, TopFrame, Zenon
  <2> QED BY <2>2, Zenon DEF n
<1>6. /\ p \in Seq(Frame) /\ Len(p) = n /\ p[n].rest = r
      /\ \A k \in 1..n : p[k].node = frames[k].node
      /\ \A k \in 1..n : k # n => p[k].rest = frames[k].rest
  BY <1>9, <1>10, Zenon
<1>7. ASSUME NEW k \in 1..n PROVE p[k].rest \subseteq frames[k].rest
  <2>1. CASE k = n
    BY <1>1, <1>6, <2>1, Zenon DEF r
  <2>2. CASE k # n
    BY <1>6, <2>2, Zenon
  <2> QED BY <2>1, <2>2, Zenon
<1>8. ASSUME NEW f \in edges, f[1] \in Found, \A k \in 1..n : f \notin p[k].rest
      PROVE  Followed(f) \/ f = e
  <2>1. f = e \/ f \notin frames[n].rest
    BY <1>1, <1>6, <1>8, Zenon DEF r
  <2>2. \A k \in 1..n : k # n => f \notin frames[k].rest
    BY <1>6, <1>8, Zenon
  <2> QED BY <1>8, <2>1, <2>2, Zenon DEF Followed
<1> QED BY <1>1, <1>3, <1>4, <1>6, <1>7, <1>8, Zenon

(* The child at the end of e has been discovered before.                   *)
LEMMA KnownChildKeeps ==
  ASSUME SearchInv, frames # <<>>, NEW e \in top_frame.rest, indices[e[2]] # None,
         frames' = Taken(e),
         lowlinks' = IF e[2] \in on_stack /\ indices[e[2]] < lowlinks[top_frame.node]
                     THEN [lowlinks EXCEPT ![top_frame.node] = indices[e[2]]] ELSE lowlinks,
         UNCHANGED <<edges, start, stack, index_counter, indices, sccs>>
  PROVE  SearchInv'
<1> DEFINE n == Len(frames)
           v == top_frame.node
           w == e[2]
<1> SearchTypeOK /\ StackInv /\ ClosedInv /\ ReachInv /\ LowlinkInv /\ edges' = edges
  BY Zenon DEF SearchInv
<1>1. /\ n \in Nat \ {0} /\ top_frame = frames[n]
      /\ e \in edges /\ e[1] = v /\ w \in Preds
      /\ frames' \in Seq(Frame) /\ Len(frames') = n
      /\ \A k \in 1..n : frames'[k].node = frames[k].node /\ frames'[k].rest \subseteq frames[k].rest
      /\ \A f \in edges : f[1] \in Found /\ (\A k \in 1..n : f \notin frames'[k].rest) =>
            Followed(f) \/ f = e
  BY TakeEdge, Zenon
<1>2. /\ \A u \in Preds : indices[u] \in Nat /\ lowlinks[u] \in Nat
      /\ on_stack \subseteq Preds /\ Found \subseteq Preds
      /\ \A k \in 1..n : frames[k].node \in on_stack
  BY SearchTyped, Zenon DEF StackInv
<1>3. v \in on_stack /\ v \in Preds /\ w \in Found /\ v = frames[n].node
  BY <1>1, <1>2 DEF Found
<1>4. /\ lowlinks' \in [Preds -> Nat]
      /\ \A u \in Preds : /\ lowlinks'[u] <= lowlinks[u] /\ lowlinks'[u] \in Nat
                          /\ \/ lowlinks'[u] = lowlinks[u]
                             \/ u = v /\ w \in on_stack /\ lowlinks'[u] = indices[w]
      /\ w \in on_stack => lowlinks'[v] <= indices[w]
  <2>1. CASE w \in on_stack /\ indices[w] < lowlinks[v]
    <3>1. lowlinks' = [lowlinks EXCEPT ![v] = indices[w]]
      BY <2>1, Zenon
    <3> QED BY <1>1, <1>2, <1>3, <2>1, <3>1, SMTT(30) DEF SearchTypeOK
  <2>2. CASE ~(w \in on_stack /\ indices[w] < lowlinks[v])
    <3>1. lowlinks' = lowlinks
      BY <2>2, Zenon
    <3> QED BY <1>1, <1>2, <1>3, <2>2, <3>1, SMTT(30) DEF SearchTypeOK
  <2> QED BY <2>1, <2>2, Zenon
<1>5. /\ on_stack' = on_stack /\ index_counter' = index_counter /\ Popped' = Popped
      /\ Found' = Found /\ Frame' = Frame
      /\ \A u : OutEdges(u)' = OutEdges(u)
  BY Zenon DEF on_stack, Popped, Found, Frame, OutEdges
<1> HIDE DEF n, v, w
<1>6. \A f \in edges : Followed(f)' => Followed(f) \/ f = e
  BY <1>1, <1>5, Zenon DEF Followed
<1>7. SearchTypeOK'
  BY <1>1, <1>4, <1>5, Zenon DEF SearchTypeOK
<1>8. StackInv'
  <2>1. \A k \in 1..n : frames'[k].node \in on_stack /\ frames'[k].rest \subseteq OutEdges(frames'[k].node)
    BY <1>1, Zenon DEF StackInv, n
  <2>2. \A j, k \in 1..n : j < k => indices[frames'[j].node] < indices[frames'[k].node]
    BY <1>1, Zenon DEF StackInv, n
  <2> QED BY <1>1, <1>5, <2>1, <2>2 DEF StackInv, OutEdges
<1>9. ClosedInv'
  BY <1>3, <1>5, <1>6, SameClass, Zenon DEF ClosedInv, w
<1>10. ReachInv'
  <2>1. \A x \in on_stack : \E k \in 1..n :
           indices[frames'[k].node] <= indices[x] /\ Reaches(x, frames'[k].node)
    BY <1>1, Zenon DEF ReachInv, n
  <2> QED BY <1>1, <1>5, <2>1, PrimedReachInv, Zenon DEF ReachInv
<1>11. LowlinkInv'
  <2> SUFFICES ASSUME NEW k \in 1..n, NEW u, u = frames'[k].node
               PROVE  /\ lowlinks'[u] <= indices[u]
                      /\ \E x \in on_stack : indices[x] = lowlinks'[u] /\ Reaches(u, x)
                      /\ \A f \in edges :
                            /\ Followed(f)' /\ f[1] \in on_stack /\ f[2] \in on_stack
                            /\ InFrame(k, f[1])'
                            => indices[f[2]] >= lowlinks'[u]
    BY <1>1, <1>5, PrimedLowlinkInv
  <2>1. u = frames[k].node /\ u \in on_stack /\ u \in Preds
    BY <1>1, <1>2, Zenon
  <2>2. /\ lowlinks[u] <= indices[u]
        /\ \E x \in on_stack : indices[x] = lowlinks[u] /\ Reaches(u, x)
        /\ \A f \in edges :
              Followed(f) /\ f[1] \in on_stack /\ f[2] \in on_stack /\ InFrame(k, f[1]) =>
                  indices[f[2]] >= lowlinks[u]
    BY <2>1, Zenon DEF LowlinkInv, n
  <2>3. lowlinks'[u] <= indices[u]
    BY <1>2, <1>4, <2>1, <2>2
  <2>4. \E x \in on_stack : indices[x] = lowlinks'[u] /\ Reaches(u, x)
    <3>1. CASE lowlinks'[u] = lowlinks[u]
      BY <2>2, <3>1, Zenon
    <3>2. CASE u = v /\ w \in on_stack /\ lowlinks'[u] = indices[w]
      BY <1>1, <3>2, ReachEdge, Zenon DEF w
    <3> QED BY <1>4, <2>1, <3>1, <3>2, Zenon
  <2>5. ASSUME NEW f \in edges, Followed(f)', f[1] \in on_stack, f[2] \in on_stack, InFrame(k, f[1])'
        PROVE  indices[f[2]] >= lowlinks'[u]
    <3>1. InFrame(k, f[1])
      BY <1>1, <2>5, SMTT(30) DEF InFrame, n
    <3>2. CASE Followed(f)
      BY <1>2, <1>4, <2>1, <2>2, <2>5, <3>1, <3>2
    <3>3. CASE f = e
      <4>1. k = n
        <5>1. CASE k < n
          <6>1. indices[v] < indices[frames[k + 1].node] /\ k + 1 \in 1..n
            BY <1>1, <3>1, <3>3, <5>1 DEF InFrame, n
          <6>2. CASE k + 1 = n
            BY <1>2, <1>3, <6>1, <6>2
          <6>3. CASE k + 1 < n
            <7>1. indices[frames[k + 1].node] < indices[v]
              BY <1>1, <1>3, <6>1, <6>3 DEF StackInv, n
            <7>2. frames[k + 1].node \in Preds
              BY <1>2, <6>1, Zenon
            <7> QED BY <1>2, <1>3, <6>1, <7>1, <7>2
          <6> QED BY <1>1, <6>1, <6>2, <6>3
        <5> QED BY <1>1, <5>1
      <4> QED BY <1>3, <1>4, <2>1, <2>5, <3>3, <4>1, Zenon DEF w
    <3> QED BY <1>6, <2>5, <3>2, <3>3, Zenon
  <2> QED BY <2>3, <2>4, <2>5, Zenon
<1> QED BY <1>7, <1>8, <1>9, <1>10, <1>11, Zenon DEF SearchInv

LEMMA VisitChildKeeps ==
  ASSUME SearchInv, VisitChild
  PROVE  SearchInv'
<1> SearchTypeOK /\ StackInv /\ ReachInv
  BY Zenon DEF SearchInv
<1>1. frames # <<>> /\ UNCHANGED <<edges, start, sccs>>
  BY Zenon DEF VisitChild
<1>2. PICK e \in top_frame.rest :
         IF indices[e[2]] = None
         THEN Discover(e[2], Taken(e))
         ELSE /\ frames' = Taken(e)
              /\ lowlinks' = IF e[2] \in on_stack /\ indices[e[2]] < lowlinks[top_frame.node]
                             THEN [lowlinks EXCEPT ![top_frame.node] = indices[e[2]]]
                             ELSE lowlinks
              /\ UNCHANGED <<stack, index_counter, indices>>
  BY Zenon DEF VisitChild, Taken
<1>3. CASE indices[e[2]] # None
  BY <1>1, <1>2, <1>3, KnownChildKeeps, Zenon
<1>4. CASE indices[e[2]] = None
  <2> DEFINE w == e[2]
             p == Taken(e)
  <2>1. /\ Len(frames) \in Nat \ {0} /\ top_frame = frames[Len(frames)]
        /\ e \in edges /\ e[1] = top_frame.node /\ w \in Preds
        /\ p \in Seq(Frame) /\ Len(p) = Len(frames)
        /\ \A k \in 1..Len(frames) : /\ p[k].node = frames[k].node
                                     /\ p[k].rest \subseteq frames[k].rest
        /\ \A f \in edges : f[1] \in Found /\ (\A k \in 1..Len(frames) : f \notin p[k].rest) =>
              Followed(f) \/ f = e
    BY <1>1, TakeEdge, Zenon
  <2>2. Discover(w, p) /\ indices[w] = None
    BY <1>2, <1>4, Zenon
  <2> HIDE DEF p
  <2>3. \A x \in on_stack : Reaches(x, w)
    BY <1>1, <2>1, ReachTop, ReachEdge, ReachTrans, Zenon
  <2>4. start' \in 1..(Count + 1) /\ \A v \in Preds : v < start' => v \in Found
    BY <1>1, Zenon DEF StackInv, SearchTypeOK
  <2>5. Discovering(w, p)
    BY <1>1, <2>1, <2>2, <2>3, <2>4, Zenon DEF Discovering
  <2> QED BY <2>5, DiscoverKeeps, Zenon
<1> QED BY <1>3, <1>4, Zenon

(* The elements of a stack whose indices grow from k on.                   *)
LEMMA StackSplit ==
  ASSUME SearchTypeOK, StackInv, NEW k \in 1..Len(stack)
  PROVE  /\ {stack[j] : j \in k..Len(stack)} = {x \in on_stack : indices[x] >= indices[stack[k]]}
         /\ {SubSeq(stack, 1, k - 1)[j] : j \in 1..(k - 1)} = {x \in on_stack : indices[x] < indices[stack[k]]}
         /\ SubSeq(stack, 1, k - 1) \in Seq(Preds) /\ Len(SubSeq(stack, 1, k - 1)) = k - 1
         /\ \A j \in 1..(k - 1) : SubSeq(stack, 1, k - 1)[j] = stack[j]
<1> DEFINE n == Len(stack)
           low == SubSeq(stack, 1, k - 1)
<1>1. /\ n \in Nat /\ \A j \in 1..n : stack[j] \in Preds /\ indices[stack[j]] \in Nat
      /\ on_stack = {stack[j] : j \in 1..n}
  BY SearchTyped, StackIs, Zenon
<1>2. k - 1 \in 0..n /\ stack \in Seq(Preds)
  BY <1>1 DEF SearchTypeOK
<1>3. low \in Seq(Preds) /\ Len(low) = k - 1 /\ \A j \in 1..(k - 1) : low[j] = stack[j]
  BY <1>2, Prefix, Zenon
<1> HIDE DEF low
<1>4. {low[j] : j \in 1..(k - 1)} = {stack[j] : j \in 1..(k - 1)}
  BY <1>3, Zenon
<1>5. ASSUME NEW j \in 1..n
      PROVE  /\ j \in k..n => indices[stack[j]] >= indices[stack[k]]
             /\ j \in 1..(k - 1) => indices[stack[j]] < indices[stack[k]]
  <2>1. CASE j = k
    BY <1>1, <2>1
  <2>2. CASE j < k
    BY <1>1, <2>2 DEF StackInv
  <2>3. CASE k < j
    BY <1>1, <2>3 DEF StackInv
  <2> QED BY <1>1, <2>1, <2>2, <2>3
<1>6. \A j \in 1..n : /\ j \in k..n \/ j \in 1..(k - 1)
                      /\ j \in k..n <=> indices[stack[j]] >= indices[stack[k]]
                      /\ j \in 1..(k - 1) <=> indices[stack[j]] < indices[stack[k]]
  BY <1>1, <1>5
<1>7. (\A j \in k..n : j \in 1..n) /\ (\A j \in 1..(k - 1) : j \in 1..n)
  BY <1>1
<1>8. {stack[j] : j \in k..n} = {x \in on_stack : indices[x] >= indices[stack[k]]}
  BY <1>1, <1>6, <1>7, Zenon
<1>9. {stack[j] : j \in 1..(k - 1)} = {x \in on_stack : indices[x] < indices[stack[k]]}
  BY <1>1, <1>6, <1>7, Zenon
<1> QED BY <1>3, <1>4, <1>8, <1>9, Zenon DEF low

(* Every child of the top frame's node v is done: every edge from v and    *)
(* from what was found after it has been followed.                         *)
LEMMA TopIsDone ==
  ASSUME SearchInv, frames # <<>>, top_frame.rest = {},
         NEW e \in edges, e[1] \in on_stack, indices[e[1]] >= indices[top_frame.node]
  PROVE  Followed(e)
<1> DEFINE n == Len(frames)
<1> SearchTypeOK /\ StackInv
  BY Zenon DEF SearchInv
<1>1. n \in Nat \ {0} /\ top_frame = frames[n] /\ n \in 1..n
  BY LowerFrames DEF SearchTypeOK
<1>2. e[1] \in Found
  BY Zenon DEF StackInv
<1>3. ASSUME NEW k \in 1..n, e \in frames[k].rest PROVE FALSE
  <2>1. e[1] = frames[k].node /\ k # n
    BY <1>1, <1>3, Zenon DEF StackInv, OutEdges
  <2>2. indices[e[1]] < indices[frames[n].node]
    BY <1>1, <2>1 DEF StackInv
  <2>3. indices[e[1]] \in Nat /\ indices[frames[n].node] \in Nat
    BY <1>1, SearchTyped, Zenon
  <2> QED BY <1>1, <2>2, <2>3
<1> QED BY <1>2, <1>3, Zenon DEF Followed

(* The frames after the top one is closed.                                 *)
LEMMA Closing ==
  ASSUME SearchInv, frames # <<>>, top_frame.rest = {}, frames' = lower_frames,
         UNCHANGED <<edges, start, index_counter, indices>>
  PROVE  /\ Len(frames) \in Nat \ {0} /\ top_frame = frames[Len(frames)]
         /\ frames' \in Seq(Frame) /\ Len(frames') = Len(frames) - 1
         /\ \A k \in 1..(Len(frames) - 1) : k \in 1..Len(frames) /\ frames'[k] = frames[k]
         /\ \A e : Followed(e)' <=> Followed(e)
         /\ Found' = Found /\ index_counter' = index_counter
<1> DEFINE n == Len(frames)
<1> SearchTypeOK /\ StackInv
  BY Zenon DEF SearchInv
<1>1. /\ n \in Nat \ {0} /\ top_frame = frames[n]
      /\ frames' \in Seq(Frame) /\ Len(frames') = n - 1
      /\ \A k \in 1..(n - 1) : frames'[k] = frames[k]
  BY LowerFrames, Zenon DEF SearchTypeOK
<1>2. Found' = Found /\ index_counter' = index_counter
  BY Zenon DEF Found
<1>3. \A k \in 1..n : k = n \/ k \in 1..(n - 1)
  BY <1>1
<1>4. \A k \in 1..(n - 1) : k \in 1..n
  BY <1>1
<1>5. ASSUME NEW e PROVE Followed(e)' <=> Followed(e)
  <2>1. (\A k \in 1..n : e \notin frames[k].rest) <=> (\A k \in 1..(n - 1) : e \notin frames'[k].rest)
    BY <1>1, <1>3, <1>4, Zenon
  <2> QED BY <1>1, <1>2, <2>1, Zenon DEF Followed
<1> QED BY <1>1, <1>2, <1>4, <1>5, Zenon

(* What CloseFrame does to the parent's lowlink.                           *)
Propagated ==
    lowlinks' = IF Len(frames) > 1
                THEN IF lowlinks[top_frame.node] < lowlinks[frames[Len(frames) - 1].node]
                     THEN [lowlinks EXCEPT ![frames[Len(frames) - 1].node]
                                              = lowlinks[top_frame.node]]
                     ELSE lowlinks
                ELSE lowlinks

LEMMA ParentLowlink ==
  ASSUME SearchInv, frames # <<>>, Propagated
  PROVE  /\ lowlinks' \in [Preds -> Nat]
         /\ \A u \in Preds : /\ lowlinks'[u] <= lowlinks[u] /\ lowlinks'[u] \in Nat
                             /\ \/ lowlinks'[u] = lowlinks[u]
                                \/ /\ Len(frames) > 1 /\ u = frames[Len(frames) - 1].node
                                   /\ lowlinks[top_frame.node] < lowlinks[u]
                                   /\ lowlinks'[u] = lowlinks[top_frame.node]
         /\ Len(frames) > 1 =>
               lowlinks'[frames[Len(frames) - 1].node] <= lowlinks[top_frame.node]
<1> DEFINE n == Len(frames)
           v == top_frame.node
           p == frames[n - 1].node
<1> SearchTypeOK
  BY Zenon DEF SearchInv
<1>1. n \in Nat \ {0} /\ top_frame = frames[n] /\ n \in 1..n
  BY LowerFrames DEF SearchTypeOK
<1>2. v \in Preds /\ lowlinks \in [Preds -> Nat] /\ lowlinks[v] \in Nat
  BY <1>1, SearchTyped, Zenon DEF SearchTypeOK
<1>3. ASSUME n > 1 PROVE p \in Preds
  BY <1>1, <1>3, SearchTyped
<1>4. lowlinks' = IF n > 1 /\ lowlinks[v] < lowlinks[p]
                  THEN [lowlinks EXCEPT ![p] = lowlinks[v]] ELSE lowlinks
  BY Zenon DEF Propagated
<1> HIDE DEF n, v, p
<1>5. CASE n > 1 /\ lowlinks[v] < lowlinks[p]
  <2>1. lowlinks' = [lowlinks EXCEPT ![p] = lowlinks[v]]
    BY <1>4, <1>5, Zenon
  <2>2. lowlinks' \in [Preds -> Nat] /\ lowlinks'[p] = lowlinks[v]
    BY <1>2, <1>3, <1>5, <2>1, Zenon
  <2>3. ASSUME NEW u \in Preds
        PROVE  /\ lowlinks'[u] <= lowlinks[u] /\ lowlinks'[u] \in Nat
               /\ lowlinks'[u] = lowlinks[u] \/ (u = p /\ lowlinks'[u] = lowlinks[v])
    BY <1>2, <1>3, <1>5, <2>1
  <2> QED BY <1>2, <1>5, <2>2, <2>3, Zenon DEF n, v, p
<1>6. CASE ~(n > 1 /\ lowlinks[v] < lowlinks[p])
  <2>1. lowlinks' = lowlinks
    BY <1>4, <1>6, Zenon
  <2>2. \A u \in Preds : lowlinks'[u] = lowlinks[u] /\ lowlinks[u] \in Nat
    BY <1>2, <2>1, Zenon
  <2>3. n > 1 => lowlinks'[p] <= lowlinks[v]
    BY <1>2, <1>3, <1>6, <2>2
  <2> QED BY <1>2, <2>1, <2>2, <2>3 DEF n, v, p
<1> QED BY <1>5, <1>6, Zenon

(* The node of the top frame reaches below itself on the stack: it stays   *)
(* there, with what was found after it, under its parent's frame.          *)
LEMMA CloseInsideKeeps ==
  ASSUME SearchInv, frames # <<>>, top_frame.rest = {}, frames' = lower_frames, Propagated,
         lowlinks[top_frame.node] # indices[top_frame.node],
         UNCHANGED <<edges, start, stack, index_counter, indices, sccs>>
  PROVE  SearchInv'
<1> DEFINE n == Len(frames)
           v == top_frame.node
           p == frames[n - 1].node
<1> SearchTypeOK /\ StackInv /\ ClosedInv /\ ReachInv /\ LowlinkInv /\ edges' = edges
  BY Zenon DEF SearchInv
<1>1. /\ n \in Nat \ {0} /\ v = frames[n].node /\ n \in 1..n
      /\ frames' \in Seq(Frame) /\ Len(frames') = n - 1
      /\ \A k \in 1..(n - 1) : k \in 1..n /\ frames'[k] = frames[k]
      /\ \A e : Followed(e)' <=> Followed(e)
      /\ Found' = Found /\ index_counter' = index_counter
  BY Closing
<1>2. /\ lowlinks' \in [Preds -> Nat]
      /\ \A u \in Preds : /\ lowlinks'[u] <= lowlinks[u] /\ lowlinks'[u] \in Nat
                          /\ \/ lowlinks'[u] = lowlinks[u]
                             \/ /\ n > 1 /\ u = p /\ lowlinks[v] < lowlinks[u]
                                /\ lowlinks'[u] = lowlinks[v]
      /\ n > 1 => lowlinks'[p] <= lowlinks[v]
  BY ParentLowlink, Zenon
<1>3. /\ \A u \in Preds : indices[u] \in Nat /\ lowlinks[u] \in Nat
      /\ on_stack \subseteq Preds /\ Found \subseteq Preds
      /\ \A k \in 1..n : frames[k].node \in on_stack
      /\ \A j, k \in 1..n : j < k => indices[frames[j].node] < indices[frames[k].node]
  BY SearchTyped, Zenon DEF StackInv
<1> HIDE DEF n, v, p
<1>4. v \in on_stack /\ v \in Preds /\ lowlinks[v] < indices[v]
  <2>1. lowlinks[v] <= indices[v]
    BY <1>1, Zenon DEF LowlinkInv, n
  <2> QED BY <1>1, <1>3, <2>1, SMTT(30) DEF v
<1>5. PICK u \in on_stack : indices[u] = lowlinks[v] /\ Reaches(v, u)
  BY <1>1, Zenon DEF LowlinkInv, n
<1>6. PICK g \in 1..n : indices[frames[g].node] <= indices[u] /\ Reaches(u, frames[g].node)
  BY Zenon DEF ReachInv, n
<1>7. g # n
  BY <1>1, <1>3, <1>4, <1>5, <1>6
<1>8. g \in 1..(n - 1) /\ n > 1 /\ n - 1 \in 1..n /\ n - 1 \in 1..(n - 1)
  BY <1>1, <1>7
<1>9. p \in on_stack /\ p \in Preds /\ indices[p] < indices[v] /\ Reaches(p, v)
  <2>1. p \in on_stack /\ indices[p] < indices[v]
    BY <1>1, <1>3, <1>8 DEF p
  <2> QED BY <1>3, <1>4, <2>1 DEF ReachInv
<1>10. /\ on_stack' = on_stack /\ Popped' = Popped /\ Frame' = Frame
       /\ \A x : OutEdges(x)' = OutEdges(x)
  BY Zenon DEF on_stack, Popped, Frame, OutEdges
<1>11. SearchTypeOK'
  BY <1>1, <1>2, <1>10, Zenon DEF SearchTypeOK
<1>12. StackInv'
  <2>1. \A k \in 1..(n - 1) : frames'[k].node \in on_stack /\ frames'[k].rest \subseteq OutEdges(frames'[k].node)
    BY <1>1, Zenon DEF StackInv, n
  <2>2. \A j, k \in 1..(n - 1) : j < k => indices[frames'[j].node] < indices[frames'[k].node]
    BY <1>1, <1>3, Zenon
  <2> QED BY <1>1, <1>10, <2>1, <2>2, Zenon DEF StackInv
<1>13. ClosedInv'
  BY <1>1, <1>10, SameClass, SMTT(30) DEF ClosedInv
<1>14. ReachInv'
  <2>1. ASSUME NEW x \in on_stack
        PROVE  \E k \in 1..(n - 1) :
                  indices[frames'[k].node] <= indices[x] /\ Reaches(x, frames'[k].node)
    <3>1. PICK k \in 1..n : indices[frames[k].node] <= indices[x] /\ Reaches(x, frames[k].node)
      BY Zenon DEF ReachInv, n
    <3>2. CASE k = n
      <4>1. Reaches(x, v) /\ indices[v] <= indices[x]
        BY <1>1, <3>1, <3>2, Zenon
      <4>2. Reaches(x, frames[g].node)
        BY <1>5, <1>6, <4>1, ReachTrans, Zenon
      <4>3. frames[g].node \in on_stack
        BY <1>3, Zenon
      <4>4. indices[frames[g].node] <= indices[x]
        BY <1>3, <1>4, <1>5, <1>6, <4>1, <4>3, SMTT(30)
      <4> QED BY <1>1, <1>8, <4>2, <4>4, Zenon
    <3>3. CASE k # n
      <4>1. k \in 1..(n - 1)
        BY <1>1, <3>3, SMTT(30)
      <4> QED BY <1>1, <3>1, <4>1, Zenon
    <3> QED BY <3>2, <3>3, Zenon
  <2> QED BY <1>1, <1>10, <2>1, PrimedReachInv, Zenon DEF ReachInv
<1>15. LowlinkInv'
  <2> SUFFICES ASSUME NEW k \in 1..(n - 1), NEW y, y = frames'[k].node
               PROVE  /\ lowlinks'[y] <= indices[y]
                      /\ \E x \in on_stack : indices[x] = lowlinks'[y] /\ Reaches(y, x)
                      /\ \A f \in edges :
                            /\ Followed(f)' /\ f[1] \in on_stack /\ f[2] \in on_stack
                            /\ InFrame(k, f[1])'
                            => indices[f[2]] >= lowlinks'[y]
    BY <1>1, <1>10, PrimedLowlinkInv, Zenon
  <2>1. y = frames[k].node /\ y \in on_stack /\ y \in Preds /\ k \in 1..n
    BY <1>1, <1>3, Zenon
  <2>2. /\ lowlinks[y] <= indices[y]
        /\ \E x \in on_stack : indices[x] = lowlinks[y] /\ Reaches(y, x)
        /\ \A f \in edges :
              Followed(f) /\ f[1] \in on_stack /\ f[2] \in on_stack /\ InFrame(k, f[1]) =>
                  indices[f[2]] >= lowlinks[y]
    BY <2>1, Zenon DEF LowlinkInv, n
  <2>3. lowlinks'[y] <= indices[y]
    BY <1>2, <1>3, <2>1, <2>2, SMTT(30)
  <2>4. \E x \in on_stack : indices[x] = lowlinks'[y] /\ Reaches(y, x)
    <3>1. CASE lowlinks'[y] = lowlinks[y]
      BY <2>2, <3>1, Zenon
    <3>2. CASE y = p /\ lowlinks'[y] = lowlinks[v]
      BY <1>5, <1>9, <3>2, ReachTrans, Zenon
    <3> QED BY <1>2, <2>1, <3>1, <3>2, Zenon
  <2>5. ASSUME NEW f \in edges, Followed(f), f[1] \in on_stack, f[2] \in on_stack, InFrame(k, f[1])'
        PROVE  indices[f[2]] >= lowlinks'[y]
    <3>1. indices[f[1]] >= indices[y] /\ (k < n - 1 => indices[f[1]] < indices[frames'[k + 1].node])
      BY <1>1, <2>5, Zenon DEF InFrame
    <3>2. CASE k < n - 1
      <4>1. k + 1 \in 1..(n - 1)
        BY <1>1, <3>2
      <4>2. InFrame(k, f[1])
        BY <1>1, <2>1, <3>1, <3>2, <4>1, Zenon DEF InFrame
      <4>3. indices[f[2]] >= lowlinks[y]
        BY <2>2, <2>5, <4>2, Zenon
      <4>4. lowlinks'[y] <= lowlinks[y] /\ lowlinks'[y] \in Nat /\ lowlinks[y] \in Nat /\ indices[f[2]] \in Nat
        BY <1>2, <1>3, <2>1, <2>5, Zenon
      <4> QED BY <4>3, <4>4
    <3>3. CASE k = n - 1
      <4>1. k < n /\ k + 1 = n /\ y = p
        BY <1>1, <2>1, <3>3, SMTT(30) DEF p
      <4>2. CASE indices[f[1]] < indices[v]
        <5>1. InFrame(k, f[1])
          BY <1>1, <2>1, <3>1, <4>1, <4>2, Zenon DEF InFrame
        <5>2. indices[f[2]] >= lowlinks[y]
          BY <2>2, <2>5, <5>1, Zenon
        <5>3. lowlinks'[y] <= lowlinks[y] /\ lowlinks'[y] \in Nat /\ lowlinks[y] \in Nat /\ indices[f[2]] \in Nat
          BY <1>2, <1>3, <2>1, <2>5, Zenon
        <5> QED BY <5>2, <5>3
      <4>3. CASE indices[f[1]] >= indices[v]
        <5>1. InFrame(n, f[1])
          <6>1. n = Len(frames) /\ frames[n].node = v /\ ~(n < n)
            BY <1>1 DEF n
          <6> QED BY <4>3, <6>1, Zenon DEF InFrame
        <5>2. indices[f[2]] >= lowlinks[v]
          BY <1>1, <2>5, <5>1, Zenon DEF LowlinkInv, n
        <5> QED BY <1>2, <1>3, <1>4, <1>8, <1>9, <2>5, <4>1, <5>2, SMTT(30)
      <4> QED BY <1>3, <1>4, <2>5, <4>2, <4>3
    <3> QED BY <1>1, <3>2, <3>3
  <2> QED BY <1>1, <2>3, <2>4, <2>5, Zenon
<1> QED BY <1>11, <1>12, <1>13, <1>14, <1>15, Zenon DEF SearchInv

(* The node v of the top frame reaches nothing below itself on the stack:  *)
(* v and what is above it are one class of mutual reachability.            *)
Component(v) == {x \in on_stack : indices[x] >= indices[v]}

LEMMA ComponentIsClass ==
  ASSUME SearchInv, frames # <<>>, top_frame.rest = {},
         NEW v, v = top_frame.node, lowlinks[v] = indices[v]
  PROVE  /\ \A e \in edges : e[1] \in Component(v) => e[2] \in Component(v) \union Popped
         /\ v \in Component(v) /\ \A x \in Component(v) : Component(v) = Class(x)
<1> DEFINE n == Len(frames)
           S == Component(v)
<1> SearchTypeOK /\ StackInv /\ ClosedInv /\ ReachInv /\ LowlinkInv
  BY Zenon DEF SearchInv
<1>1. n \in Nat \ {0} /\ top_frame = frames[n] /\ n \in 1..n
  BY LowerFrames DEF SearchTypeOK
<1>2. /\ \A u \in Preds : indices[u] \in Nat /\ lowlinks[u] \in Nat
      /\ on_stack \subseteq Preds /\ Popped \subseteq Preds
      /\ \A k \in 1..n : frames[k].node \in on_stack
      /\ \A j, k \in 1..n : j < k => indices[frames[j].node] < indices[frames[k].node]
  BY SearchTyped, Zenon DEF StackInv
<1>3. v \in on_stack /\ v \in S /\ v \in Preds /\ indices[v] \in Nat /\ S \subseteq Preds
  BY <1>1, <1>2 DEF Component
<1>4. ASSUME NEW e \in edges, e[1] \in S PROVE e[2] \in S \union Popped
  <2>1. Followed(e) /\ e[1] \in on_stack /\ indices[e[1]] >= indices[v]
    BY <1>4, TopIsDone, Zenon DEF Component
  <2>2. e[2] \in on_stack \union Popped
    BY <2>1, Zenon DEF ClosedInv, StackInv
  <2>3. ASSUME e[2] \in on_stack PROVE indices[e[2]] >= indices[v]
    <3>1. InFrame(n, e[1])
      BY <1>1, <2>1 DEF InFrame
    <3> QED BY <1>1, <2>1, <2>3, <3>1, Zenon DEF LowlinkInv
  <2> QED BY <2>2, <2>3, Zenon DEF Component
<1>5. ASSUME NEW x \in S PROVE Reaches(v, x) /\ Reaches(x, v)
  <2>1. x \in on_stack /\ indices[v] <= indices[x]
    BY <1>2, <1>3, Zenon DEF Component
  <2>2. Reaches(x, v)
    BY <1>1, <2>1, ReachTop, Zenon
  <2> QED BY <1>3, <2>1, <2>2, Zenon DEF ReachInv
<1>6. ASSUME NEW x \in Preds, Reaches(v, x), Reaches(x, v) PROVE x \in S
  <2>1. x \in S \union Popped
    <3>1. S \union Popped \in SUBSET Preds
      BY <1>2, <1>3, Zenon
    <3>2. \A e \in edges : e[1] \in S \union Popped => e[2] \in S \union Popped
      BY <1>4, Zenon DEF ClosedInv
    <3>3. v \in S \union Popped
      BY <1>3, Zenon
    <3> HIDE DEF S
    <3> QED BY <1>6, <3>1, <3>2, <3>3, ReachClosed, Zenon
  <2>2. x \notin Popped
    <3>1. ASSUME x \in Popped PROVE v \in Popped
      <4>1. \A e \in edges : e[1] \in Popped => e[2] \in Popped
        BY Zenon DEF ClosedInv
      <4> QED BY <1>2, <1>6, <3>1, <4>1, ReachClosed, Zenon
    <3> QED BY <1>3, <3>1, Zenon DEF StackInv
  <2> QED BY <2>1, <2>2, Zenon
<1>7. ASSUME NEW x \in S PROVE S = Class(x)
  <2>1. ASSUME NEW y \in S PROVE y \in Class(x)
    BY <1>3, <1>5, <1>7, <2>1, ReachTrans DEF Class
  <2>2. ASSUME NEW y \in Class(x) PROVE y \in S
    BY <1>5, <1>6, <1>7, <2>2, ReachTrans, Zenon DEF Class
  <2> QED BY <2>1, <2>2, Zenon
<1> QED BY <1>3, <1>4, <1>7, Zenon

LEMMA CloseComponentKeeps ==
  ASSUME SearchInv, frames # <<>>, top_frame.rest = {}, frames' = lower_frames, Propagated,
         NEW v, v = top_frame.node, lowlinks[v] = indices[v],
         NEW k \in 1..Len(stack), stack[k] = v,
         sccs' = Append(sccs, {stack[j] : j \in k..Len(stack)}), stack' = SubSeq(stack, 1, k - 1),
         UNCHANGED <<edges, start, index_counter, indices>>
  PROVE  SearchInv'
<1> DEFINE n == Len(frames)
           S == Component(v)
           m == Len(sccs)
<1> SearchTypeOK /\ StackInv /\ ClosedInv /\ ReachInv /\ LowlinkInv /\ edges' = edges
  BY Zenon DEF SearchInv
<1>1. /\ n \in Nat \ {0} /\ v = frames[n].node /\ n \in 1..n
      /\ frames' \in Seq(Frame) /\ Len(frames') = n - 1
      /\ \A i \in 1..(n - 1) : i \in 1..n /\ frames'[i] = frames[i]
      /\ \A e : Followed(e)' <=> Followed(e)
      /\ Found' = Found /\ index_counter' = index_counter
  BY Closing
<1>2. /\ \A u \in Preds : indices[u] \in Nat /\ lowlinks[u] \in Nat
      /\ on_stack \subseteq Preds /\ Found \subseteq Preds
      /\ \A i \in 1..n : frames[i].node \in on_stack
      /\ \A i, j \in 1..n : i < j => indices[frames[i].node] < indices[frames[j].node]
      /\ m \in Nat
  BY SearchTyped, Zenon DEF StackInv
<1>3. /\ {stack[j] : j \in k..Len(stack)} = S
      /\ on_stack' = {x \in on_stack : indices[x] < indices[v]}
      /\ stack' \in Seq(Preds) /\ Len(stack') = k - 1
      /\ \A j \in 1..(k - 1) : stack'[j] = stack[j]
  <2>1. /\ {stack[j] : j \in k..Len(stack)} = {x \in on_stack : indices[x] >= indices[v]}
        /\ {stack'[j] : j \in 1..(k - 1)} = {x \in on_stack : indices[x] < indices[v]}
        /\ stack' \in Seq(Preds) /\ Len(stack') = k - 1
        /\ \A j \in 1..(k - 1) : stack'[j] = stack[j]
    BY StackSplit
  <2>2. on_stack' = {stack'[j] : j \in 1..Len(stack')}
    BY Zenon DEF on_stack
  <2> QED BY <2>1, <2>2, Zenon DEF Component
<1>4. /\ \A e \in edges : e[1] \in S => e[2] \in S \union Popped
      /\ v \in S /\ \A x \in S : S = Class(x)
  BY ComponentIsClass, Zenon
<1>5. S \subseteq on_stack /\ on_stack = on_stack' \union S /\ on_stack' \intersect S = {}
  <2>1. \A x \in on_stack : indices[x] \in Nat /\ indices[v] \in Nat
    BY <1>1, <1>2, Zenon
  <2> QED BY <1>3, <2>1, SMTT(30) DEF Component
<1>6. /\ sccs' \in Seq(SUBSET Preds) /\ Len(sccs') = m + 1 /\ sccs'[m + 1] = S
      /\ \A i \in 1..m : sccs'[i] = sccs[i]
  <2>1. S \in SUBSET Preds /\ sccs' = Append(sccs, S) /\ sccs \in Seq(SUBSET Preds)
    BY <1>2, <1>3, <1>5, Zenon DEF SearchTypeOK
  <2> HIDE DEF S
  <2> QED BY <2>1
<1> HIDE DEF n, S, m
<1>7. Popped' = Popped \union S
  <2>1. S \subseteq Preds
    BY <1>2, <1>5, Zenon
  <2>2. \A i \in 1..(m + 1) : i = m + 1 \/ i \in 1..m
    BY <1>2
  <2>3. (\A i \in 1..m : i \in 1..(m + 1)) /\ m + 1 \in 1..(m + 1)
    BY <1>2
  <2>4. Popped' = {x \in Preds : \E i \in 1..(m + 1) : x \in sccs'[i]}
    BY <1>6, Zenon DEF Popped
  <2>5. Popped = {x \in Preds : \E i \in 1..m : x \in sccs[i]}
    BY Zenon DEF Popped, m
  <2> QED BY <1>6, <2>1, <2>2, <2>3, <2>4, <2>5, Zenon
<1>8. ASSUME NEW i \in 1..(n - 1)
      PROVE  /\ frames[i].node \in on_stack' /\ frames'[i].node = frames[i].node
             /\ lowlinks'[frames[i].node] = lowlinks[frames[i].node]
             /\ lowlinks[frames[i].node] < indices[v]
  <2> DEFINE y == frames[i].node
  <2>1. i \in 1..n /\ i < n /\ y \in Preds /\ v \in Preds /\ y \in on_stack
    BY <1>1, <1>2
  <2>2. indices[y] < indices[v]
    BY <1>1, <1>2, <2>1, Zenon
  <2>3. lowlinks[y] <= indices[y]
    BY <2>1, ZenonT(40) DEF LowlinkInv, n
  <2>4. lowlinks[y] < lowlinks[v] /\ lowlinks[y] < indices[v]
    BY <1>2, <2>1, <2>2, <2>3, SMTT(30)
  <2>5. lowlinks'[y] = lowlinks[y]
    <3>1. lowlinks'[y] = lowlinks[y] \/ lowlinks[v] < lowlinks[y]
      BY <2>1, ParentLowlink, Zenon
    <3> QED BY <1>2, <2>1, <2>4, <3>1, SMTT(30)
  <2> QED BY <1>1, <1>3, <2>1, <2>2, <2>4, <2>5, Zenon
<1>9. SearchTypeOK'
  <2>1. lowlinks' \in [Preds -> Nat]
    BY ParentLowlink, Zenon
  <2>2. Frame' = Frame
    BY Zenon DEF Frame
  <2> QED BY <1>1, <1>3, <1>6, <2>1, <2>2, Zenon DEF SearchTypeOK
<1>10. StackInv'
  <2>1. \A i \in 1..(n - 1) : frames'[i].rest \subseteq OutEdges(frames'[i].node)
    BY <1>1, Zenon DEF StackInv, n
  <2>2. \A i, j \in 1..(n - 1) : i < j => indices[frames'[i].node] < indices[frames'[j].node]
    BY <1>1, <1>2, Zenon
  <2>3. ASSUME NEW i \in 1..(k - 1), NEW j \in 1..(k - 1), i < j
        PROVE  indices[stack'[i]] < indices[stack'[j]]
    <3>1. i \in 1..Len(stack) /\ j \in 1..Len(stack)
      OBVIOUS
    <3> QED BY <1>3, <2>3, <3>1, Zenon DEF StackInv
  <2>4. Found = on_stack' \union Popped' /\ on_stack' \intersect Popped' = {}
    BY <1>5, <1>7, Zenon DEF StackInv
  <2>5. \A i \in 1..(n - 1) : frames'[i].node \in on_stack'
    BY <1>8, Zenon
  <2>6. \A u : OutEdges(u)' = OutEdges(u)
    BY Zenon DEF OutEdges
  <2>7. \A u \in Preds : indices[u] < index_counter /\ (u < start => u \in Found)
    BY Zenon DEF StackInv
  <2>8. \A i, j \in 1..Len(stack') : i < j => indices[stack'[i]] < indices[stack'[j]]
    BY <1>3, <2>3, Zenon
  <2>9. /\ \A i, j \in 1..Len(frames') : i < j => indices[frames'[i].node] < indices[frames'[j].node]
        /\ \A i \in 1..Len(frames') :
              frames'[i].node \in on_stack' /\ frames'[i].rest \subseteq OutEdges(frames'[i].node)
    BY <1>1, <2>1, <2>2, <2>5, Zenon
  <2> QED BY <1>1, <2>4, <2>6, <2>7, <2>8, <2>9, SMTT(30) DEF StackInv
<1>11. ClosedInv'
  <2>1. \A e \in edges : e[1] \in Popped' => e[2] \in Popped'
    BY <1>4, <1>7, Zenon DEF ClosedInv
  <2>2. \A i \in 1..(m + 1) : i = m + 1 \/ i \in 1..m
    BY <1>2
  <2>3. ASSUME NEW i \in 1..(m + 1), NEW x \in sccs'[i] PROVE sccs'[i] = Class(x)
    <3>1. CASE i = m + 1
      BY <1>4, <1>6, <3>1, Zenon
    <3>2. CASE i \in 1..m
      BY <1>6, <3>2, Zenon DEF ClosedInv, m
    <3> QED BY <2>2, <3>1, <3>2, Zenon
  <2>4. \A i \in 1..m : sccs[i] \intersect S = {}
    <3>1. \A i \in 1..m : sccs[i] \subseteq Popped
      BY Element, SMTT(30) DEF SearchTypeOK, Popped, m
    <3> QED BY <1>5, <3>1, Zenon DEF StackInv
  <2>5. ASSUME NEW i \in 1..(m + 1), NEW j \in 1..(m + 1), sccs'[i] \intersect sccs'[j] # {}
        PROVE  i = j
    <3>1. CASE i \in 1..m /\ j \in 1..m
      BY <1>6, <2>5, <3>1, Zenon DEF ClosedInv, m
    <3>2. CASE i \in 1..m /\ j = m + 1
      BY <1>6, <2>4, <2>5, <3>2, Zenon
    <3>3. CASE i = m + 1 /\ j \in 1..m
      BY <1>6, <2>4, <2>5, <3>3, Zenon
    <3> QED BY <2>2, <3>1, <3>2, <3>3, Zenon
  <2>6. \A e \in edges : Followed(e)' => e[2] \in Found'
    BY <1>1, Zenon DEF ClosedInv
  <2>7. \A i \in 1..Len(sccs') : sccs'[i] # {} /\ \A x \in sccs'[i] : sccs'[i] = Class(x)'
    <3>1. ASSUME NEW i \in 1..(m + 1) PROVE sccs'[i] # {}
      <4>1. CASE i = m + 1
        BY <1>4, <1>6, <4>1, Zenon
      <4>2. CASE i \in 1..m
        BY <1>6, <4>2, Zenon DEF ClosedInv, m
      <4> QED BY <2>2, <4>1, <4>2, Zenon
    <3>2. \A i \in 1..(m + 1) : \A x \in sccs'[i] : sccs'[i] = Class(x)'
      BY <2>3, SameClass, Zenon
    <3> QED BY <1>6, <3>1, <3>2, Zenon
  <2>8. \A i, j \in 1..Len(sccs') : sccs'[i] \intersect sccs'[j] # {} => i = j
    BY <1>6, <2>5, Zenon
  <2> QED BY <2>1, <2>6, <2>7, <2>8, Zenon DEF ClosedInv
<1>12. ReachInv'
  <2>1. ASSUME NEW x \in on_stack'
        PROVE  \E i \in 1..(n - 1) :
                  indices[frames'[i].node] <= indices[x] /\ Reaches(x, frames'[i].node)
    <3>1. x \in on_stack /\ indices[x] < indices[v]
      BY <1>3, Zenon
    <3>2. PICK i \in 1..n : indices[frames[i].node] <= indices[x] /\ Reaches(x, frames[i].node)
      BY <3>1, Zenon DEF ReachInv, n
    <3>3. i # n
      BY <1>1, <1>2, <3>1, <3>2, SMTT(30)
    <3>4. i \in 1..(n - 1)
      BY <1>1, <3>2, <3>3
    <3> QED BY <1>1, <3>2, <3>4, Zenon
  <2>2. \A x, y \in on_stack' : indices[x] <= indices[y] => Reaches(x, y)
    BY <1>5, Zenon DEF ReachInv
  <2> QED BY <1>1, <2>1, <2>2, PrimedReachInv, Zenon
<1>13. LowlinkInv'
  <2> SUFFICES ASSUME NEW i \in 1..(n - 1), NEW y, y = frames'[i].node
               PROVE  /\ lowlinks'[y] <= indices[y]
                      /\ \E x \in on_stack' : indices[x] = lowlinks'[y] /\ Reaches(y, x)
                      /\ \A f \in edges :
                            /\ Followed(f)' /\ f[1] \in on_stack' /\ f[2] \in on_stack'
                            /\ InFrame(i, f[1])'
                            => indices[f[2]] >= lowlinks'[y]
    BY <1>1, PrimedLowlinkInv, Zenon
  <2>1. y = frames[i].node /\ i \in 1..n /\ lowlinks'[y] = lowlinks[y] /\ lowlinks[y] < indices[v]
    BY <1>1, <1>8, Zenon
  <2>2. /\ lowlinks[y] <= indices[y]
        /\ \E x \in on_stack : indices[x] = lowlinks[y] /\ Reaches(y, x)
        /\ \A f \in edges :
              Followed(f) /\ f[1] \in on_stack /\ f[2] \in on_stack /\ InFrame(i, f[1]) =>
                  indices[f[2]] >= lowlinks[y]
    BY <2>1, Zenon DEF LowlinkInv, n
  <2>3. \E x \in on_stack' : indices[x] = lowlinks'[y] /\ Reaches(y, x)
    BY <1>3, <2>1, <2>2, ZenonT(40)
  <2>4. ASSUME NEW f \in edges, Followed(f), f[1] \in on_stack', f[2] \in on_stack', InFrame(i, f[1])'
        PROVE  indices[f[2]] >= lowlinks'[y]
    <3>1. f[1] \in on_stack /\ f[2] \in on_stack /\ indices[f[1]] < indices[v]
      BY <1>3, <2>4, Zenon
    <3>2. InFrame(i, f[1])
      <4>1. indices[f[1]] >= indices[y] /\ (i < n - 1 => indices[f[1]] < indices[frames'[i + 1].node])
        BY <1>1, <2>4, Zenon DEF InFrame
      <4>2. CASE i < n - 1
        <5>1. i + 1 \in 1..(n - 1)
          BY <1>1, <4>2, SMTT(30)
        <5> QED BY <1>1, <2>1, <4>1, <4>2, <5>1, Zenon DEF InFrame
      <4>3. CASE i = n - 1
        <5>1. i + 1 = n
          BY <1>1, <4>3
        <5> QED BY <1>1, <2>1, <3>1, <4>1, <5>1, Zenon DEF InFrame
      <4> QED BY <1>1, <4>2, <4>3, SMTT(30)
    <3> QED BY <2>1, <2>2, <2>4, <3>1, <3>2, ZenonT(40)
  <2> QED BY <1>1, <2>1, <2>2, <2>3, <2>4, Zenon
<1> QED BY <1>9, <1>10, <1>11, <1>12, <1>13, Zenon DEF SearchInv

LEMMA CloseFrameKeeps ==
  ASSUME SearchInv, CloseFrame
  PROVE  SearchInv'
<1> DEFINE v == top_frame.node
           k == CHOOSE j \in 1..Len(stack) : stack[j] = v
<1> SearchTypeOK /\ StackInv
  BY Zenon DEF SearchInv
<1>1. /\ frames # <<>> /\ top_frame.rest = {} /\ frames' = lower_frames /\ Propagated
      /\ UNCHANGED <<edges, start, index_counter, indices>>
  BY Zenon DEF CloseFrame, Propagated
<1>2. CASE lowlinks[v] = indices[v]
  <2>1. v \in on_stack
    BY <1>1, LowerFrames DEF StackInv, SearchTypeOK
  <2>2. \E j \in 1..Len(stack) : stack[j] = v
    BY <2>1, StackIs, Zenon
  <2>3. k \in 1..Len(stack) /\ stack[k] = v
    BY <2>2, Zenon
  <2>4. sccs' = Append(sccs, {stack[j] : j \in k..Len(stack)}) /\ stack' = SubSeq(stack, 1, k - 1)
    BY <1>2, Zenon DEF CloseFrame
  <2> HIDE DEF k
  <2> QED BY <1>1, <1>2, <2>3, <2>4, CloseComponentKeeps, Zenon
<1>3. CASE lowlinks[v] # indices[v]
  <2>1. UNCHANGED <<sccs, stack>>
    BY <1>3, Zenon DEF CloseFrame
  <2> QED BY <1>1, <1>3, <2>1, CloseInsideKeeps, Zenon
<1> QED BY <1>2, <1>3, Zenon

LEMMA SearchStarts ==
  ASSUME Init PROVE SearchInv
<1>1. /\ edges \in Graph /\ start = 1 /\ index_counter = 1
      /\ stack = <<>> /\ frames = <<>> /\ sccs = <<>>
      /\ indices = [v \in Preds |-> None] /\ lowlinks = [v \in Preds |-> 0]
  BY Zenon DEF Init
<1>2. Len(stack) = 0 /\ Len(frames) = 0 /\ Len(sccs) = 0
  BY <1>1, Zenon
<1>3. on_stack = {} /\ Popped = {} /\ Found = {}
  BY <1>1, <1>2, StackIs DEF Popped, Found
<1>4. SearchTypeOK
  BY <1>1, CountIsNat DEF SearchTypeOK, None
<1>5. \A v \in Preds : indices[v] < index_counter
  BY <1>1 DEF None
<1>6. StackInv
  BY <1>1, <1>2, <1>3, <1>5, CountIsNat DEF StackInv
<1>7. ClosedInv
  BY <1>2, <1>3 DEF ClosedInv, Followed
<1>8. ReachInv /\ LowlinkInv
  BY <1>2, <1>3 DEF ReachInv, LowlinkInv
<1> QED BY <1>4, <1>6, <1>7, <1>8, Zenon DEF SearchInv

(* At the end of the search every predicate is in a component.             *)
LEMMA SearchEnds ==
  ASSUME SearchInv, frames = <<>>, start \notin Preds
  PROVE  Partition
<1> SearchTypeOK /\ StackInv /\ ClosedInv /\ ReachInv
  BY Zenon DEF SearchInv
<1>1. \A v \in Preds : v < start
  BY CountIsNat DEF SearchTypeOK
<1>2. Len(frames) = 0
  BY Zenon
<1>3. on_stack = {}
  BY <1>2 DEF ReachInv
<1>4. \A v \in Preds : v \in Popped
  BY <1>1, <1>3, Zenon DEF StackInv
<1> QED BY <1>4, Zenon DEF Partition, Popped, ClosedInv, SearchTypeOK

LEMMA SamePartition ==
  ASSUME Partition, UNCHANGED <<edges, sccs>>
  PROVE  Partition'
  BY SameClass DEF Partition

(* The search and the components through a step.                           *)
LEMMA SccStep ==
  ASSUME SccInv, [Next]_vars
  PROVE  SccInv'
<1>1. CASE UNCHANGED vars
  <2>1. UNCHANGED <<edges, pc, start, stack, index_counter, indices, lowlinks, frames, sccs>>
    BY <1>1, Zenon DEF vars
  <2>2. /\ on_stack' = on_stack /\ index_counter' = index_counter /\ Popped' = Popped
        /\ Found' = Found /\ Frame' = Frame
        /\ \A v : OutEdges(v)' = OutEdges(v)
    BY <2>1, Zenon DEF on_stack, Popped, Found, Frame, OutEdges
  <2>3. \A e, k : (Followed(e)' <=> Followed(e)) /\ (InFrame(k, e[1])' <=> InFrame(k, e[1]))
    BY <2>1, <2>2, Zenon DEF Followed, InFrame
  <2>4. ASSUME SearchInv PROVE SearchInv'
    <3>1. SearchTypeOK' /\ StackInv'
      BY <2>1, <2>2, <2>4, Zenon DEF SearchInv, SearchTypeOK, StackInv
    <3>2. ClosedInv'
      BY <2>1, <2>2, <2>3, <2>4, SameClass, Zenon DEF SearchInv, ClosedInv
    <3>3. ReachInv'
      BY <2>1, <2>2, <2>4, SameReach, Zenon DEF SearchInv, ReachInv
    <3>4. LowlinkInv'
      BY <2>1, <2>2, <2>3, <2>4, SameReach, Zenon DEF SearchInv, LowlinkInv
    <3> QED BY <3>1, <3>2, <3>3, <3>4, Zenon DEF SearchInv
  <2>5. pc # "search" => Partition'
    BY <2>1, SamePartition, Zenon DEF SccInv
  <2> QED BY <2>1, <2>4, <2>5, Zenon DEF SccInv
<1>2. CASE NextRoot \/ VisitChild \/ CloseFrame
  <2>1. pc = "search" /\ pc' = "search" /\ edges' = edges
    BY <1>2, Zenon DEF NextRoot, VisitChild, CloseFrame
  <2>2. SearchInv'
    BY <1>2, <2>1, NextRootKeeps, VisitChildKeeps, CloseFrameKeeps, Zenon DEF SccInv
  <2> QED BY <2>1, <2>2, Zenon DEF SccInv
<1>3. CASE SearchDone
  <2>1. /\ pc = "search" /\ pc' = "reject" /\ UNCHANGED <<edges, sccs>>
        /\ frames = <<>> /\ start \notin Preds
    BY <1>3, Zenon DEF SearchDone, search
  <2>2. Partition
    BY <2>1, SearchEnds, Zenon DEF SccInv
  <2> QED BY <2>1, <2>2, SamePartition, Zenon DEF SccInv
<1>4. CASE Reject \/ Relax \/ EndPass
  <2>1. UNCHANGED <<edges, sccs>> /\ pc # "search" /\ pc' \in {"reject", "pass", "done"}
    BY <1>4, Zenon DEF Reject, Relax, EndPass, search, SccInv
  <2> QED BY <2>1, SamePartition, Zenon DEF SccInv
<1> QED BY <1>1, <1>2, <1>3, <1>4, Zenon DEF Next

(* The search finds exactly the classes of mutual reachability.            *)
LEMMA SccInvHolds == Spec => []SccInv
<1>1. Init => SccInv
  BY SearchStarts, Zenon DEF SccInv, Init
<1>2. SccInv /\ [Next]_vars => SccInv'
  BY SccStep, Zenon
<1> QED BY <1>1, <1>2, PTL DEF Spec

(* tarjan_sccs returns exactly the classes of mutual reachability, each    *)
(* once, whatever the graph and the order of the edges.                    *)
THEOREM ComponentsAreExact == Spec => []ComponentsExact
<1>1. SccInv => ComponentsExact
  <2> SUFFICES ASSUME SccInv, pc = "reject" PROVE ComponentsExact
    BY Zenon DEF ComponentsExact
  <2>1. Partition
    BY Zenon DEF SccInv
  <2>2. \A v \in Preds :
           \E k \in 1..Len(sccs) : sccs[k] = {w \in Preds : Reaches(v, w) /\ Reaches(w, v)}
    BY <2>1, Zenon DEF Partition, Class
  <2> QED BY <2>1, <2>2, Zenon DEF Partition, ComponentsExact
<1> QED BY <1>1, SccInvHolds, PTL
=============================================================================
