-------------------------- MODULE GateEngineProofs ---------------------------
(***************************************************************************)
(* Proofs about the gate and its dependency walk: the tree is the          *)
(* shortest-path tree of what the registry answered, and every decision    *)
(* rests on what it claims to rest on, for any graph, depth, sources,      *)
(* advisories and policies.  The walk comes first: what one step of it     *)
(* does to queue and tree, and the invariant that makes the finished tree  *)
(* the shortest-path tree.                                                 *)
(***************************************************************************)
EXTENDS GateEngine, SequenceTheorems, TLAPS

------------------------------------------------------------------------------
\* The breadth-first walk

\* The children of a node above the depth bound are nodes one level further down, in
\* the order the registry lists them (TreeWalker.WalkAsync).
LEMMA ChildrenType ==
    ASSUME NEW n \in Node, n.depth < MaxTreeDepth, NEW deps \in Seq(Packages)
    PROVE  /\ Children(n, deps) \in Seq(Node)
           /\ Len(Children(n, deps)) = Len(deps)
           /\ \A i \in 1..Len(deps) : Children(n, deps)[i] = [pkg |-> deps[i], depth |-> n.depth + 1]
<1> DEFINE m == Len(deps)
           child(i) == [pkg |-> deps[i], depth |-> n.depth + 1]
<1>1. m \in Nat /\ DOMAIN deps = 1..m
  BY LenProperties
<1>2. n.depth + 1 \in 0..MaxTreeDepth
  BY WalkAssumption DEF Node, WalkAssumption
<1>3. \A i \in 1..m : child(i) \in Node
  <2> SUFFICES ASSUME NEW i \in 1..m PROVE child(i) \in Node
    OBVIOUS
  <2>1. deps[i] \in Packages
    BY ElementOfSeq
  <2> QED
    BY <1>2, <2>1 DEF Node
<1>4. Children(n, deps) = [i \in 1..m |-> child(i)]
  BY <1>1 DEF Children
<1> HIDE DEF m, child
<1>5. Children(n, deps) \in [1..m -> Node]
  BY <1>3, <1>4
<1>6. Children(n, deps) \in Seq(Node)
  BY <1>1, <1>5, SeqDef
<1>7. Len(Children(n, deps)) = m
  <2>1. DOMAIN Children(n, deps) = 1..m
    BY <1>5
  <2>2. DOMAIN Children(n, deps) = 1..Len(Children(n, deps)) /\ Len(Children(n, deps)) \in Nat
    BY <1>6, LenProperties
  <2> QED
    BY <1>1, <2>1, <2>2
<1> QED
  BY <1>4, <1>6, <1>7 DEF m, child

\* What a step takes from the queue, and what it adds behind it: nothing, or the
\* children of the node it adds to the tree (TreeWalker.WalkAsync).
Added(n) == Children(n, DependsOn[n.pkg])

Stepped ==
    /\ queue # <<>> /\ Head(queue) \in Node /\ Tail(queue) \in Seq(Node)
    /\ \/ SkipSeen
       \/ /\ ~InTree(Head(queue).pkg)
          /\ nodes' = Append(nodes, Head(queue))
          /\ \/ queue' = Tail(queue) /\ answered' = answered
             \/ /\ Head(queue).depth < MaxTreeDepth
                /\ queue' = Tail(queue) \o Added(Head(queue))
                /\ answered' = answered \cup {Head(queue).pkg}

LEMMA WalkSteps == WalkTypeOK /\ Walk => Stepped
<1> SUFFICES ASSUME WalkTypeOK, Walk PROVE Stepped
  OBVIOUS
<1>1. queue # <<>> /\ Head(queue) \in Node /\ Tail(queue) \in Seq(Node)
  <2>1. queue # <<>> /\ queue \in Seq(Node)
    BY DEF Walk, SkipSeen, VisitLeaf, Visit, WalkTypeOK
  <2> QED
    BY <2>1, HeadTailProperties
<1>2. CASE SkipSeen
  BY <1>1, <1>2 DEF Stepped
<1>3. CASE VisitLeaf
  BY <1>1, <1>3 DEF Stepped, VisitLeaf
<1>4. CASE Visit
  BY <1>1, <1>4 DEF Stepped, Visit, Enqueue, Added
<1> QED
  BY <1>2, <1>3, <1>4 DEF Walk

\* A step keeps the types of the walk and never shortens the tree
\* (TreeWalker.WalkAsync).
LEMMA WalkTyped == WalkTypeOK /\ Walk => WalkTypeOK' /\ Len(nodes') >= Len(nodes) /\ nodes' # <<>>
<1> SUFFICES ASSUME WalkTypeOK, Walk PROVE WalkTypeOK' /\ Len(nodes') >= Len(nodes) /\ nodes' # <<>>
  OBVIOUS
<1> DEFINE n == Head(queue)
<1>1. Stepped
  BY WalkSteps
<1>2. nodes \in Seq(Node) /\ answered \in SUBSET Packages /\ Len(nodes) \in Nat
  BY LenProperties DEF WalkTypeOK
<1>3. CASE SkipSeen
  <2>1. nodes # <<>>
    BY <1>3 DEF SkipSeen, InTree
  <2> QED
    BY <1>1, <1>2, <1>3, <2>1 DEF SkipSeen, Stepped, WalkTypeOK
<1>4. CASE ~SkipSeen
  <2>1. nodes' = Append(nodes, n) /\ n \in Node
    BY <1>1, <1>4 DEF Stepped
  <2>2. nodes' \in Seq(Node) /\ Len(nodes') >= Len(nodes) /\ nodes' # <<>>
    BY <1>2, <2>1
  <2>3. answered' \in SUBSET Packages
    BY <1>1, <1>2, <1>4 DEF Stepped, Node
  <2>4. queue' \in Seq(Node)
    <3>1. n.pkg \in Packages
      BY <2>1 DEF Node
    <3>2. DependsOn[n.pkg] \in Seq(Packages)
      BY <3>1, WalkAssumption DEF WalkAssumption
    <3>3. n.depth < MaxTreeDepth => Added(n) \in Seq(Node)
      BY <2>1, <3>2, ChildrenType DEF Added
    <3> QED
      BY <1>1, <1>4, <3>3, ConcatProperties DEF Stepped
  <2> QED
    BY <2>2, <2>3, <2>4 DEF WalkTypeOK
<1> QED
  BY <1>3, <1>4

------------------------------------------------------------------------------
\* The invariant of the walk

\* The queue is sorted by depth and spans two levels; the tree is not deeper than it.
Sorted == \A k, l \in DOMAIN queue :
             k <= l => queue[k].depth <= queue[l].depth /\ queue[l].depth <= queue[k].depth + 1
Behind == \A i \in DOMAIN nodes, k \in DOMAIN queue : nodes[i].depth <= queue[k].depth

\* A package is in the tree once, and has been asked about only if it is.
Distinct   == \A i, j \in DOMAIN nodes : nodes[i].pkg = nodes[j].pkg => i = j
AskedInTree == \A p \in answered : InTree(p)

\* m hangs below an expanded node of the tree that lists it.
Hangs(m) == m.depth > 0 => \E i \in DOMAIN nodes : /\ Expanded(nodes[i]) /\ Lists(nodes[i], m.pkg)
                                                  /\ m.depth = nodes[i].depth + 1
TreeHangs  == \A j \in DOMAIN nodes : Hangs(nodes[j])
QueueHangs == \A k \in DOMAIN queue : Hangs(queue[k])

\* p is in the tree or on its way there, at depth d at most.
ComesAt(p, d) == \/ \E j \in DOMAIN nodes : nodes[j].pkg = p /\ nodes[j].depth <= d
                 \/ \E k \in DOMAIN queue : queue[k].pkg = p /\ queue[k].depth <= d
Complete == \A i \in DOMAIN nodes : Expanded(nodes[i]) =>
               \A p \in Packages : Lists(nodes[i], p) => ComesAt(p, nodes[i].depth + 1)

WalkInv == Sorted /\ Behind /\ Distinct /\ AskedInTree /\ TreeHangs /\ QueueHangs /\ Complete

\* When the queue is empty the invariant is what a finished walk promises.
LEMMA WalkInvSettles == WalkInv => TreeIsShortest
<1> SUFFICES ASSUME WalkInv, queue = <<>>
             PROVE  /\ \A i \in DOMAIN nodes : Expanded(nodes[i]) =>
                          \A p \in Packages : Lists(nodes[i], p) =>
                             \E j \in DOMAIN nodes : nodes[j].pkg = p /\ nodes[j].depth <= nodes[i].depth + 1
                    /\ TreeHangs
  BY DEF TreeIsShortest, TreeHangs, Hangs
<1>1. DOMAIN queue = {}
  OBVIOUS
<1> QED
  BY <1>1 DEF WalkInv, Complete, ComesAt

\* It holds before the first visit.
LEMMA WalkInvStart == queue = Start /\ nodes = <<>> /\ answered = {} => WalkInv
<1> SUFFICES ASSUME queue = Start, nodes = <<>>, answered = {} PROVE WalkInv
  OBVIOUS
<1>1. DOMAIN nodes = {} /\ DOMAIN queue = {1} /\ queue[1].depth = 0
  BY DEF Start
<1> QED
  BY <1>1 DEF WalkInv, Sorted, Behind, Distinct, AskedInTree, TreeHangs, QueueHangs, Hangs, Complete

\* And while there is no walk.
LEMMA WalkInvEmpty == queue = <<>> /\ nodes = <<>> /\ answered = {} => WalkInv
<1> SUFFICES ASSUME queue = <<>>, nodes = <<>>, answered = {} PROVE WalkInv
  OBVIOUS
<1>1. DOMAIN nodes = {} /\ DOMAIN queue = {}
  OBVIOUS
<1> QED
  BY <1>1 DEF WalkInv, Sorted, Behind, Distinct, AskedInTree, TreeHangs, QueueHangs, Hangs, Complete

------------------------------------------------------------------------------
\* What a step does to the queue and to the tree

\* The rest of the queue moves up (TreeWalker.WalkAsync, Dequeue).
LEMMA TailMovesUp ==
    ASSUME queue \in Seq(Node), queue # <<>>
    PROVE  /\ Len(Tail(queue)) = Len(queue) - 1 /\ Len(queue) \in Nat \ {0}
           /\ \A k \in 1..Len(queue) - 1 : Tail(queue)[k] = queue[k + 1]
           /\ Head(queue) = queue[1] /\ DOMAIN queue = 1..Len(queue)
BY HeadTailProperties, EmptySeq, LenProperties

\* A visited node is the last of the tree, and what was there stays as it was.
LEMMA NodeAppended ==
    ASSUME nodes \in Seq(Node), NEW n \in Node, nodes' = Append(nodes, n), ~InTree(n.pkg),
           answered' \in {answered, answered \cup {n.pkg}}
    PROVE  /\ DOMAIN nodes' = DOMAIN nodes \cup {Len(nodes) + 1}
           /\ nodes'[Len(nodes) + 1] = n
           /\ \A i \in DOMAIN nodes : /\ nodes'[i] = nodes[i] /\ i # Len(nodes) + 1
                                      /\ nodes[i].pkg # n.pkg
                                      /\ Expanded(nodes[i])' <=> Expanded(nodes[i])
<1>1. Len(nodes) \in Nat /\ DOMAIN nodes = 1..Len(nodes)
  BY LenProperties
<1>2. DOMAIN nodes' = 1..Len(nodes) + 1 /\ nodes'[Len(nodes) + 1] = n
  BY <1>1
<1>3. ASSUME NEW i \in DOMAIN nodes
      PROVE  nodes'[i] = nodes[i] /\ i # Len(nodes) + 1 /\ nodes[i].pkg # n.pkg
  BY <1>1 DEF InTree
<1>4. ASSUME NEW i \in DOMAIN nodes PROVE Expanded(nodes[i])' <=> Expanded(nodes[i])
  BY <1>3 DEF Expanded
<1> QED
  BY <1>1, <1>2, <1>3, <1>4

\* A node of the queue came up from the place behind, or is a child of the node
\* just expanded; and all these are in the queue (TreeWalker.WalkAsync).
Grown == /\ ~InTree(Head(queue).pkg) /\ Head(queue).depth < MaxTreeDepth
         /\ nodes' = Append(nodes, Head(queue))
         /\ queue' = Tail(queue) \o Added(Head(queue))
         /\ answered' = answered \cup {Head(queue).pkg}

Newcomer(m) == m.depth = Head(queue).depth + 1 /\ Lists(Head(queue), m.pkg)

LEMMA QueueMoves ==
    ASSUME WalkTypeOK, Stepped
    PROVE  /\ \A k \in 1..Len(queue) - 1 : k \in DOMAIN queue' /\ queue'[k] = queue[k + 1]
           /\ \A k \in DOMAIN queue' : k \in Nat /\ k >= 1 /\ (k >= Len(queue) => Grown /\ Newcomer(queue'[k]))
           /\ Grown => \A p \in Packages : Lists(Head(queue), p) =>
                  \E k \in DOMAIN queue' : queue'[k] = [pkg |-> p, depth |-> Head(queue).depth + 1]
<1> DEFINE n == Head(queue)
           deps == DependsOn[n.pkg]
<1>1. /\ Len(Tail(queue)) = Len(queue) - 1 /\ Len(queue) \in Nat \ {0}
      /\ \A k \in 1..Len(queue) - 1 : Tail(queue)[k] = queue[k + 1]
      /\ Tail(queue) \in Seq(Node) /\ n \in Node
  BY TailMovesUp DEF Stepped, WalkTypeOK
<1>2. CASE queue' = Tail(queue)
  <2>1. DOMAIN queue' = 1..Len(queue) - 1
    BY <1>1, <1>2, LenProperties
  <2>2. Grown => Len(Added(n)) = 0
    <3> SUFFICES ASSUME Grown PROVE Len(Added(n)) = 0
      OBVIOUS
    <3>1. Added(n) \in Seq(Node)
      <4>1. deps \in Seq(Packages)
        BY <1>1, WalkAssumption DEF Node, WalkAssumption
      <4> QED
        BY <1>1, <4>1, ChildrenType DEF Added, Grown
    <3>2. Tail(queue) \o Added(n) = Tail(queue)
      BY <1>2 DEF Grown
    <3> QED
      <4>1. Len(Tail(queue) \o Added(n)) = Len(Tail(queue)) + Len(Added(n))
        BY <1>1, <3>1, ConcatProperties
      <4>2. Len(Tail(queue)) \in Nat /\ Len(Added(n)) \in Nat
        BY <1>1, <3>1, LenProperties
      <4>3. Len(Tail(queue)) = Len(Tail(queue)) + Len(Added(n))
        BY <3>2, <4>1, Zenon
      <4> QED
        BY ONLY <4>2, <4>3
  <2>3. Grown => \A p \in Packages : ~Lists(n, p)
    <3> SUFFICES ASSUME Grown PROVE \A p \in Packages : ~Lists(n, p)
      OBVIOUS
    <3>1. deps \in Seq(Packages)
      BY <1>1, WalkAssumption DEF Node, WalkAssumption
    <3>2. Len(deps) = 0
      BY <1>1, <2>2, <3>1, ChildrenType DEF Added, Grown
    <3> QED
      BY <3>1, <3>2, LenProperties DEF Lists
  <2>4. \A k \in DOMAIN queue' : k \in Nat /\ k >= 1 /\ k < Len(queue)
    BY <1>1, <2>1
  <2>5. \A k \in 1..Len(queue) - 1 : k \in DOMAIN queue' /\ queue'[k] = queue[k + 1]
    BY <1>1, <1>2, <2>1
  <2>6. \A k \in DOMAIN queue' : ~(k >= Len(queue))
    BY <1>1, <2>4
  <2> QED
    BY <2>3, <2>4, <2>5, <2>6
<1>3. CASE Grown
  <2>1. deps \in Seq(Packages) /\ Len(deps) \in Nat /\ DOMAIN deps = 1..Len(deps)
    BY <1>1, WalkAssumption, LenProperties DEF Node, WalkAssumption
  <2>2. /\ Added(n) \in Seq(Node) /\ Len(Added(n)) = Len(deps)
        /\ \A i \in 1..Len(deps) : Added(n)[i] = [pkg |-> deps[i], depth |-> n.depth + 1]
    BY <1>1, <1>3, <2>1, ChildrenType DEF Added, Grown
  <2> DEFINE last == Len(queue) - 1
  <2>3. /\ queue' \in Seq(Node) /\ Len(queue') = last + Len(deps)
        /\ \A k \in 1..last + Len(deps) :
               queue'[k] = IF k <= last THEN Tail(queue)[k] ELSE Added(n)[k - last]
    BY <1>1, <1>3, <2>2, ConcatProperties DEF Grown
  <2>4. DOMAIN queue' = 1..last + Len(deps)
    BY <2>3, LenProperties
  <2>5. \A k \in 1..last : k \in DOMAIN queue' /\ queue'[k] = queue[k + 1]
    BY <1>1, <2>1, <2>3, <2>4
  <2>6. ASSUME NEW k \in DOMAIN queue', k >= Len(queue) PROVE Newcomer(queue'[k])
    <3>1. k - last \in 1..Len(deps) /\ queue'[k] = Added(n)[k - last]
      BY <1>1, <2>1, <2>3, <2>4, <2>6
    <3>2. queue'[k] = [pkg |-> deps[k - last], depth |-> n.depth + 1]
      BY <2>2, <3>1
    <3> QED
      BY <2>1, <3>1, <3>2 DEF Newcomer, Lists
  <2>7. ASSUME NEW p \in Packages, Lists(n, p)
        PROVE  \E k \in DOMAIN queue' : queue'[k] = [pkg |-> p, depth |-> n.depth + 1]
    <3>1. PICK i \in 1..Len(deps) : deps[i] = p
      BY <2>1, <2>7 DEF Lists
    <3>2. last + i \in DOMAIN queue' /\ queue'[last + i] = Added(n)[i]
      <4>1. last + i \in 1..last + Len(deps) /\ ~(last + i <= last) /\ (last + i) - last = i
        BY <1>1, <2>1
      <4> QED
        BY <2>3, <2>4, <4>1
    <3> QED
      BY <2>2, <3>1, <3>2
  <2> QED
    BY <1>1, <1>3, <2>4, <2>5, <2>6, <2>7
<1> QED
  BY <1>2, <1>3 DEF Stepped, Grown, SkipSeen

------------------------------------------------------------------------------
\* The invariant is kept

\* What a step leaves of the tree, and how it settles the head of the queue
\* (TreeWalker.WalkAsync).
TreeGrows ==
    /\ \A i \in DOMAIN nodes : /\ i \in DOMAIN nodes' /\ nodes'[i] = nodes[i]
                               /\ Expanded(nodes[i])' <=> Expanded(nodes[i])
    /\ \A i \in DOMAIN nodes' : i \notin DOMAIN nodes =>
          /\ nodes'[i] = Head(queue)
          /\ Expanded(nodes[i])' => Grown
    /\ \E j \in DOMAIN nodes' : nodes'[j].pkg = Head(queue).pkg /\ nodes'[j].depth <= Head(queue).depth

LEMMA TreeGrowth == WalkTypeOK /\ WalkInv /\ Stepped => TreeGrows
<1> SUFFICES ASSUME WalkTypeOK, WalkInv, Stepped PROVE TreeGrows
  OBVIOUS
<1> DEFINE n == Head(queue)
<1>1. n = queue[1] /\ 1 \in DOMAIN queue
  BY TailMovesUp DEF Stepped, WalkTypeOK
<1>2. CASE SkipSeen
  <2>1. nodes' = nodes /\ answered' = answered /\ InTree(n.pkg)
    BY <1>2 DEF SkipSeen
  <2>2. PICK j \in DOMAIN nodes : nodes[j].pkg = n.pkg
    BY <2>1 DEF InTree
  <2>3. nodes[j].depth <= n.depth
    BY <1>1 DEF WalkInv, Behind
  <2> QED
    BY <2>1, <2>2, <2>3 DEF TreeGrows, Expanded
<1>3. CASE ~SkipSeen
  <2>1. /\ ~InTree(n.pkg) /\ nodes' = Append(nodes, n) /\ n \in Node /\ nodes \in Seq(Node)
        /\ answered' \in {answered, answered \cup {n.pkg}}
        /\ Grown \/ answered' = answered
    BY <1>3 DEF Stepped, Grown, WalkTypeOK
  <2>2. /\ DOMAIN nodes' = DOMAIN nodes \cup {Len(nodes) + 1}
        /\ nodes'[Len(nodes) + 1] = n
        /\ \A i \in DOMAIN nodes : nodes'[i] = nodes[i] /\ (Expanded(nodes[i])' <=> Expanded(nodes[i]))
    BY <2>1, NodeAppended
  <2>3. n.pkg \notin answered
    BY <2>1 DEF WalkInv, AskedInTree
  <2>4. ASSUME NEW i \in DOMAIN nodes', i \notin DOMAIN nodes
        PROVE  nodes'[i] = n /\ (Expanded(nodes[i])' => Grown)
    <3>1. i = Len(nodes) + 1
      BY <2>2, <2>4
    <3>2. nodes'[i] = n
      BY <2>2, <3>1
    <3>3. Expanded(nodes[i])' => n.pkg \in answered'
      BY <3>2 DEF Expanded
    <3> QED
      BY <2>1, <2>3, <3>2, <3>3
  <2>5. n.depth <= n.depth
    BY <2>1, WalkAssumption DEF Node, WalkAssumption
  <2> QED
    BY <2>2, <2>4, <2>5 DEF TreeGrows
<1> QED
  BY <1>2, <1>3

\* The depth of a node of queue or tree is a number.
LEMMA DepthType ==
    ASSUME NEW s \in Seq(Node), NEW i \in DOMAIN s
    PROVE  s[i] \in Node /\ s[i].depth \in Nat
<1>1. s[i] \in Node
  BY LenProperties, ElementOfSeq
<1> QED
  BY <1>1, WalkAssumption DEF Node, WalkAssumption

\* What hung in the tree hangs in the longer one, and what was on its way still is.
LEMMA HangsOn ==
    ASSUME TreeGrows, NEW m, Hangs(m)
    PROVE  m.depth > 0 => \E i \in DOMAIN nodes' : /\ Expanded(nodes[i])' /\ Lists(nodes'[i], m.pkg)
                                                  /\ m.depth = nodes'[i].depth + 1
BY DEF TreeGrows, Hangs

LEMMA StillComes ==
    ASSUME WalkTypeOK, WalkTypeOK', Stepped, TreeGrows, NEW p \in Packages, NEW d \in Nat, ComesAt(p, d)
    PROVE  \/ \E j \in DOMAIN nodes' : nodes'[j].pkg = p /\ nodes'[j].depth <= d
           \/ \E k \in DOMAIN queue' : queue'[k].pkg = p /\ queue'[k].depth <= d
<1>1. CASE \E j \in DOMAIN nodes : nodes[j].pkg = p /\ nodes[j].depth <= d
  BY <1>1 DEF TreeGrows
<1>2. ASSUME NEW k \in DOMAIN queue, queue[k].pkg = p, queue[k].depth <= d
      PROVE  \/ \E j \in DOMAIN nodes' : nodes'[j].pkg = p /\ nodes'[j].depth <= d
             \/ \E l \in DOMAIN queue' : queue'[l].pkg = p /\ queue'[l].depth <= d
  <2>1. /\ Head(queue) = queue[1] /\ DOMAIN queue = 1..Len(queue) /\ Len(queue) \in Nat
        /\ \A l \in 1..Len(queue) - 1 : l \in DOMAIN queue' /\ queue'[l] = queue[l + 1]
    BY TailMovesUp, QueueMoves DEF Stepped, WalkTypeOK
  <2>2. CASE k = 1
    <3>1. PICK j \in DOMAIN nodes' : nodes'[j].pkg = queue[1].pkg /\ nodes'[j].depth <= queue[1].depth
      BY <2>1 DEF TreeGrows
    <3>2. queue[1].depth \in Nat
      BY <1>2, <2>2, DepthType DEF WalkTypeOK
    <3>3. nodes'[j].depth \in Nat
      BY DepthType DEF WalkTypeOK
    <3> QED
      BY <1>2, <2>2, <3>1, <3>2, <3>3
  <2>3. CASE k # 1
    <3>1. k - 1 \in 1..Len(queue) - 1 /\ (k - 1) + 1 = k
      BY <2>1, <2>3
    <3> QED
      BY <1>2, <2>1, <3>1
  <2> QED
    BY <2>2, <2>3
<1> QED
  BY <1>1, <1>2 DEF ComesAt

\* Every step of the walk keeps the invariant (TreeWalker.WalkAsync).
LEMMA WalkInvKept == WalkTypeOK /\ WalkInv /\ Walk => WalkInv'
<1> SUFFICES ASSUME WalkTypeOK, WalkInv, Walk PROVE WalkInv'
  OBVIOUS
<1> DEFINE n == Head(queue)
           last == Len(queue) - 1
<1>1. Stepped /\ WalkTypeOK'
  BY WalkSteps, WalkTyped
<1>2. TreeGrows
  BY <1>1, TreeGrowth
<1>3. n = queue[1] /\ DOMAIN queue = 1..Len(queue) /\ Len(queue) \in Nat \ {0}
  BY <1>1, TailMovesUp DEF Stepped, WalkTypeOK
<1>4. /\ \A k \in DOMAIN queue : queue[k] \in Node /\ queue[k].depth \in Nat
      /\ \A k \in DOMAIN queue' : queue'[k] \in Node /\ queue'[k].depth \in Nat
      /\ \A i \in DOMAIN nodes : nodes[i] \in Node /\ nodes[i].depth \in Nat
      /\ \A i \in DOMAIN nodes' : nodes'[i] \in Node /\ nodes'[i].depth \in Nat
  BY <1>1, DepthType DEF WalkTypeOK
<1>5. n \in Node /\ n.depth \in Nat
  BY <1>3, <1>4
\* Where a node of the new queue comes from
<1>6. ASSUME NEW k \in DOMAIN queue'
      PROVE  /\ k \in Nat /\ k >= 1
             /\ \/ k < Len(queue) /\ k + 1 \in DOMAIN queue /\ queue'[k] = queue[k + 1]
                \/ k >= Len(queue) /\ Grown /\ Newcomer(queue'[k])
  <2>1. /\ \A j \in 1..Len(queue) - 1 : queue'[j] = queue[j + 1]
        /\ k \in Nat /\ k >= 1 /\ (k >= Len(queue) => Grown /\ Newcomer(queue'[k]))
    BY <1>1, QueueMoves
  <2>2. CASE k < Len(queue)
    <3>1. k \in 1..Len(queue) - 1 /\ k + 1 \in 1..Len(queue)
      BY <1>3, <2>1, <2>2
    <3> QED
      BY <1>3, <2>1, <2>2, <3>1
  <2>3. CASE k >= Len(queue)
    BY <2>1, <2>3
  <2> QED
    BY <1>3, <2>1, <2>2, <2>3
<1>7. ASSUME NEW k \in DOMAIN queue'
      PROVE  n.depth <= queue'[k].depth /\ queue'[k].depth <= n.depth + 1
  <2>1. CASE k < Len(queue) /\ k + 1 \in DOMAIN queue /\ queue'[k] = queue[k + 1]
    <3>1. 1 \in DOMAIN queue /\ 1 <= k + 1
      BY <1>3, <1>6
    <3> QED
      BY <1>3, <2>1, <3>1 DEF WalkInv, Sorted
  <2>2. CASE Newcomer(queue'[k])
    BY <1>5, <2>2 DEF Newcomer
  <2> QED
    BY <1>6, <2>1, <2>2
<1>8. Sorted'
  <2> SUFFICES ASSUME NEW k \in DOMAIN queue', NEW l \in DOMAIN queue', k <= l
               PROVE  queue'[k].depth <= queue'[l].depth /\ queue'[l].depth <= queue'[k].depth + 1
    BY DEF Sorted
  <2>1. CASE l < Len(queue)
    <3>1. k < Len(queue) /\ k + 1 <= l + 1
      BY <1>3, <1>6, <2>1
    <3>2. /\ k + 1 \in DOMAIN queue /\ queue'[k] = queue[k + 1]
          /\ l + 1 \in DOMAIN queue /\ queue'[l] = queue[l + 1]
      BY <1>3, <1>6, <2>1, <3>1
    <3> QED
      BY <3>1, <3>2 DEF WalkInv, Sorted
  <2>2. CASE l >= Len(queue)
    <3>1. queue'[l].depth = n.depth + 1
      BY <1>3, <1>6, <2>2 DEF Newcomer
    <3> QED
      BY <1>4, <1>5, <1>7, <3>1
  <2> QED
    BY <1>3, <1>6, <2>1, <2>2
<1>9. Behind'
  <2> SUFFICES ASSUME NEW i \in DOMAIN nodes', NEW k \in DOMAIN queue'
               PROVE  nodes'[i].depth <= queue'[k].depth
    BY DEF Behind
  <2>1. nodes'[i].depth <= n.depth
    BY <1>2, <1>3, <1>5 DEF TreeGrows, WalkInv, Behind
  <2> QED
    BY <1>4, <1>5, <1>7, <2>1
<1>10. Distinct' /\ AskedInTree'
  <2>1. CASE SkipSeen
    BY <2>1 DEF SkipSeen, WalkInv, Distinct, AskedInTree, InTree
  <2>2. CASE ~SkipSeen
    <3>1. /\ nodes' = Append(nodes, n) /\ ~InTree(n.pkg) /\ nodes \in Seq(Node)
          /\ answered' \in {answered, answered \cup {n.pkg}}
      BY <1>1, <2>2 DEF Stepped, WalkTypeOK
    <3>2. /\ DOMAIN nodes' = DOMAIN nodes \cup {Len(nodes) + 1} /\ nodes'[Len(nodes) + 1] = n
          /\ \A i \in DOMAIN nodes : nodes'[i] = nodes[i] /\ nodes[i].pkg # n.pkg
      BY <1>5, <3>1, NodeAppended
    <3>3. Distinct'
      BY <3>2 DEF WalkInv, Distinct
    <3>4. AskedInTree'
      BY <3>1, <3>2 DEF WalkInv, AskedInTree, InTree
    <3> QED
      BY <3>3, <3>4
  <2> QED
    BY <2>1, <2>2
<1>11. TreeHangs'
  <2> SUFFICES ASSUME NEW j \in DOMAIN nodes' PROVE Hangs(nodes[j])'
    BY DEF TreeHangs
  <2>1. Hangs(nodes'[j])
    BY <1>2, <1>3 DEF TreeGrows, WalkInv, TreeHangs, QueueHangs
  <2> QED
    BY <1>2, <2>1, HangsOn DEF Hangs
<1>12. QueueHangs'
  <2> SUFFICES ASSUME NEW k \in DOMAIN queue' PROVE Hangs(queue[k])'
    BY DEF QueueHangs
  <2>1. CASE k + 1 \in DOMAIN queue /\ queue'[k] = queue[k + 1]
    <3>1. Hangs(queue'[k])
      BY <2>1 DEF WalkInv, QueueHangs
    <3> QED
      BY <1>2, <3>1, HangsOn DEF Hangs
  <2>2. CASE Grown /\ Newcomer(queue'[k])
    <3>1. nodes'[Len(nodes) + 1] = n /\ Len(nodes) + 1 \in DOMAIN nodes'
      BY <1>5, <2>2, NodeAppended DEF Grown, WalkTypeOK
    <3>2. n.depth < MaxTreeDepth /\ n.pkg \in answered'
      BY <2>2 DEF Grown
    <3>3. \E i \in DOMAIN nodes' : nodes'[i] = n
      BY <3>1
    <3> QED
      BY <2>2, <3>2, <3>3 DEF Hangs, Expanded, Newcomer
  <2> QED
    BY <1>6, <2>1, <2>2
<1>13. Complete'
  <2> SUFFICES ASSUME NEW i \in DOMAIN nodes', Expanded(nodes[i])', NEW p \in Packages, Lists(nodes'[i], p)
               PROVE  ComesAt(p, nodes[i].depth + 1)'
    BY DEF Complete
  <2>1. CASE i \in DOMAIN nodes
    <3>1. nodes'[i] = nodes[i] /\ Expanded(nodes[i])
      BY <1>2, <2>1 DEF TreeGrows
    <3>2. ComesAt(p, nodes[i].depth + 1) /\ nodes[i].depth + 1 \in Nat
      BY <1>4, <2>1, <3>1 DEF WalkInv, Complete
    <3> QED
      BY <1>1, <1>2, <3>1, <3>2, StillComes DEF ComesAt
  <2>2. CASE i \notin DOMAIN nodes
    <3>1. nodes'[i] = n /\ Grown
      BY <1>2, <2>2 DEF TreeGrows
    <3>2. \E k \in DOMAIN queue' : queue'[k] = [pkg |-> p, depth |-> n.depth + 1]
      BY <1>1, <3>1, QueueMoves
    <3>3. n.depth + 1 <= n.depth + 1
      BY <1>5
    <3> QED
      BY <3>1, <3>2, <3>3 DEF ComesAt
  <2> QED
    BY <2>1, <2>2
<1> QED
  BY <1>8, <1>9, <1>10, <1>11, <1>12, <1>13 DEF WalkInv

------------------------------------------------------------------------------
\* Health

\* Every health there is has a rank (GateEngine.Worse).
LEMMA RankType == \A s \in Statuses \cup {None} : Rank(s) \in 0..6
BY GateAssumption, SMT DEF Rank, Statuses, GateAssumption

\* The worst of some health records is one of them, and none of the others is
\* worse (GateEngine.Worse).
LEMMA WorstIsWorst ==
    ASSUME NEW S \in SUBSET (Statuses \cup {None}), S # {}
    PROVE  WorstOf(S) \in S /\ \A t \in S : Rank(WorstOf(S)) >= Rank(t)
<1> DEFINE Worst(s) == \A t \in S : Rank(s) >= Rank(t)
<1>1. \E u \in S : Worst(u)
  <2> USE DEF Statuses
  <2>0. /\ Rank("Errored") = 6 /\ Rank("Timeout") = 5 /\ Rank("NotConfigured") = 4
        /\ Rank("Skipped") = 3 /\ Rank("Empty") = 2 /\ Rank("Ok") = 1 /\ Rank(None) = 0
    BY GateAssumption, SMT DEF Rank, GateAssumption
  <2>1. CASE "Errored" \in S
    BY <2>0, <2>1
  <2>2. CASE "Errored" \notin S /\ "Timeout" \in S
    BY <2>0, <2>2
  <2>3. CASE S \cap {"Errored", "Timeout"} = {} /\ "NotConfigured" \in S
    BY <2>0, <2>3
  <2>4. CASE S \cap {"Errored", "Timeout", "NotConfigured"} = {} /\ "Skipped" \in S
    BY <2>0, <2>4
  <2>5. CASE S \cap {"Errored", "Timeout", "NotConfigured", "Skipped"} = {} /\ "Empty" \in S
    BY <2>0, <2>5
  <2>6. CASE S \cap {"Errored", "Timeout", "NotConfigured", "Skipped", "Empty"} = {} /\ "Ok" \in S
    BY <2>0, <2>6
  <2>7. CASE S = {None}
    BY <2>0, <2>7
  <2> QED
    BY <2>1, <2>2, <2>3, <2>4, <2>5, <2>6, <2>7
<1> QED
  BY <1>1 DEF WorstOf

\* What a source that is still to be asked is worth, and what it becomes, are
\* health records (GateEngine.Merge).
LEMMA WorseType ==
    ASSUME NEW a \in Statuses \cup {None}, NEW b \in Statuses \cup {None}
    PROVE  /\ Worse(a, b) \in Statuses \cup {None}
           /\ Worse(a, b) \in {a, b}
           /\ Rank(Worse(a, b)) >= Rank(a) /\ Rank(Worse(a, b)) >= Rank(b)
BY WorstIsWorst DEF Worse

------------------------------------------------------------------------------
\* Types

\* One round of questions: what it adds, given the replies, the scores FIRST could
\* tell and the hits of VulnCheck.
Replies == [Asked -> {"answer"} \cup Failures]
From(reply) == {f \in Asked : reply[f] = "answer"}
Found(reply) == UNION {world[f][nodes[asked + 1].pkg] : f \in From(reply)}
Replied(reply, f) == IF f \notin From(reply) THEN reply[f]
                     ELSE IF world[f][nodes[asked + 1].pkg] = {} THEN "Empty" ELSE "Ok"

NewHealth(reply, scores, hits, k) ==
    CASE k \in Asked -> Worse(health[k], Replied(reply, k))
      [] k \in (Feeds \cup {"vulncheck"}) \cap (policy.enabled \ Available)
           -> Worse(health[k], "NotConfigured")
      [] k = "epss" -> WorstOf({health[k]} \cup {ScoreStatus(a, scores) : a \in ToScore(Found(reply))})
      [] k = "vulncheck" /\ hits # {} -> Worse(health[k], "Ok")
      [] OTHER -> health[k]

Told(reply, scores, hits) ==
    /\ findings' = findings \cup {Enriched(nodes[asked + 1].pkg, a, scores, hits) : a \in Found(reply)}
    /\ heard' = heard \cup {<<nodes[asked + 1].pkg, f>> : f \in From(reply)}
    /\ health' = [k \in Keys |-> NewHealth(reply, scores, hits, k)]

LEMMA QueryTold ==
    QueryNode => \E reply \in Replies : \E scores \in SUBSET ToScore(Found(reply)),
                     hits \in SUBSET {a \in Found(reply) : a.vulncheck /\ VulnCheckOn} :
                        Told(reply, scores, hits)
BY Zenon DEF QueryNode, Told, Replies, From, Found, Replied, NewHealth

\* A replied or failed query is a health record (IVulnSource.QueryAsync).
LEMMA QueryTypeOK == TypeOK /\ QueryNode => TypeOK'
<1> SUFFICES ASSUME TypeOK, QueryNode PROVE TypeOK'
  OBVIOUS
<1> DEFINE pkg == nodes[asked + 1].pkg
<1>1. PICK reply \in Replies : \E scores \in SUBSET ToScore(Found(reply)),
                     hits \in SUBSET {a \in Found(reply) : a.vulncheck /\ VulnCheckOn} :
                        Told(reply, scores, hits)
  BY QueryTold
<1> DEFINE found == Found(reply)
<1>2. PICK scores \in SUBSET ToScore(found), hits \in SUBSET {a \in found : a.vulncheck /\ VulnCheckOn} :
          Told(reply, scores, hits)
  BY <1>1
<1>3. asked < Len(nodes) /\ asked' = asked + 1 /\ nodes' = nodes /\ asked \in 0..Len(nodes) /\ Len(nodes) \in Nat
  BY LenProperties DEF TypeOK, WalkTypeOK, QueryNode, walkVars
<1>4. pkg \in Packages
  <2>1. nodes[asked + 1] \in Node
    BY <1>3, DepthType, LenProperties DEF TypeOK, WalkTypeOK
  <2> QED
    BY <2>1 DEF Node
<1>5. Asked \subseteq Feeds
  BY DEF Asked
<1>6. found \in SUBSET Advisories
  BY <1>4, <1>5, GateAssumption DEF Found, From, TypeOK, GateAssumption
<1>7. asked' \in 0..Len(nodes')
  BY <1>3
<1>8. heard' \in SUBSET (Packages \X Feeds)
  BY <1>2, <1>4, <1>5 DEF TypeOK, Told, From
<1>9. findings' \in SUBSET Finding
  <2> SUFFICES ASSUME NEW a \in found PROVE Enriched(pkg, a, scores, hits) \in Finding
    BY <1>2 DEF TypeOK, Told
  <2>1. a \in Advisories /\ a.epss \in Nat \cup {None} /\ a.first \in Nat \cup {None} /\ a.cve \in BOOLEAN
        /\ a.kev \in BOOLEAN /\ a.exploited \in BOOLEAN
    BY <1>6, GateAssumption DEF GateAssumption, Advisory
  <2>2. (a.exploited \/ OnKev(a) \/ a \in hits) \in BOOLEAN
    BY <2>1
  <2>3. (IF a \in scores THEN Scored(a) ELSE a.epss) \in Nat \cup {None}
    BY <2>1 DEF Scored
  <2> QED
    BY <1>4, <2>1, <2>2, <2>3 DEF Enriched, Finding
<1>10. health' \in [Keys -> Statuses \cup {None}]
  <2> DEFINE New(k) == NewHealth(reply, scores, hits, k)
  <2> SUFFICES ASSUME NEW k \in Keys PROVE New(k) \in Statuses \cup {None}
    BY <1>2 DEF Told
  <2>1. health[k] \in Statuses \cup {None}
    BY DEF TypeOK
  <2>2. ASSUME k \in Asked PROVE Replied(reply, k) \in Statuses
    BY <2>2, GateAssumption DEF GateAssumption, Statuses, Replied, From, Replies
  <2>3. WorstOf({health[k]} \cup {ScoreStatus(a, scores) : a \in ToScore(found)}) \in Statuses \cup {None}
    <3> DEFINE S == {health[k]} \cup {ScoreStatus(a, scores) : a \in ToScore(found)}
    <3>1. S \in SUBSET (Statuses \cup {None}) /\ S # {}
      BY <2>1 DEF ScoreStatus, Statuses
    <3> HIDE DEF S
    <3>2. WorstOf(S) \in S
      BY <3>1, WorstIsWorst
    <3> QED
      BY <3>1, <3>2 DEF S
  <2>4. "NotConfigured" \in Statuses /\ "Ok" \in Statuses
    BY DEF Statuses
  <2>5. CASE k \in Asked
    <3>1. New(k) = Worse(health[k], Replied(reply, k))
      <4>1. k \notin (Feeds \cup {"vulncheck"}) \cap (policy.enabled \ Available) /\ k # "epss" /\ k # "vulncheck"
        BY <1>5, <2>5, GateAssumption DEF Asked, GateAssumption
      <4> QED
        BY <2>5, <4>1 DEF NewHealth
    <3> QED
      BY <2>1, <2>2, <2>5, <3>1, WorseType
  <2>6. CASE k \notin Asked
    BY <2>1, <2>3, <2>4, <2>6, WorseType DEF NewHealth
  <2> QED
    BY <2>5, <2>6
<1>11. /\ phase' \in {"judge", "query"}
       /\ UNCHANGED <<queue, nodes, answered, current, kev, world, policy, kind, unreachable, content,
                      triggered, decision, entry>>
  BY DEF QueryNode, walkVars, result
<1>12. unreachable \subseteq findings'
  BY <1>2 DEF TypeOK, Told
<1> QED
  BY <1>7, <1>8, <1>9, <1>10, <1>11, <1>12 DEF TypeOK, WalkTypeOK, Phases

\* The rules of a model file, of findings and of curation are rules (GateEngine).
LEMMA RuleTypes ==
    /\ \A pol, w : WeightRules(pol, w) \subseteq Rules
    /\ \A pol, f : FindingRules(pol, f) \subseteq Rules \ Notices
    /\ \A pol, S : TreeRules(pol, S) \subseteq Rules \ Notices
    /\ \A pol, S : CurationRules(pol, S) \subseteq Rules
    /\ \A R : DecisionOf(R) \in {"Allow", "Block"}
<1>1. \A pol, w : WeightRules(pol, w) \subseteq Rules
  BY DEF WeightRules, Rules
<1>2. \A pol, f : FindingRules(pol, f) \subseteq Rules \ Notices
  BY DEF FindingRules, Rules, Notices
<1>3. \A pol, S : TreeRules(pol, S) \subseteq Rules \ Notices
  BY <1>2 DEF TreeRules
<1>4. \A pol, S : CurationRules(pol, S) \subseteq Rules
  BY DEF CurationRules, Rules, Notices
<1>5. \A R : DecisionOf(R) \in {"Allow", "Block"}
  BY DEF DecisionOf
<1> QED
  BY <1>1, <1>2, <1>3, <1>4, <1>5

\* An evaluation that has not begun is well typed.
LEMMA InitTypeOK == Init => TypeOK
<1> SUFFICES ASSUME Init PROVE TypeOK
  OBVIOUS
<1>1. WalkTypeOK /\ Len(nodes) = 0
  BY EmptySeq DEF Init, Fresh, WalkTypeOK
<1>2. health \in [Keys -> Statuses \cup {None}]
  BY DEF Init, Fresh
<1>3. content \in Statuses /\ decision \in Decisions
  BY DEF Init, Fresh, Statuses, Decisions
<1> QED
  BY <1>1, <1>2, <1>3 DEF Init, Fresh, TypeOK, Phases

\* Every step keeps the types, action by action.
LEMMA NextTypeOK == TypeOK /\ [Next]_vars => TypeOK'
<1> SUFFICES ASSUME TypeOK, [Next]_vars PROVE TypeOK'
  OBVIOUS
<1>1. CASE Begin
  <2>1. /\ policy' = current /\ queue' \in {queue, Start} /\ kind' \in {"waived", "weights", "tree"}
        /\ phase' \in {"finish", "walk"}
        /\ UNCHANGED <<nodes, answered, current, kev, world, asked, health, findings, heard,
                       unreachable, content, entry>>
    BY <1>1 DEF Begin, Verdict, gathered
  <2>2. triggered' \in SUBSET Rules /\ decision' \in Decisions
    BY <1>1, RuleTypes DEF Begin, Verdict, result, TypeOK, Rules, Notices, Decisions
  <2>3. Start \in Seq(Node)
    <3>1. [pkg |-> Root, depth |-> 0] \in Node
      BY WalkAssumption DEF Node, WalkAssumption
    <3> QED
      BY <3>1 DEF Start
  <2> QED
    BY <2>1, <2>2, <2>3 DEF TypeOK, WalkTypeOK, Phases
<1>2. CASE Resolve
  <2>1. WalkTypeOK' /\ Len(nodes') >= Len(nodes)
    BY <1>2, WalkTyped DEF Resolve, TypeOK
  <2>2. /\ phase' \in {"walk", "kev"}
        /\ UNCHANGED <<current, kev, world, policy, kind, asked, health, findings, heard, unreachable,
                       content, triggered, decision, entry>>
    BY <1>2 DEF Resolve, gathered, result
  <2>3. asked \in 0..Len(nodes')
    BY <2>1, LenProperties DEF TypeOK, WalkTypeOK
  <2> QED
    BY <2>1, <2>2, <2>3 DEF TypeOK, Phases
<1>3. CASE EnsureLoaded
  <2>1. /\ phase' = "query" /\ kev' \in {kev, "fresh"}
        /\ \/ health' = health
           \/ health' = [health EXCEPT !["kev"] = "Ok"]
           \/ health' = [health EXCEPT !["kev"] = IF kev = "never" THEN "Errored" ELSE "Ok"]
        /\ UNCHANGED <<queue, nodes, answered, current, world, policy, kind, asked, findings, heard,
                       unreachable, content, triggered, decision, entry>>
    BY <1>3 DEF EnsureLoaded, walkVars, result
  <2>2. health' \in [Keys -> Statuses \cup {None}]
    BY <2>1 DEF TypeOK, Statuses
  <2> QED
    BY <2>1, <2>2 DEF TypeOK, WalkTypeOK, Phases
<1>4. CASE QueryNode
  BY <1>4, QueryTypeOK
<1>5. CASE Judge
  <2>1. /\ phase' = "curate"
        /\ UNCHANGED <<queue, nodes, answered, current, kev, world, policy, kind, asked, health,
                       findings, heard, entry>>
    BY <1>5 DEF Judge, walkVars, gathered
  <2>2. unreachable' \subseteq findings
    BY <1>5 DEF Judge
  <2>3. content' \in Statuses
    BY <1>5 DEF Judge, Statuses
  <2>4. triggered' \in SUBSET Rules
    BY <1>5, RuleTypes DEF Judge, Rules, Notices
  <2>5. decision' \in Decisions
    BY <1>5, RuleTypes DEF Judge, Decisions
  <2> QED
    BY <2>1, <2>2, <2>3, <2>4, <2>5 DEF TypeOK, WalkTypeOK, Phases
<1>6. CASE Curate
  <2>1. /\ phase' = "finish"
        /\ UNCHANGED <<queue, nodes, answered, current, kev, world, policy, kind, asked, health,
                       findings, heard, unreachable, content, entry>>
    BY <1>6 DEF Curate, walkVars, gathered
  <2>2. triggered' \in SUBSET Rules
    BY <1>6, RuleTypes DEF Curate, TypeOK, Rules
  <2>3. decision' \in Decisions
    BY <1>6, RuleTypes DEF Curate, Decisions
  <2> QED
    BY <2>1, <2>2, <2>3 DEF TypeOK, WalkTypeOK, Phases
<1>7. CASE Finish
  <2>1. /\ phase' = "done" /\ entry' = [policy |-> policy, decision |-> decision, triggered |-> triggered]
        /\ UNCHANGED <<queue, nodes, answered, current, kev, world, policy, kind, asked, health,
                       findings, heard, unreachable, content, triggered, decision>>
    BY <1>7 DEF Finish, walkVars, gathered, result
  <2> QED
    BY <2>1 DEF TypeOK, WalkTypeOK, Phases, Entry
<1>8. CASE Return
  <2>1. WalkTypeOK' /\ Len(nodes') = 0
    BY <1>8, EmptySeq DEF Return, WalkTypeOK
  <2>2. health' \in [Keys -> Statuses \cup {None}] /\ content' \in Statuses /\ decision' \in Decisions
    BY <1>8 DEF Return, Statuses, Decisions
  <2> QED
    BY <1>8, <2>1, <2>2 DEF Return, TypeOK, Phases
<1>9. CASE Edit \/ Age \/ LoadedByOther
  <2>1. /\ current' \in Policies /\ kev' \in {kev, "stale", "fresh"}
        /\ UNCHANGED <<queue, nodes, answered, world, phase, policy, kind, asked, health, findings, heard,
                       unreachable, content, triggered, decision, entry>>
    BY <1>9 DEF Edit, Age, LoadedByOther, Others, walkVars, gathered, result, TypeOK
  <2> QED
    BY <2>1 DEF TypeOK, WalkTypeOK
<1>10. CASE UNCHANGED vars
  BY <1>10 DEF vars, TypeOK, WalkTypeOK
<1> QED
  BY <1>1, <1>2, <1>3, <1>4, <1>5, <1>6, <1>7, <1>8, <1>9, <1>10 DEF Next

\* Type correctness of the gate, for any graph, sources, advisories and policies.
THEOREM GateTyped == Spec => []TypeOK
BY InitTypeOK, NextTypeOK, PTL DEF Spec

------------------------------------------------------------------------------
\* The tree

\* Between evaluations there is no tree; within one, the walk keeps its invariant.
TreeInv == WalkInv /\ (phase = "idle" => Fresh)

\* There is no tree at first.
LEMMA InitTreeInv == Init => TreeInv
BY WalkInvEmpty DEF Init, Fresh, TreeInv

\* The walk may be started or dropped in a step.
LEMMA WalkBegins == (queue = Start /\ nodes = <<>> /\ answered = {})' => WalkInv'
BY WalkInvStart, PTL

LEMMA WalkEnds == (queue = <<>> /\ nodes = <<>> /\ answered = {})' => WalkInv'
BY WalkInvEmpty, PTL

\* Every step of the gate keeps the invariant of the walk.
LEMMA NextTreeInv == TypeOK /\ TreeInv /\ [Next]_vars => TreeInv'
<1> SUFFICES ASSUME TypeOK, TreeInv, [Next]_vars PROVE TreeInv'
  OBVIOUS
<1>1. CASE Begin
  <2>1. /\ nodes = <<>> /\ answered = {} /\ queue = <<>> /\ nodes' = nodes /\ answered' = answered
        /\ queue' = queue \/ queue' = Start
        /\ phase' \in {"finish", "walk"}
    BY <1>1 DEF Begin, Verdict, TreeInv, Fresh
  <2>2. WalkInv'
    <3>1. CASE queue' = Start
      BY <2>1, <3>1, WalkBegins DEF Start
    <3>2. CASE queue' = queue
      BY <2>1, <3>2, WalkEnds
    <3> QED
      BY <2>1, <3>1, <3>2
  <2> QED
    BY <2>1, <2>2 DEF TreeInv
<1>2. CASE Resolve
  <2>1. WalkInv'
    BY <1>2, WalkInvKept DEF Resolve, TypeOK, TreeInv
  <2>2. phase' \in {"kev", "walk"}
    BY <1>2 DEF Resolve
  <2> QED
    BY <2>1, <2>2 DEF TreeInv
<1>3. CASE Return
  <2>1. queue' = <<>> /\ nodes' = <<>> /\ answered' = {} /\ Fresh'
    BY <1>3 DEF Return, Fresh
  <2> QED
    BY <2>1, WalkEnds DEF TreeInv
<1>4. CASE EnsureLoaded \/ QueryNode \/ Judge \/ Curate \/ Finish \/ Edit \/ Age \/ LoadedByOther \/ UNCHANGED vars
  <2>1. UNCHANGED walkVars
    BY <1>4 DEF EnsureLoaded, QueryNode, Judge, Curate, Finish, Edit, Age, LoadedByOther, Others, vars, walkVars
  <2>2. WalkInv'
    BY <2>1 DEF walkVars, TreeInv, WalkInv, Sorted, Behind, Distinct, AskedInTree, TreeHangs, QueueHangs,
         Complete, Hangs, ComesAt, InTree, Expanded, Lists
  <2>3. phase' = "idle" => Fresh'
    <3>1. CASE phase' # "idle"
      BY <3>1
    <3>2. CASE Edit \/ Age \/ LoadedByOther \/ UNCHANGED vars
      <4>1. UNCHANGED <<queue, nodes, answered, asked, health, findings, unreachable, content, heard, phase>>
        BY <3>2 DEF Edit, Age, LoadedByOther, Others, vars, walkVars, gathered
      <4> QED
        BY <4>1 DEF TreeInv, Fresh
    <3> QED
      BY <1>4, <3>1, <3>2 DEF EnsureLoaded, QueryNode, Judge, Curate, Finish
  <2> QED
    BY <2>2, <2>3 DEF TreeInv
<1> QED
  BY <1>1, <1>2, <1>3, <1>4 DEF Next

\* The finished tree is the shortest-path tree of what the registry answered
\* (TreeWalker.WalkAsync), for any graph and depth.
THEOREM TreesAreShortest == Spec => []TreeIsShortest
<1>1. TreeInv => TreeIsShortest
  BY WalkInvSettles DEF TreeInv
<1> QED
  BY <1>1, InitTypeOK, NextTypeOK, InitTreeInv, NextTreeInv, PTL DEF Spec

------------------------------------------------------------------------------
\* The audit entry

FindingNames == {"SEC-MAL-01", "SEC-VULN-01", "SEC-VULN-02", "SEC-VULN-03"}

\* An entry is made of what the evaluation holds, once it has ended; and from the
\* judgement on the rules on the findings are those of the policy it began with.
EntryInv ==
    /\ phase # "done" => entry = None
    /\ phase = "done" => entry = [policy |-> policy, decision |-> decision, triggered |-> triggered]
    /\ phase \notin {"idle", "finish", "done"} => kind = "tree"
    /\ kind = "tree" /\ phase \in {"curate", "finish", "done"} =>
          triggered \cap FindingNames = TreeRules(policy, unreachable)

\* The rules on findings have these names; no other rule has (GateEngine).
LEMMA RulesByName ==
    /\ \A pol, S : TreeRules(pol, S) \subseteq FindingNames
    /\ \A pol, S : CurationRules(pol, S) \cap FindingNames = {}
<1>1. \A pol, f : FindingRules(pol, f) \subseteq FindingNames
  BY DEF FindingRules, FindingNames
<1>2. \A pol, S : CurationRules(pol, S) \cap FindingNames = {}
  BY DEF CurationRules, FindingNames
<1> QED
  BY <1>1, <1>2 DEF TreeRules

\* Every step keeps the audit entry in line with the evaluation.
LEMMA NextEntryInv == EntryInv /\ [Next]_vars => EntryInv'
<1> SUFFICES ASSUME EntryInv, [Next]_vars PROVE EntryInv'
  OBVIOUS
<1>1. CASE Begin
  <2>1. /\ phase = "idle" /\ entry' = entry
        /\ (phase' = "finish" /\ kind' # "tree") \/ (phase' = "walk" /\ kind' = "tree")
    BY <1>1 DEF Begin, Verdict
  <2> QED
    BY <2>1 DEF EntryInv
<1>2. CASE Resolve
  <2>1. phase = "walk" /\ phase' \in {"kev", "walk"} /\ entry' = entry /\ kind' = kind
    BY <1>2 DEF Resolve
  <2> QED
    BY <2>1 DEF EntryInv
<1>3. CASE EnsureLoaded
  <2>1. phase = "kev" /\ phase' = "query" /\ entry' = entry /\ kind' = kind
    BY <1>3 DEF EnsureLoaded
  <2> QED
    BY <2>1 DEF EntryInv
<1>4. CASE QueryNode
  <2>1. phase = "query" /\ phase' \in {"query", "judge"} /\ entry' = entry /\ kind' = kind
    BY <1>4 DEF QueryNode
  <2> QED
    BY <2>1 DEF EntryInv
<1>5. CASE Judge
  <2>1. phase = "judge" /\ phase' = "curate" /\ entry' = entry /\ kind' = kind /\ policy' = policy /\ findings' = findings
    BY <1>5 DEF Judge, gathered
  <2>2. PICK hits \in SUBSET {"SEC-SECRET-01", "SEC-IAC-01", "SEC-IAC-01:LOW"} :
           triggered' = TreeRules(policy, unreachable') \cup hits
    BY <1>5 DEF Judge
  <2>3. TreeRules(policy, unreachable)' = TreeRules(policy, unreachable')
    BY <2>1 DEF TreeRules, Counting
  <2>4. TreeRules(policy, unreachable') \subseteq FindingNames /\ hits \cap FindingNames = {}
    BY RulesByName DEF FindingNames
  <2>5. triggered' \cap FindingNames = TreeRules(policy, unreachable)'
    BY <2>2, <2>3, <2>4
  <2> QED
    BY <2>1, <2>5 DEF EntryInv
<1>6. CASE Curate
  <2>1. phase = "curate" /\ phase' = "finish" /\ UNCHANGED <<entry, kind, policy, findings, unreachable>>
    BY <1>6 DEF Curate, gathered
  <2>2. PICK facts \in SUBSET {"immature", "prohibited", "high-risk", "low-score"} :
           \/ triggered' = triggered \cup CurationRules(policy, facts)
           \/ triggered' = triggered \cup CurationRules(policy, facts) \cup {"SEC-COV-02"}
    BY <1>6 DEF Curate
  <2>3. CurationRules(policy, facts) \cap FindingNames = {} /\ "SEC-COV-02" \notin FindingNames
    BY RulesByName DEF FindingNames
  <2>4. triggered' \cap FindingNames = triggered \cap FindingNames
    BY <2>2, <2>3
  <2>5. TreeRules(policy, unreachable)' = TreeRules(policy, unreachable)
    BY <2>1 DEF TreeRules, Counting
  <2> QED
    BY <2>1, <2>4, <2>5 DEF EntryInv
<1>7. CASE Finish
  <2>1. /\ phase = "finish" /\ phase' = "done" /\ UNCHANGED <<kind, policy, findings, unreachable, triggered, decision>>
        /\ entry' = [policy |-> policy, decision |-> decision, triggered |-> triggered]
    BY <1>7 DEF Finish, gathered, result
  <2>2. TreeRules(policy, unreachable)' = TreeRules(policy, unreachable)
    BY <2>1 DEF TreeRules, Counting
  <2> QED
    BY <2>1, <2>2 DEF EntryInv
<1>8. CASE Return
  <2>1. phase' = "idle" /\ entry' = None
    BY <1>8 DEF Return
  <2> QED
    BY <2>1 DEF EntryInv
<1>9. CASE Edit \/ Age \/ LoadedByOther \/ UNCHANGED vars
  <2>1. UNCHANGED <<phase, entry, kind, policy, findings, unreachable, triggered, decision>>
    BY <1>9 DEF Edit, Age, LoadedByOther, Others, gathered, result, vars
  <2>2. TreeRules(policy, unreachable)' = TreeRules(policy, unreachable)
    BY <2>1 DEF TreeRules, Counting
  <2> QED
    BY <2>1, <2>2 DEF EntryInv
<1> QED
  BY <1>1, <1>2, <1>3, <1>4, <1>5, <1>6, <1>7, <1>8, <1>9 DEF Next

\* The audit entry names the policy that explains it (GateEngine.EvaluateAsync), for
\* any policies and however often they are edited meanwhile.
THEOREM EntriesNamePolicies == Spec => []EntryNamesPolicy
<1>1. Init => EntryInv
  BY DEF Init, EntryInv
<1>2. EntryInv => EntryNamesPolicy
  <2> SUFFICES ASSUME EntryInv, entry # None, kind = "tree"
               PROVE  entry.triggered \cap FindingNames = TreeRules(entry.policy, unreachable)
    BY DEF EntryNamesPolicy, FindingNames
  <2>1. phase = "done" /\ entry = [policy |-> policy, decision |-> decision, triggered |-> triggered]
    BY DEF EntryInv
  <2>2. entry.triggered = triggered /\ entry.policy = policy
    BY <2>1
  <2> QED
    BY <2>1, <2>2 DEF EntryInv
<1> QED
  BY <1>1, <1>2, NextEntryInv, PTL DEF Spec

------------------------------------------------------------------------------
\* The sources

Good(k) == health[k] \in {"Ok", "Empty"}
On(k) == k \in Feeds \cap policy.enabled

\* f reports a of p, and nothing that a says of itself is lost in it.
Reports(f, p, a) == /\ f.pkg = p /\ f.adv = a
                    /\ a.exploited => f.exploited
                    /\ a.epss # None => f.epss = a.epss

\* The health of a feed tells whether it answered for every package asked about.
Untouched == \A k \in Keys : On(k) => (health[k] = None <=> asked = 0)
GoodHeard == \A k \in Keys : On(k) /\ Good(k) => \A i \in 1..asked : <<nodes[i].pkg, k>> \in heard
GapUnheard == \A k \in Keys : On(k) /\ ~Good(k) /\ asked # 0 =>
                 \E i \in 1..asked : <<nodes[i].pkg, k>> \notin heard

\* Only packages asked about were heard of, and what was heard became findings.
HeardAsked == \A k \in Keys, p \in Packages : <<p, k>> \in heard => \E i \in 1..asked : nodes[i].pkg = p
HeardFound == \A k \in Feeds, p \in Packages : <<p, k>> \in heard =>
                 \A a \in world[k][p] : \E f \in findings : Reports(f, p, a)

\* The catalogue is there whenever its record is good.
KevLoaded == Good("kev") => kev # "never"

SourcesInv == Untouched /\ GoodHeard /\ GapUnheard /\ HeardAsked /\ HeardFound /\ KevLoaded

\* Where an evaluation is tells how far it has come.
Judged == phase \in {"judge", "curate"} \/ (kind = "tree" /\ phase \in {"finish", "done"})
Walked == phase \in {"kev", "query"} \/ Judged
PhaseInv ==
    /\ phase \in {"walk", "kev"} => asked = 0 /\ health = [k \in Keys |-> None] /\ heard = {}
    /\ Walked => nodes # <<>>
    /\ Judged => asked = Len(nodes)

\* A verdict that has come to its end is the one the rules and the coverage call for.
Decided == kind = "tree" /\ phase \in {"finish", "done"}
VerdictInv ==
    /\ Decided /\ decision = "Quarantine" => Inconclusive(policy)
    /\ Decided /\ decision = "Allow" => triggered \subseteq Notices /\ (policy.quarantine => ~Inconclusive(policy))

\* A record is good, or not there, by its rank (GateEngine.Rank).
LEMMA RankTells ==
    \A s \in Statuses \cup {None} : (s \in {"Ok", "Empty"} <=> Rank(s) \in 1..2) /\ (s = None <=> Rank(s) = 0)
BY GateAssumption, SMT DEF Rank, Statuses, GateAssumption

\* Merging the answer s into the record h of a source: the result is good if s is,
\* and h is good or was not there (GateEngine.Merge).
LEMMA WorseGood ==
    ASSUME NEW h \in Statuses \cup {None}, NEW s \in Statuses
    PROVE  /\ Worse(h, s) # None
           /\ Worse(h, s) \in {"Ok", "Empty"} <=> s \in {"Ok", "Empty"} /\ h \in {"Ok", "Empty", None}
<1>1. Worse(h, s) \in {h, s} /\ Worse(h, s) \in Statuses \cup {None}
      /\ Rank(Worse(h, s)) >= Rank(h) /\ Rank(Worse(h, s)) >= Rank(s)
  BY WorseType
<1>2. s # None /\ Rank(s) \in 0..6 /\ Rank(h) \in 0..6 /\ Rank(Worse(h, s)) \in 0..6
  BY <1>1, RankType, GateAssumption DEF GateAssumption
<1>3. Worse(h, s) # None
  BY <1>1, <1>2, RankTells
<1>4. CASE s \in {"Ok", "Empty"} /\ h \in {"Ok", "Empty", None}
  BY <1>1, <1>3, <1>4
<1>5. CASE s \notin {"Ok", "Empty"} \/ h \notin {"Ok", "Empty", None}
  <2>1. Rank(s) > 2 \/ Rank(h) > 2
    BY <1>2, <1>5, RankTells
  <2>2. Rank(Worse(h, s)) > 2
    BY <1>1, <1>2, <2>1
  <2> QED
    BY <1>1, <1>5, <2>2, RankTells
<1> QED
  BY <1>3, <1>4, <1>5

\* An evaluation that has asked nothing knows nothing.
LEMMA BlankSources == asked = 0 /\ heard = {} /\ health = [k \in Keys |-> None] => SourcesInv
<1> SUFFICES ASSUME asked = 0, heard = {}, health = [k \in Keys |-> None] PROVE SourcesInv
  OBVIOUS
<1>1. \A k \in Keys : health[k] = None /\ ~Good(k)
  BY GateAssumption DEF GateAssumption, Statuses, Good
<1>2. "kev" \in Keys
  BY DEF Keys
<1> QED
  BY <1>1, <1>2 DEF SourcesInv, Untouched, GoodHeard, GapUnheard, HeardAsked, HeardFound, KevLoaded

LEMMA BlankSourcesNext == (asked = 0 /\ heard = {} /\ health = [k \in Keys |-> None])' => SourcesInv'
BY BlankSources, PTL

\* Asking about one more package (GateEngine.EvaluateAsync, the loop over the tree).
LEMMA QuerySources == TypeOK /\ WalkInv /\ SourcesInv /\ QueryNode => SourcesInv'
<1> SUFFICES ASSUME TypeOK, WalkInv, SourcesInv, QueryNode PROVE SourcesInv'
  OBVIOUS
<1> DEFINE i == asked + 1
           pkg == nodes[i].pkg
<1>1. PICK reply \in Replies : \E scores \in SUBSET ToScore(Found(reply)),
                     hits \in SUBSET {a \in Found(reply) : a.vulncheck /\ VulnCheckOn} :
                        Told(reply, scores, hits)
  BY QueryTold
<1>2. PICK scores \in SUBSET ToScore(Found(reply)), hits \in SUBSET {a \in Found(reply) : a.vulncheck /\ VulnCheckOn} :
          Told(reply, scores, hits)
  BY <1>1
<1> DEFINE from == From(reply)
<1>3. /\ asked \in Nat /\ asked' = i /\ i \in Nat \ {0} /\ i \in DOMAIN nodes /\ 1..asked \subseteq DOMAIN nodes
      /\ 1..i = 1..asked \cup {i} /\ i \notin 1..asked
      /\ nodes' = nodes /\ policy' = policy /\ world' = world /\ kev' = kev
  <2>1. asked < Len(nodes) /\ asked' = asked + 1 /\ UNCHANGED <<nodes, policy, world, kev>>
    BY DEF QueryNode, walkVars
  <2>2. nodes \in Seq(Node) /\ asked \in 0..Len(nodes)
    BY DEF TypeOK, WalkTypeOK
  <2>3. Len(nodes) \in Nat /\ DOMAIN nodes = 1..Len(nodes)
    BY <2>2, LenProperties
  <2> QED
    BY <2>1, <2>2, <2>3
<1>4. pkg \in Packages
  BY <1>3, DepthType DEF TypeOK, WalkTypeOK, Node
<1>5. \A j \in 1..asked : nodes[j].pkg # pkg
  BY <1>3 DEF WalkInv, Distinct
<1>6. \A k \in Keys : <<pkg, k>> \notin heard
  BY <1>4, <1>5 DEF SourcesInv, HeardAsked
<1>7. from \subseteq Asked /\ Asked \subseteq Feeds /\ Feeds \subseteq Keys
  BY DEF From, Asked, Keys
<1>8. \A k, p : <<p, k>> \in heard' <=> <<p, k>> \in heard \/ (p = pkg /\ k \in from)
  BY <1>2 DEF Told
<1>9. \A k \in Keys : On(k) => \E s \in Statuses : /\ health'[k] = Worse(health[k], s)
                                                   /\ k \in from <=> s \in {"Ok", "Empty"}
  <2> SUFFICES ASSUME NEW k \in Keys, On(k)
               PROVE  \E s \in Statuses : health'[k] = Worse(health[k], s) /\ (k \in from <=> s \in {"Ok", "Empty"})
    OBVIOUS
  <2>1. health'[k] = NewHealth(reply, scores, hits, k)
    BY <1>2 DEF Told
  <2>2. CASE k \in Asked
    <3>1. health'[k] = Worse(health[k], Replied(reply, k))
      <4>1. k \notin (Feeds \cup {"vulncheck"}) \cap (policy.enabled \ Available) /\ k # "epss" /\ k # "vulncheck"
        BY <1>7, <2>2, GateAssumption DEF Asked, GateAssumption
      <4> QED
        BY <2>1, <2>2, <4>1 DEF NewHealth
    <3>2. Replied(reply, k) \in Statuses /\ (k \in from <=> Replied(reply, k) \in {"Ok", "Empty"})
      BY <2>2, GateAssumption DEF GateAssumption, Replied, From, Replies, Statuses
    <3> QED
      BY <3>1, <3>2
  <2>3. CASE k \notin Asked
    <3>1. k \in (Feeds \cup {"vulncheck"}) \cap (policy.enabled \ Available)
      BY <2>3 DEF On, Asked
    <3>2. health'[k] = Worse(health[k], "NotConfigured")
      <4>1. k # "epss" /\ k # "vulncheck"
        BY GateAssumption DEF GateAssumption, On
      <4> QED
        BY <2>1, <2>3, <3>1, <4>1 DEF NewHealth
    <3>3. k \notin from
      BY <1>7, <2>3
    <3> QED
      BY <3>2, <3>3 DEF Statuses
  <2> QED
    BY <2>2, <2>3
<1>10. \A k \in Keys : On(k) => /\ health'[k] # None
                                /\ health'[k] \in {"Ok", "Empty"} <=> k \in from /\ (health[k] = None \/ Good(k))
  <2> SUFFICES ASSUME NEW k \in Keys, On(k)
               PROVE  health'[k] # None /\ (health'[k] \in {"Ok", "Empty"} <=> k \in from /\ (health[k] = None \/ Good(k)))
    OBVIOUS
  <2>1. health[k] \in Statuses \cup {None}
    BY DEF TypeOK
  <2>2. PICK s \in Statuses : health'[k] = Worse(health[k], s) /\ (k \in from <=> s \in {"Ok", "Empty"})
    BY <1>9
  <2>3. Worse(health[k], s) # None
        /\ (Worse(health[k], s) \in {"Ok", "Empty"} <=> s \in {"Ok", "Empty"} /\ health[k] \in {"Ok", "Empty", None})
    BY <2>1, WorseGood
  <2> QED
    BY <2>2, <2>3 DEF Good
<1>11. \A k \in Keys : k \in Feeds \cap policy'.enabled => On(k)
  BY <1>3 DEF On
<1>12. Untouched'
  <2>1. asked' # 0
    BY <1>3
  <2>2. \A k \in Keys : k \in Feeds \cap policy'.enabled => health'[k] # None
    BY <1>10, <1>11
  <2> QED
    BY <2>1, <2>2 DEF Untouched, On
<1>13. GoodHeard'
  <2> SUFFICES ASSUME NEW k \in Keys, On(k), health'[k] \in {"Ok", "Empty"}, NEW j \in 1..asked'
               PROVE  <<nodes'[j].pkg, k>> \in heard'
    BY <1>11 DEF GoodHeard, Good, On
  <2>1. k \in from /\ (health[k] = None \/ Good(k))
    BY <1>10
  <2>2. CASE j = i
    BY <1>3, <1>8, <2>1, <2>2
  <2>3. CASE j \in 1..asked
    <3>1. Good(k)
      BY <1>3, <2>1, <2>3 DEF SourcesInv, Untouched
    <3> QED
      BY <1>3, <1>8, <2>3, <3>1 DEF SourcesInv, GoodHeard
  <2> QED
    BY <1>3, <2>2, <2>3
<1>14. GapUnheard'
  <2> SUFFICES ASSUME NEW k \in Keys, On(k), health'[k] \notin {"Ok", "Empty"}
               PROVE  \E j \in 1..asked' : <<nodes'[j].pkg, k>> \notin heard'
    BY <1>11 DEF GapUnheard, Good, On
  <2>1. CASE k \notin from
    BY <1>3, <1>6, <1>8, <2>1
  <2>2. CASE k \in from
    <3>1. health[k] # None /\ ~Good(k)
      BY <1>10, <2>2
    <3>2. PICK j \in 1..asked : <<nodes[j].pkg, k>> \notin heard
      BY <3>1 DEF SourcesInv, Untouched, GapUnheard
    <3>3. <<nodes[j].pkg, k>> \notin heard'
      BY <1>5, <1>8, <3>2
    <3> QED
      BY <1>3, <3>3
  <2> QED
    BY <2>1, <2>2
<1>15. HeardAsked'
  <2> SUFFICES ASSUME NEW k \in Keys, NEW p \in Packages, <<p, k>> \in heard' PROVE \E j \in 1..asked' : nodes'[j].pkg = p
    BY DEF HeardAsked
  <2>1. CASE <<p, k>> \in heard
    <3>1. PICK j \in 1..asked : nodes[j].pkg = p
      BY <2>1 DEF SourcesInv, HeardAsked
    <3> QED
      BY <1>3, <3>1
  <2>2. CASE p = pkg
    BY <1>3, <2>2
  <2> QED
    BY <1>8, <2>1, <2>2
<1>16. HeardFound'
  <2> SUFFICES ASSUME NEW k \in Feeds, NEW p \in Packages, <<p, k>> \in heard', NEW a \in world[k][p]
               PROVE  \E f \in findings' : Reports(f, p, a)
    BY <1>3 DEF HeardFound, Reports
  <2>1. CASE <<p, k>> \in heard
    BY <1>2, <2>1 DEF SourcesInv, HeardFound, Told
  <2>2. CASE p = pkg /\ k \in from
    <3>1. a \in Found(reply)
      BY <2>2 DEF Found
    <3>2. Enriched(pkg, a, scores, hits) \in findings'
      BY <1>2, <3>1 DEF Told
    <3>3. a.epss # None => a \notin scores
      BY DEF ToScore
    <3>4. Reports(Enriched(pkg, a, scores, hits), p, a)
      BY <2>2, <3>3 DEF Reports, Enriched
    <3> QED
      BY <3>2, <3>4
  <2> QED
    BY <1>8, <2>1, <2>2
<1>17. KevLoaded'
  <2>1. "kev" \in Keys /\ "kev" \notin Asked /\ "kev" \notin Feeds
    BY GateAssumption DEF GateAssumption, Keys, Asked
  <2>2. health'["kev"] = health["kev"]
    BY <1>2, <2>1 DEF Told, NewHealth
  <2> QED
    BY <1>3, <2>2 DEF SourcesInv, KevLoaded, Good
<1> QED
  BY <1>12, <1>13, <1>14, <1>15, <1>16, <1>17 DEF SourcesInv

\* Every step moves the evaluation on in order (GateEngine.EvaluateAsync).
LEMMA NextPhaseInv == TypeOK /\ TreeInv /\ PhaseInv /\ [Next]_vars => PhaseInv'
<1> SUFFICES ASSUME TypeOK, TreeInv, PhaseInv, [Next]_vars PROVE PhaseInv'
  OBVIOUS
<1> USE DEF PhaseInv, Judged, Walked
<1>1. CASE Begin
  <2>1. /\ phase = "idle" /\ asked' = asked /\ health' = health /\ heard' = heard /\ nodes' = nodes
        /\ (phase' = "finish" /\ kind' # "tree") \/ phase' = "walk"
    BY <1>1 DEF Begin, Verdict, gathered
  <2>2. asked = 0 /\ health = [k \in Keys |-> None] /\ heard = {}
    BY <2>1 DEF TreeInv, Fresh
  <2> QED
    BY <2>1, <2>2
<1>2. CASE Resolve
  <2>1. phase = "walk" /\ phase' \in {"kev", "walk"} /\ asked' = asked /\ health' = health /\ heard' = heard
    BY <1>2 DEF Resolve, gathered
  <2>2. nodes' # <<>>
    BY <1>2, WalkTyped DEF Resolve, TypeOK
  <2> QED
    BY <2>1, <2>2
<1>3. CASE EnsureLoaded
  <2>1. phase = "kev" /\ phase' = "query" /\ nodes' = nodes
    BY <1>3 DEF EnsureLoaded, walkVars
  <2> QED
    BY <2>1
<1>4. CASE QueryNode
  <2>1. phase = "query" /\ nodes' = nodes /\ (phase' = "query" \/ (phase' = "judge" /\ asked' = Len(nodes)))
    BY <1>4 DEF QueryNode, walkVars
  <2> QED
    BY <2>1
<1>5. CASE Judge \/ Curate \/ Finish
  <2>1. /\ phase \in {"judge", "curate", "finish"} /\ phase' \in {"curate", "finish", "done"}
        /\ (phase = "finish" => phase' = "done") /\ UNCHANGED <<kind, asked, nodes>>
    BY <1>5 DEF Judge, Curate, Finish, walkVars, gathered
  <2> QED
    BY <2>1
<1>6. CASE Return
  <2>1. phase' = "idle"
    BY <1>6 DEF Return
  <2> QED
    BY <2>1
<1>7. CASE Edit \/ Age \/ LoadedByOther \/ UNCHANGED vars
  <2>1. UNCHANGED <<phase, kind, asked, nodes, health, heard>>
    BY <1>7 DEF Edit, Age, LoadedByOther, Others, walkVars, gathered, vars
  <2> QED
    BY <2>1
<1> QED
  BY <1>1, <1>2, <1>3, <1>4, <1>5, <1>6, <1>7 DEF Next

\* Every step keeps what the health records say of the answers.
LEMMA NextSourcesInv == TypeOK /\ TreeInv /\ PhaseInv /\ SourcesInv /\ [Next]_vars => SourcesInv'
<1> SUFFICES ASSUME TypeOK, TreeInv, PhaseInv, SourcesInv, [Next]_vars PROVE SourcesInv'
  OBVIOUS
<1>1. CASE Begin \/ Resolve
  <2>1. phase \in {"idle", "walk"} /\ asked' = asked /\ health' = health /\ heard' = heard
    BY <1>1 DEF Begin, Resolve, gathered
  <2>2. asked = 0 /\ health = [k \in Keys |-> None] /\ heard = {}
    BY <2>1 DEF TreeInv, Fresh, PhaseInv
  <2> QED
    BY <2>1, <2>2, BlankSourcesNext
<1>2. CASE EnsureLoaded
  <2>1. /\ phase = "kev" /\ asked' = asked /\ heard' = heard /\ policy' = policy
        /\ \/ health' = health
           \/ health' = [health EXCEPT !["kev"] = "Ok"] /\ (kev' = "fresh" \/ (kev' = kev /\ kev # "never"))
           \/ health' = [health EXCEPT !["kev"] = "Errored"]
    BY <1>2 DEF EnsureLoaded
  <2>2. asked = 0 /\ health = [k \in Keys |-> None] /\ heard = {} /\ "kev" \in Keys
    BY <2>1 DEF PhaseInv, Keys
  <2>3. \A k \in Keys : k # "kev" => health'[k] = None
    BY <2>1, <2>2
  <2>4. "kev" \notin Feeds /\ None \notin {"Ok", "Empty"}
    BY GateAssumption DEF GateAssumption, Statuses
  <2>5. Untouched' /\ GoodHeard' /\ GapUnheard'
    BY <2>1, <2>2, <2>3, <2>4 DEF Untouched, GoodHeard, GapUnheard, On
  <2>6. HeardAsked' /\ HeardFound'
    BY <2>1, <2>2 DEF HeardAsked, HeardFound
  <2>7. KevLoaded'
    BY <2>1, <2>2, <2>4 DEF KevLoaded, Good
  <2> QED
    BY <2>5, <2>6, <2>7 DEF SourcesInv
<1>3. CASE QueryNode
  BY <1>3, QuerySources DEF TreeInv
<1>4. CASE Return
  <2>1. asked' = 0 /\ health' = [k \in Keys |-> None] /\ heard' = {}
    BY <1>4 DEF Return
  <2> QED
    BY <2>1, BlankSourcesNext
<1>5. CASE Judge \/ Curate \/ Finish \/ Edit \/ Age \/ LoadedByOther \/ UNCHANGED vars
  <2>1. /\ UNCHANGED <<asked, health, heard, findings, policy, world, nodes>>
        /\ kev' = kev \/ kev' \in {"fresh", "stale"}
    BY <1>5 DEF Judge, Curate, Finish, Edit, Age, LoadedByOther, Others, walkVars, gathered, vars
  <2>2. Untouched' /\ GoodHeard' /\ GapUnheard'
    BY <2>1 DEF SourcesInv, Untouched, GoodHeard, GapUnheard, On, Good
  <2>3. HeardAsked' /\ HeardFound'
    BY <2>1 DEF SourcesInv, HeardAsked, HeardFound, Reports
  <2>4. KevLoaded'
    BY <2>1 DEF SourcesInv, KevLoaded, Good
  <2> QED
    BY <2>2, <2>3, <2>4 DEF SourcesInv
<1> QED
  BY <1>1, <1>2, <1>3, <1>4, <1>5 DEF Next

\* Every step keeps the verdict what rules and coverage call for.
LEMMA NextVerdictInv == VerdictInv /\ [Next]_vars => VerdictInv'
<1> SUFFICES ASSUME VerdictInv, [Next]_vars PROVE VerdictInv'
  OBVIOUS
<1> USE DEF VerdictInv, Decided
<1>1. CASE Begin \/ Resolve \/ EnsureLoaded \/ QueryNode \/ Judge \/ Return
  <2>1. phase' \notin {"finish", "done"} \/ kind' # "tree"
    BY <1>1 DEF Begin, Verdict, Resolve, EnsureLoaded, QueryNode, Judge, Return
  <2> QED
    BY <2>1
<1>2. CASE Curate
  <2>1. PICK facts \in SUBSET {"immature", "prohibited", "high-risk", "low-score"} :
         LET rules == triggered \cup CurationRules(policy, facts)
             uncertain == DecisionOf(rules) = "Allow" /\ policy.quarantine /\ Inconclusive(policy)
         IN /\ triggered' = IF uncertain THEN rules \cup {"SEC-COV-02"} ELSE rules
            /\ decision' = IF uncertain THEN "Quarantine" ELSE DecisionOf(rules)
    BY <1>2 DEF Curate
  <2> DEFINE rules == triggered \cup CurationRules(policy, facts)
  <2>2. Inconclusive(policy)' <=> Inconclusive(policy)
    BY <1>2 DEF Curate, Inconclusive, gathered
  <2>3. policy' = policy
    BY <1>2 DEF Curate
  <2>4. CASE DecisionOf(rules) = "Allow" /\ policy.quarantine /\ Inconclusive(policy)
    <3>1. decision' = "Quarantine"
      BY <2>1, <2>4
    <3> QED
      BY <2>2, <2>4, <3>1
  <2>5. CASE ~(DecisionOf(rules) = "Allow" /\ policy.quarantine /\ Inconclusive(policy))
    <3>1. decision' = DecisionOf(rules) /\ triggered' = rules
      BY <2>1, <2>5
    <3>2. DecisionOf(rules) # "Quarantine" /\ (DecisionOf(rules) = "Allow" => rules \subseteq Notices)
      BY DEF DecisionOf
    <3> QED
      BY <2>2, <2>3, <2>5, <3>1, <3>2
  <2> QED
    BY <2>4, <2>5
<1>3. CASE Finish \/ Edit \/ Age \/ LoadedByOther \/ UNCHANGED vars
  <2>1. Decided' => Decided
    BY <1>3 DEF Finish, Edit, Age, LoadedByOther, Others, vars
  <2>2. UNCHANGED <<policy, health, content, triggered, decision>>
    BY <1>3 DEF Finish, Edit, Age, LoadedByOther, Others, vars, result, gathered
  <2>3. Inconclusive(policy)' <=> Inconclusive(policy)
    BY <2>2 DEF Inconclusive
  <2> QED
    BY <2>1, <2>2, <2>3
<1> QED
  BY <1>1, <1>2, <1>3 DEF Next

------------------------------------------------------------------------------
\* The verdicts

GateInv == TypeOK /\ TreeInv /\ EntryInv /\ PhaseInv /\ SourcesInv /\ VerdictInv

\* The parts of the invariant hold together.
LEMMA GateInvHolds == Spec => []GateInv
<1>1. Init => EntryInv /\ PhaseInv /\ SourcesInv /\ VerdictInv
  <2> SUFFICES ASSUME Init PROVE EntryInv /\ PhaseInv /\ SourcesInv /\ VerdictInv
    OBVIOUS
  <2>1. EntryInv /\ PhaseInv /\ VerdictInv
    BY DEF Init, EntryInv, PhaseInv, Walked, Judged, VerdictInv, Decided
  <2>2. SourcesInv
    BY BlankSources DEF Init, Fresh
  <2> QED
    BY <2>1, <2>2
<1> QED
  BY <1>1, InitTypeOK, NextTypeOK, InitTreeInv, NextTreeInv, NextEntryInv, NextPhaseInv, NextSourcesInv,
     NextVerdictInv, PTL DEF Spec, GateInv

\* What is missing when the coverage is inconclusive (GateEngine.BuildCoverage).
LEMMA GapFound == GateInv => QuarantineHasGap
<1> SUFFICES ASSUME GateInv, Given("Quarantine")
             PROVE  \/ \E k \in policy.required \cap Feeds, i \in DOMAIN nodes : <<nodes[i].pkg, k>> \notin heard
                    \/ \E k \in policy.required \ Feeds : k \in Keys /\ health[k] \notin {"Ok", "Empty"}
                    \/ "content-scan" \in policy.required /\ content = "Errored"
  BY DEF QuarantineHasGap
<1>1. Inconclusive(policy)
  BY DEF GateInv, VerdictInv, Decided, Given
<1>2. CASE "content-scan" \in policy.required /\ content = "Errored"
  BY <1>2
<1>3. ASSUME NEW k \in policy.enabled \cap policy.required, health[k] \notin {"Ok", "Empty"}
      PROVE  \/ k \in Feeds /\ \E i \in DOMAIN nodes : <<nodes[i].pkg, k>> \notin heard
             \/ k \notin Feeds /\ k \in Keys
  <2>1. k \in Keys
    BY <1>3, GateAssumption DEF GateAssumption, Policy, GateInv, TypeOK
  <2>2. CASE k \in Feeds
    <3>1. asked = Len(nodes) /\ nodes # <<>> /\ nodes \in Seq(Node)
      BY DEF GateInv, PhaseInv, Walked, Judged, Given, TypeOK, WalkTypeOK
    <3>2. asked # 0 /\ DOMAIN nodes = 1..asked
      BY <3>1, EmptySeq, LenProperties
    <3> QED
      BY <1>3, <2>1, <2>2, <3>2 DEF GateInv, SourcesInv, GapUnheard, On, Good
  <2> QED
    BY <2>1, <2>2
<1> QED
  BY <1>1, <1>2, <1>3 DEF Inconclusive

\* A finding of something bad is a rule that blocks (GateEngine.EvaluateFindings).
LEMMA BadBlocks ==
    ASSUME NEW p, NEW a \in Advisories, NEW f, Reports(f, p, a), Bad(policy, a)
    PROVE  FindingRules(policy, f) # {}
<1>1. f.adv = a /\ (a.exploited => f.exploited) /\ (a.epss # None => f.epss = a.epss)
  BY DEF Reports
<1>2. CASE a.malicious
  <2>1. "SEC-MAL-01" \in FindingRules(policy, f)
    BY <1>1, <1>2 DEF FindingRules
  <2> QED
    BY <2>1
<1>3. CASE policy.blockKev /\ a.exploited
  <2>1. "SEC-VULN-02" \in FindingRules(policy, f)
    BY <1>1, <1>3 DEF FindingRules
  <2> QED
    BY <2>1
<1>4. CASE a.epss # None /\ a.epss >= policy.epss
  <2>1. "SEC-VULN-03" \in FindingRules(policy, f)
    BY <1>1, <1>4 DEF FindingRules
  <2> QED
    BY <2>1
<1>5. CASE a.cvss # None /\ a.cvss >= policy.cvss
  <2>1. "SEC-VULN-01" \in FindingRules(policy, f)
    BY <1>1, <1>5 DEF FindingRules
  <2> QED
    BY <2>1
<1> QED
  BY <1>2, <1>3, <1>4, <1>5 DEF Bad

\* What is allowed has no rule against it among the findings that count.
LEMMA AllowedIsClean == GateInv /\ Given("Allow") => \A f \in Counting(policy, unreachable) : FindingRules(policy, f) = {}
<1> SUFFICES ASSUME GateInv, Given("Allow") PROVE \A f \in Counting(policy, unreachable) : FindingRules(policy, f) = {}
  OBVIOUS
<1>1. triggered \subseteq Notices
  BY DEF GateInv, VerdictInv, Decided, Given
<1>2. triggered \cap FindingNames = TreeRules(policy, unreachable)
  BY DEF GateInv, EntryInv, Given
<1>3. FindingNames \cap Notices = {}
  BY DEF FindingNames, Notices
<1>4. TreeRules(policy, unreachable) = {}
  BY <1>1, <1>2, <1>3
<1> QED
  BY <1>4 DEF TreeRules

\* The invariant makes every allowance an earned one (GateEngine.EvaluateAsync).
LEMMA AllowEarned == GateInv => AllowIsEarned
<1> SUFFICES ASSUME GateInv, Given("Allow"), policy.quarantine, NEW k \in policy.required \cap policy.enabled
             PROVE  /\ k = "kev" => kev # "never"
                    /\ k \in Feeds => \A i \in DOMAIN nodes :
                         /\ <<nodes[i].pkg, k>> \in heard
                         /\ \A a \in world[k][nodes[i].pkg] : Bad(policy, a) =>
                              policy.downgrade /\ \E f \in unreachable : f.pkg = nodes[i].pkg /\ f.adv = a
  BY DEF AllowIsEarned
<1>1. Good(k) /\ k \in Keys
  <2>1. ~Inconclusive(policy)
    BY DEF GateInv, VerdictInv, Decided, Given
  <2>2. policy \in Policy
    BY GateAssumption DEF GateAssumption, GateInv, TypeOK
  <2> QED
    BY <2>1, <2>2 DEF Inconclusive, Good, Policy
<1>2. k = "kev" => kev # "never"
  BY <1>1 DEF GateInv, SourcesInv, KevLoaded
<1>3. ASSUME k \in Feeds, NEW i \in DOMAIN nodes
      PROVE  /\ <<nodes[i].pkg, k>> \in heard
             /\ \A a \in world[k][nodes[i].pkg] : Bad(policy, a) =>
                  policy.downgrade /\ \E f \in unreachable : f.pkg = nodes[i].pkg /\ f.adv = a
  <2> DEFINE p == nodes[i].pkg
  <2>1. asked = Len(nodes) /\ nodes \in Seq(Node)
    BY DEF GateInv, PhaseInv, Judged, Given, TypeOK, WalkTypeOK
  <2>2. i \in 1..asked /\ p \in Packages
    BY <2>1, LenProperties, DepthType DEF Node
  <2>3. <<p, k>> \in heard
    BY <1>1, <1>3, <2>2 DEF GateInv, SourcesInv, GoodHeard, On
  <2>4. ASSUME NEW a \in world[k][p], Bad(policy, a)
        PROVE  policy.downgrade /\ \E f \in unreachable : f.pkg = p /\ f.adv = a
    <3>1. PICK f \in findings : Reports(f, p, a)
      BY <1>3, <2>2, <2>3 DEF GateInv, SourcesInv, HeardFound
    <3>2. a \in Advisories
      BY <1>3, <2>2, GateAssumption DEF GateAssumption, GateInv, TypeOK
    <3>3. FindingRules(policy, f) # {}
      BY <2>4, <3>1, <3>2, BadBlocks
    <3>4. f \notin Counting(policy, unreachable)
      BY <3>3, AllowedIsClean
    <3> QED
      BY <3>1, <3>4 DEF Counting, Reports
  <2> QED
    BY <2>3, <2>4
<1> QED
  BY <1>2, <1>3

\* A package is allowed only if the required sources answered for every package of its
\* tree and none of them has anything bad on one that counts (GateEngine.EvaluateAsync),
\* for any graph, sources, advisories, policies and edits of them.
THEOREM AllowsAreEarned == Spec => []AllowIsEarned
BY GateInvHolds, AllowEarned, PTL

\* A package is quarantined only if a required source left a gap (GateEngine.BuildCoverage).
THEOREM QuarantinesHaveGaps == Spec => []QuarantineHasGap
BY GateInvHolds, GapFound, PTL
==============================================================================
