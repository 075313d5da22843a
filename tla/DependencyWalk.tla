--------------------------- MODULE DependencyWalk ----------------------------
(***************************************************************************)
(* TreeWalker: the breadth-first walk by which a resolver lists the        *)
(* packages a release depends on, down to MaxTreeDepth.  Every registry    *)
(* request may fail, and a package whose request failed has no children.   *)
(***************************************************************************)
EXTENDS Naturals, Sequences

CONSTANTS
    Packages,       \* name@version
    Root,           \* the package under evaluation
    DependsOn,      \* what the registry lists for each package, in its order
    MaxTreeDepth

ASSUME WalkAssumption ==
    /\ Root \in Packages
    /\ DependsOn \in [Packages -> Seq(Packages)]
    /\ MaxTreeDepth \in Nat

VARIABLES
    queue,          \* nodes still to be visited
    nodes,          \* nodes visited: the tree
    answered        \* history: packages whose registry request succeeded

walkVars == <<queue, nodes, answered>>

Node == [pkg : Packages, depth : 0..MaxTreeDepth]

WalkTypeOK ==
    /\ queue \in Seq(Node)
    /\ nodes \in Seq(Node)
    /\ answered \in SUBSET Packages

\* The queue before the first visit
Start == <<[pkg |-> Root, depth |-> 0]>>

InTree(p) == \E i \in DOMAIN nodes : nodes[i].pkg = p

Children(n, deps) == [i \in DOMAIN deps |-> [pkg |-> deps[i], depth |-> n.depth + 1]]

\* Mutant: children are visited before what was queued earlier.
EnqueueFront(rest, n, deps) == Children(n, deps) \o rest

Enqueue(rest, n, deps) == rest \o Children(n, deps)

\* The cycle and duplicate guard
SkipSeen ==
    /\ queue # <<>> /\ InTree(Head(queue).pkg)
    /\ queue' = Tail(queue)
    /\ UNCHANGED <<nodes, answered>>

VisitLeaf ==
    /\ queue # <<>> /\ ~InTree(Head(queue).pkg)
    /\ Head(queue).depth >= MaxTreeDepth
    /\ nodes' = Append(nodes, Head(queue))
    /\ queue' = Tail(queue)
    /\ UNCHANGED answered

\* DirectDepsAsync: a request that fails, in whatever way, has no dependencies.
Visit ==
    /\ queue # <<>> /\ ~InTree(Head(queue).pkg)
    /\ Head(queue).depth < MaxTreeDepth
    /\ nodes' = Append(nodes, Head(queue))
    /\ LET n == Head(queue) IN
       \/ /\ queue' = Enqueue(Tail(queue), n, DependsOn[n.pkg])
          /\ answered' = answered \cup {n.pkg}
       \/ /\ queue' = Tail(queue)
          /\ UNCHANGED answered

Walk == SkipSeen \/ VisitLeaf \/ Visit

------------------------------------------------------------------------------
\* Correctness

Expanded(m) == m.depth < MaxTreeDepth /\ m.pkg \in answered

Lists(m, p) == \E i \in DOMAIN DependsOn[m.pkg] : DependsOn[m.pkg][i] = p

\* The finished tree is the shortest-path tree of what the registry answered: every
\* dependency of an expanded node is in it at most one level further down, and every
\* node but the root hangs one level below an expanded node that lists it (WalkAsync).
\* A package reached first on a long path is expanded all the same.
TreeIsShortest ==
    queue = <<>> =>
        /\ \A i \in DOMAIN nodes : Expanded(nodes[i]) =>
              \A p \in Packages : Lists(nodes[i], p) =>
                  \E j \in DOMAIN nodes : nodes[j].pkg = p /\ nodes[j].depth <= nodes[i].depth + 1
        /\ \A j \in DOMAIN nodes : nodes[j].depth > 0 =>
              \E i \in DOMAIN nodes : /\ Expanded(nodes[i]) /\ Lists(nodes[i], nodes[j].pkg)
                                      /\ nodes[j].depth = nodes[i].depth + 1
==============================================================================
