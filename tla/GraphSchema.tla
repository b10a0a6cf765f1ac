---------------------------- MODULE GraphSchema ----------------------------
(***************************************************************************)
(* The pure part of lib/dag/schema.ts: which workflow graphs validateGraph *)
(* accepts, and the order topoSort gives their nodes.  A graph is what the *)
(* API stores: a sequence of nodes and a sequence of edges that name nodes *)
(* by key.  Both orders matter to Kahn's queue, and so do repetitions.     *)
(***************************************************************************)
EXTENDS Integers, Sequences, FiniteSets, Graphs

NodeTypes == {"trigger", "filter", "transform", "action"}

KeysOf(g) == {g.nodes[i].key : i \in DOMAIN g.nodes}
TriggersOf(g) == {i \in DOMAIN g.nodes : g.nodes[i].type = "trigger"}

\* What the node and edge schemas make sure of, before validateGraph is asked.
IsGraph(g) ==
    /\ g = [nodes |-> g.nodes, edges |-> g.edges]
    /\ g.nodes \in Seq([key : KeysOf(g), type : NodeTypes])
    /\ g.edges \in Seq(ToSet(g.edges))
    /\ \A e \in ToSet(g.edges) : e = <<e[1], e[2]>>

\* An edge enters the adjacency lists unless it names an unknown node, is a
\* self-loop or repeats an earlier one; each of these is an error.
AcceptEdge(g, accepted, e) ==
    IF {e[1], e[2]} \subseteq KeysOf(g) /\ e[1] # e[2] /\ e \notin ToSet(accepted)
      THEN Append(accepted, e)
      ELSE accepted

AcceptedEdges(g) == FoldLeft(LAMBDA acc, e : AcceptEdge(g, acc, e), <<>>, g.edges)

\* The graph as its adjacency lists have it.
Adjacent(g) == [g EXCEPT !.edges = AcceptedEdges(g)]

InDegreeOf(g, k) == Cardinality({i \in DOMAIN g.edges : g.edges[i][2] = k})
-----------------------------------------------------------------------------
(***************************************************************************)
(* Kahn's algorithm, as both validateGraph and topoSort run it: the queue  *)
(* starts with every NODE whose key has indegree zero, and a key joins it  *)
(* when its indegree, counted down edge by edge, becomes zero.             *)
(***************************************************************************)
Enqueue(g, queue, node) ==
    IF InDegreeOf(g, node.key) = 0 THEN Append(queue, node.key) ELSE queue

Start(g) ==
    [queue   |-> FoldLeft(LAMBDA queue, node : Enqueue(g, queue, node), <<>>, g.nodes),
     visited |-> <<>>,
     left    |-> [k \in KeysOf(g) |-> InDegreeOf(g, k)]]

\* Mutant: a node joins the queue when its first edge is counted down.
Arrive_FirstEdge(st, k) ==
    [st EXCEPT !.left[k] = 0,
               !.queue = IF st.left[k] > 0 THEN Append(@, k) ELSE @]

Arrive(st, k) ==
    [st EXCEPT !.left[k] = @ - 1,
               !.queue = IF st.left[k] = 1 THEN Append(@, k) ELSE @]

\* The edges of a key stand in its adjacency list in the order of all edges.
Follow(st, key, e) == IF e[1] = key THEN Arrive(st, e[2]) ELSE st

Shift(st) == [st EXCEPT !.queue = Tail(@), !.visited = Append(@, Head(st.queue))]

Visit(g, st) ==
    IF st.queue = <<>>
      THEN st
      ELSE FoldLeft(LAMBDA s, e : Follow(s, Head(st.queue), e), Shift(st), g.edges)

\* A key is queued at most once per node at the start and once on arrival.
Kahn(g) ==
    FoldLeft(LAMBDA st, i : Visit(g, st), Start(g), [i \in 1 .. 2 * Len(g.nodes) |-> i])

\* The search from the first trigger, one edge further in each round.
Spread(g, seen) == seen \cup {e[2] : e \in {f \in ToSet(g.edges) : f[1] \in seen}}

ReachableFrom(g, k) == FoldLeft(LAMBDA seen, node : Spread(g, seen), {k}, g.nodes)

FirstTrigger(g) == g.nodes[CHOOSE i \in TriggersOf(g) : \A j \in TriggersOf(g) : i <= j].key

\* validateGraph: no error of any kind.
ValidGraph(g) ==
    /\ Len(g.nodes) > 0
    /\ Cardinality(TriggersOf(g)) = 1
    /\ Len(AcceptedEdges(g)) = Len(g.edges)
    /\ Len(Kahn(Adjacent(g)).visited) = Len(g.nodes)
    /\ KeysOf(g) \subseteq ReachableFrom(Adjacent(g), FirstTrigger(g))

\* byKey: the last node under a key is the one that is found.
NodeAt(g, k) ==
    g.nodes[CHOOSE i \in DOMAIN g.nodes :
              /\ g.nodes[i].key = k
              /\ \A j \in DOMAIN g.nodes : g.nodes[j].key = k => j <= i]

\* topoSort of a valid graph.
TopoSort(g) == LET keys == Kahn(g).visited IN [i \in DOMAIN keys |-> NodeAt(g, keys[i])]
-----------------------------------------------------------------------------
(***************************************************************************)
(* What the schema means, said without Kahn.                               *)
(***************************************************************************)
UniqueKeys(g) == \A i, j \in DOMAIN g.nodes : g.nodes[i].key = g.nodes[j].key => i = j

AsDigraph(g) == [node |-> KeysOf(g), edge |-> ToSet(g.edges)]

\* No set of keys feeds itself: each has a member that no member points to.
Acyclic(G) == \A S \in (SUBSET G.node) \ {{}} : \E k \in S : Predecessors(G, k) \cap S = {}

\* Every set of keys with the root in it, short of all of them, has an edge out.
AllReached(G, root) ==
    \A S \in (SUBSET G.node) \ {G.node} :
        root \in S => \E e \in G.edge : e[1] \in S /\ e[2] \notin S

\* A rooted DAG: one trigger, from which every other node can be reached, and
\* simple edges between known nodes that close no cycle.
RootedDag(g) ==
    LET G == AsDigraph(g)
    IN  /\ Cardinality(TriggersOf(g)) = 1
        /\ IsDirectedGraph(G)
        /\ Cardinality(G.edge) = Len(g.edges)
        /\ Acyclic(G)
        /\ AllReached(G, FirstTrigger(g))

\* What a node depends on, through any number of edges.
Upstream(g, k) ==
    LET G == AsDigraph(g)
        closed == {S \in SUBSET G.node : k \in S /\ AllPredecessors(G, S) \subseteq S}
    IN  {a \in G.node \ {k} : \A S \in closed : a \in S}
=============================================================================
