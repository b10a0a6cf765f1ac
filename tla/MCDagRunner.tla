---------------------------- MODULE MCDagRunner ----------------------------
(* Small families of workflow graphs for DagRunner. *)
EXTENDS DagRunner

\* The pairs (i, j) in the order a user might draw them.
Pairs(n) == [i \in 1 .. n * n |-> <<1 + (i - 1) \div n, 1 + ((i - 1) % n)>>]

\* The lists of edges that keep the order of a list of pairs.
EdgeLists(pairs) == {SelectSeq(pairs, LAMBDA e : e \in E) : E \in SUBSET ToSet(pairs)}

Reversed(seqs) == {Reverse(s) : s \in seqs}

\* Every choice of types for two nodes behind a trigger, in either order, and
\* every set of edges over them, loops included.
ThreeNodes ==
    LET nodes == {<<[key |-> 1, type |-> "trigger"], [key |-> 2, type |-> t], [key |-> 3, type |-> u]>> :
                     t \in NodeTypes, u \in NodeTypes}
    IN  [nodes : nodes \cup Reversed(nodes), edges : EdgeLists(Pairs(3))]

\* No nodes, no trigger, an edge that is repeated, an edge that leads nowhere.
Malformed ==
    LET node(k, t) == [key |-> k, type |-> t]
    IN  {[nodes |-> <<>>, edges |-> <<>>],
         [nodes |-> <<node(1, "action")>>, edges |-> <<>>],
         [nodes |-> <<node(1, "trigger"), node(2, "action")>>, edges |-> <<<<1, 2>>, <<1, 2>>>>],
         [nodes |-> <<node(1, "trigger"), node(2, "action")>>, edges |-> <<<<1, 2>>, <<2, 9>>>>]}

\* A trigger and three others, which may form diamonds, with nodes and edges
\* stored in either order.
FourNodes ==
    LET nodes == {<<[key |-> 1, type |-> "trigger"], [key |-> 2, type |-> t],
                    [key |-> 3, type |-> "transform"], [key |-> 4, type |-> "action"]>> :
                     t \in {"filter", "action"}}
        pairs == SelectSeq(Pairs(4), LAMBDA e : e[1] # e[2] /\ e[2] # 1)
    IN  [nodes : nodes \cup Reversed(nodes), edges : EdgeLists(pairs) \cup EdgeLists(Reverse(pairs))]

DistinctKeys == ThreeNodes \cup FourNodes \cup Malformed

\* Four nodes under three keys: nothing in the schema asks for unique keys.
RepeatedKeys ==
    [nodes : {<<[key |-> 1, type |-> "trigger"], [key |-> 1, type |-> "action"],
                [key |-> 2, type |-> "transform"], [key |-> 3, type |-> "transform"]>>},
     edges : EdgeLists(SelectSeq(Pairs(3), LAMBDA e : e[1] # e[2]))]
=============================================================================
