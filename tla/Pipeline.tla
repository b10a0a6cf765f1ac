------------------------------ MODULE Pipeline ------------------------------
(***************************************************************************)
(* What the engine promises of one execution (the header of                *)
(* lib/dag/runner.ts), without an order, a retry or a step log: a graph    *)
(* that is no rooted DAG is refused; otherwise nodes are done one by one,  *)
(* each after all of its predecessors, until every node is done or a       *)
(* filter or a failing action halts the rest.  An execution that throws    *)
(* stays open.  DagRunner implements it.                                   *)
(***************************************************************************)
EXTENDS GraphSchema

VARIABLES
    graph,      \* the workflow's graph, fixed for the execution
    done,       \* the keys of the nodes that succeeded
    verdict     \* "open" until the execution is over

vars == <<graph, done, verdict>>

Init == done = {} /\ verdict = "open"

Ready(k) ==
    /\ RootedDag(graph)
    /\ verdict = "open"
    /\ k \in KeysOf(graph) \ done
    /\ Predecessors(AsDigraph(graph), k) \subseteq done

Refuse ==
    /\ verdict = "open" /\ done = {}
    /\ ~RootedDag(graph)
    /\ verdict' = "refused"
    /\ UNCHANGED <<graph, done>>

Perform(k) ==
    /\ Ready(k)
    /\ done' = done \cup {k}
    /\ UNCHANGED <<graph, verdict>>

\* Only a filter filters, and only an action fails.
Halt(k) ==
    /\ Ready(k)
    /\ \/ NodeAt(graph, k).type = "filter" /\ verdict' = "filtered"
       \/ NodeAt(graph, k).type = "action" /\ verdict' = "failed"
    /\ UNCHANGED <<graph, done>>

Conclude ==
    /\ verdict = "open"
    /\ done = KeysOf(graph)
    /\ verdict' = "succeeded"
    /\ UNCHANGED <<graph, done>>

Next == Refuse \/ Conclude \/ \E k \in KeysOf(graph) : Perform(k) \/ Halt(k)

Spec == Init /\ [][Next]_vars
=============================================================================
