-------------------------- MODULE MCWorkflowStore --------------------------
(* Small instances of WorkflowStore. *)
EXTENDS WorkflowStore, TLC

\* The schema lets two actions share a key, the table does not.
Doubled == [key |-> "k2", slug |-> None, rest |-> "a2"]
DoubledGraphs == {Doubled}

\* A webhook, one with another slug, a schedule, and one that is doubled.
SomeGraphs ==
    {[key |-> "k1", slug |-> "s1", rest |-> "a1"],
     [key |-> "k1", slug |-> "s2", rest |-> None],
     [key |-> "k2", slug |-> None, rest |-> "a1"],
     Doubled}

OneGraph == {[key |-> "k1", slug |-> "s1", rest |-> "a1"]}
NoGraphs == {}

Symmetry == Permutations(Handlers) \cup Permutations(Workflows)
=============================================================================
