-------------------------- MODULE ExecutionLedger --------------------------
(***************************************************************************)
(* What RelayFlow promises about the executions it accepts, with no queue, *)
(* worker or retry in sight: an execution that was requested is performed  *)
(* at most once, has one verdict, and reports that verdict or none.        *)
(* Module Executions implements it.                                        *)
(***************************************************************************)
EXTENDS Integers

CONSTANT Ids

VARIABLES
    requested,    \* the ids handed to the queue
    performed,    \* how often each one's pipeline was begun
    verdict,      \* the result of each one, "none" until it is known
    report        \* what the run page shows, "none" if there is no run

vars == <<requested, performed, verdict, report>>

Verdicts == {"succeeded", "filtered", "failed"}

Init ==
    /\ requested = {}
    /\ performed = [e \in Ids |-> 0]
    /\ verdict = [e \in Ids |-> "none"]
    /\ report = [e \in Ids |-> "none"]

Untouched(e) == report[e] = "none" /\ performed[e] = 0 /\ verdict[e] = "none"

Ask(e) ==
    /\ e \notin requested
    /\ requested' = requested \cup {e}
    /\ UNCHANGED <<performed, verdict, report>>

Open(e) ==
    /\ e \in requested /\ Untouched(e)
    /\ report' = [report EXCEPT ![e] = "started"]
    /\ UNCHANGED <<requested, performed, verdict>>

\* An execution whose graph does not parse fails without being performed.
Refuse(e) ==
    /\ e \in requested /\ Untouched(e)
    /\ report' = [report EXCEPT ![e] = "failed"]
    /\ verdict' = [verdict EXCEPT ![e] = "failed"]
    /\ UNCHANGED <<requested, performed>>

Perform(e) ==
    /\ e \in requested
    /\ performed[e] = 0 /\ verdict[e] = "none"
    /\ performed' = [performed EXCEPT ![e] = 1]
    /\ UNCHANGED <<requested, verdict, report>>

Conclude(e, r) ==
    /\ performed[e] = 1 /\ verdict[e] = "none"
    /\ verdict' = [verdict EXCEPT ![e] = r]
    /\ UNCHANGED <<requested, performed, report>>

Publish(e) ==
    /\ report[e] # "none" /\ verdict[e] # "none"
    /\ report' = [report EXCEPT ![e] = verdict[e]]
    /\ UNCHANGED <<requested, performed, verdict>>

\* Another execution was asked for in this one's place.
Supersede(e) ==
    /\ report[e] # "none"
    /\ report' = [report EXCEPT ![e] = "retrying"]
    /\ UNCHANGED <<requested, performed, verdict>>

\* Deleting a workflow forgets its runs, not that they were performed.
Erase(S) ==
    /\ report' = [e \in Ids |-> IF e \in S THEN "none" ELSE report[e]]
    /\ UNCHANGED <<requested, performed, verdict>>

Next ==
    \/ \E e \in Ids : \/ Ask(e) \/ Open(e) \/ Refuse(e) \/ Perform(e)
                      \/ \E r \in Verdicts : Conclude(e, r)
                      \/ Publish(e) \/ Supersede(e)
    \/ \E S \in SUBSET Ids : Erase(S)

Spec == Init /\ [][Next]_vars
=============================================================================
