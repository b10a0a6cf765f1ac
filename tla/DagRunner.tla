----------------------------- MODULE DagRunner -----------------------------
(***************************************************************************)
(* One execution of a workflow graph: executeWorkflowRun's check of the    *)
(* stored graph, runWorkflow's walk along topoSort's order with filters,   *)
(* transforms and actions, executeActionWithRetry's attempts               *)
(* (lib/dag/runner.ts), and the dead letter made of the result             *)
(* (lib/execute.ts).  Whether a filter passes, and what the outside world  *)
(* answers to an attempt, is not determined here.                          *)
(***************************************************************************)
EXTENDS GraphSchema

CONSTANTS
    StoredGraphs,         \* the stored graphs to run: what zod's node and edge schemas let in
    MaxAttempts     \* MAX_STEP_ATTEMPTS

ASSUME AttemptsAssumption == MaxAttempts \in Nat \ {0}
ASSUME GraphAssumption == \A g \in StoredGraphs : IsGraph(g)

\* What safeParseWorkflowGraph lets through.
Accepted == {g \in StoredGraphs : ValidGraph(g)}

Answers == {"ok", "retryable", "permanent"}
StepStatus == {"succeeded", "failed", "skipped"}

VARIABLES
    graph,
    phase,        \* "parse", "walk", "settle" and "done", or "thrown"
    order,        \* sorted: the nodes in topoSort's order
    next,         \* the position of the loop in order
    attempt,      \* the attempt that is made next, of the action at next
    broken,       \* pipelineBroken
    status,       \* the run's status; "invalid" if the graph did not parse
    outputs,      \* context.vars: the keys that have an output
    steps,        \* the step records emitted so far
    deadLetter,   \* the dead letter written, as a set of at most one
    sent          \* history: each attempt, what it saw and what was answered

vars == <<graph, phase, order, next, attempt, broken, status, outputs, steps,
          deadLetter, sent>>

Init ==
    /\ graph \in StoredGraphs
    /\ phase = "parse"
    /\ order = <<>>
    /\ next = 1
    /\ attempt = 1
    /\ broken = FALSE
    /\ status = "succeeded"
    /\ outputs = {}
    /\ steps = <<>>
    /\ deadLetter = {}
    /\ sent = <<>>

-----------------------------------------------------------------------------
Parse ==
    /\ phase = "parse"
    /\ IF graph \in Accepted
         THEN phase' = "walk" /\ order' = TopoSort(graph) /\ status' = status
         ELSE phase' = "settle" /\ order' = order /\ status' = "invalid"
    /\ UNCHANGED <<graph, next, attempt, broken, outputs, steps, deadLetter, sent>>

Node == order[next]
AtNode == phase = "walk" /\ next <= Len(order)

\* makeStepRecord and emitStep, after which the loop goes on to the next node.
Emit(stepStatus, n) ==
    /\ steps' = Append(steps, [key |-> Node.key, status |-> stepStatus, attempt |-> n])
    /\ next' = next + 1
    /\ attempt' = 1

\* Mutant: the flag that stops the pipeline is forgotten.
Break_Forgotten(s) == status' = s /\ UNCHANGED broken

Break(s) == status' = s /\ broken' = TRUE

Skip ==
    /\ AtNode /\ broken
    /\ Emit("skipped", 1)
    /\ UNCHANGED <<graph, phase, order, broken, status, outputs, deadLetter, sent>>

Trigger ==
    /\ AtNode /\ ~broken
    /\ Node.type = "trigger"
    /\ Emit("succeeded", 1)
    /\ UNCHANGED <<graph, phase, order, broken, status, outputs, deadLetter, sent>>

\* Mutant: a filter that does not match is only recorded as failed.
Filter_GoesOn(passed) ==
    /\ AtNode /\ ~broken
    /\ Node.type = "filter"
    /\ Emit(IF passed THEN "succeeded" ELSE "failed", 1)
    /\ UNCHANGED <<graph, phase, order, broken, status, outputs, deadLetter, sent>>

Filter(passed) ==
    /\ AtNode /\ ~broken
    /\ Node.type = "filter"
    /\ \/ passed /\ Emit("succeeded", 1) /\ UNCHANGED <<broken, status>>
       \/ ~passed /\ Emit("failed", 1) /\ Break("filtered")
    /\ UNCHANGED <<graph, phase, order, outputs, deadLetter, sent>>

Transform ==
    /\ AtNode /\ ~broken
    /\ Node.type = "transform"
    /\ outputs' = outputs \cup {Node.key}
    /\ Emit("succeeded", 1)
    /\ UNCHANGED <<graph, phase, order, broken, status, deadLetter, sent>>

\* A filter or a transform has a path that is none: runWorkflow throws, and its
\* caller with it, so that nothing is returned and nothing is settled.
Throw ==
    /\ AtNode /\ ~broken
    /\ Node.type \in {"filter", "transform"}
    /\ phase' = "thrown"
    /\ UNCHANGED <<graph, order, next, attempt, broken, status, outputs, steps,
                   deadLetter, sent>>

\* Mutant: one attempt too many.
IsLast_OffByOne(n) == n > MaxAttempts

IsLast(n) == n >= MaxAttempts

\* Mutant: an action that failed for good is tried again like any other.
GivesUp_NeverPermanent(n, answer) == IsLast(n) /\ answer # "ok"

GivesUp(n, answer) == answer = "permanent" \/ (answer = "retryable" /\ IsLast(n))

\* One attempt of executeActionWithRetry: dispatch, and what its answer leads
\* to.  A failed action's output is set too, to undefined, which no path finds.
Dispatch(answer) ==
    /\ AtNode /\ ~broken
    /\ Node.type = "action"
    /\ sent' = Append(sent, [key |-> Node.key, attempt |-> attempt,
                             saw |-> outputs, answer |-> answer])
    /\ \/ /\ answer = "ok"
          /\ outputs' = outputs \cup {Node.key}
          /\ Emit("succeeded", attempt)
          /\ UNCHANGED <<broken, status>>
       \/ /\ GivesUp(attempt, answer)
          /\ Emit("failed", attempt)
          /\ Break("failed")
          /\ UNCHANGED outputs
       \/ /\ answer # "ok" /\ ~GivesUp(attempt, answer)
          /\ attempt' = attempt + 1
          /\ UNCHANGED <<next, broken, status, outputs, steps>>
    /\ UNCHANGED <<graph, phase, order, deadLetter>>

Return ==
    /\ phase = "walk" /\ next > Len(order)
    /\ phase' = "settle"
    /\ UNCHANGED <<graph, order, next, attempt, broken, status, outputs, steps,
                   deadLetter, sent>>

\* recordRunFailure: of a graph that does not parse, or of the LAST step record.
DeadLetterOf ==
    CASE status = "invalid" -> {[attempts |-> 0, error |-> "graph"]}
      [] status = "failed" ->
            {[attempts |-> Last(steps).attempt,
              error    |-> IF Last(steps).status = "failed" THEN "step" ELSE "none"]}
      [] OTHER -> {}

\* Mutant: a filtered run is never settled.
Settle_NotFiltered ==
    /\ phase = "settle"
    /\ phase' = IF status = "filtered" THEN phase ELSE "done"
    /\ deadLetter' = DeadLetterOf
    /\ UNCHANGED <<graph, order, next, attempt, broken, status, outputs, steps, sent>>

Settle ==
    /\ phase = "settle"
    /\ phase' = "done"
    /\ deadLetter' = DeadLetterOf
    /\ UNCHANGED <<graph, order, next, attempt, broken, status, outputs, steps, sent>>

Walk ==
    \/ Skip \/ Trigger \/ Transform \/ Throw \/ Return \/ Settle
    \/ \E passed \in BOOLEAN : Filter(passed)
    \/ \E answer \in Answers : Dispatch(answer)

\* An execution that is over stays as it is.
Over == phase \in {"done", "thrown"} /\ UNCHANGED vars

Next == Parse \/ Walk \/ Over

Spec == Init /\ [][Next]_vars

\* Every await of the walk ends: dispatchers abort their requests after a while,
\* and backoff sleeps are timers.
FairSpec == Spec /\ WF_vars(Walk)
-----------------------------------------------------------------------------
SucceededKeys == {steps[i].key : i \in {j \in DOMAIN steps : steps[j].status = "succeeded"}}

TypeOK ==
    /\ graph \in StoredGraphs
    /\ phase \in {"parse", "walk", "settle", "done", "thrown"}
    /\ Len(order) <= Len(graph.nodes) /\ ToSet(order) \subseteq ToSet(graph.nodes)
    /\ next \in 1 .. Len(order) + 1
    /\ attempt \in 1 .. MaxAttempts
    /\ broken \in BOOLEAN
    /\ status \in {"succeeded", "filtered", "failed", "invalid"}
    /\ outputs \subseteq KeysOf(graph)
    /\ Len(steps) = next - 1
    /\ \A i \in DOMAIN steps :
          steps[i] \in [key : KeysOf(graph), status : StepStatus, attempt : 1 .. MaxAttempts]
    /\ Cardinality(deadLetter) <= 1
    /\ \A i \in DOMAIN sent :
          sent[i] \in [key : KeysOf(graph), attempt : 1 .. MaxAttempts,
                       saw : SUBSET KeysOf(graph), answer : Answers]

\* schema.ts:6-13: a workflow is a directed acyclic graph and "a malformed graph
\* can never reach the runner".
AcceptedIsDag == phase = "walk" => RootedDag(graph)

\* No request leaves before everything upstream of its action has succeeded, and
\* it is made with the output of every transform and action upstream, although
\* the order of the walk comes from the order edges and nodes were stored in.
SeesUpstream ==
    \A i \in DOMAIN sent :
        LET upstream == Upstream(graph, sent[i].key)
        IN  /\ upstream \subseteq SucceededKeys
            /\ {k \in upstream : NodeAt(graph, k).type \in {"transform", "action"}}
                   \subseteq sent[i].saw

\* The outside world is asked again only about the action it was just asked
\* about, only after a retryable answer and at most MaxAttempts times, and the
\* step record shows the last attempt and its answer.
RetryPolicy ==
    \A i \in DOMAIN sent :
        LET before == {h \in DOMAIN sent : h < i /\ sent[h].key = sent[i].key}
            after  == {h \in DOMAIN sent : h > i /\ sent[h].key = sent[i].key}
        IN  /\ sent[i].attempt <= MaxAttempts
            /\ sent[i].attempt = 1 <=> before = {}
            /\ before # {} =>
                  /\ i - 1 \in before
                  /\ sent[i].attempt = sent[i - 1].attempt + 1
                  /\ sent[i - 1].answer = "retryable"
            /\ after = {} =>
                  \A j \in DOMAIN steps :
                     steps[j].key = sent[i].key =>
                        /\ steps[j].attempt = sent[i].attempt
                        /\ steps[j].status = "succeeded" <=> sent[i].answer = "ok"

\* The status of the result is the story its step records tell: each node has
\* one, nothing succeeds after what failed, and that is a filter in a filtered
\* run and an action in a failed one.  Only that leaves a dead letter, which has
\* the error and the attempts of the action if nothing comes after it.
StatusTellsSteps ==
    phase = "done" /\ status # "invalid" =>
        LET failed == {i \in DOMAIN steps : steps[i].status = "failed"}
            kind == CASE status = "filtered" -> {"filter"}
                      [] status = "failed"   -> {"action"}
                      [] OTHER               -> {}
        IN  /\ Len(steps) = Len(graph.nodes)
            /\ {NodeAt(graph, steps[i].key).type : i \in failed} = kind
            /\ Cardinality(failed) <= 1
            /\ \A i \in failed, j \in DOMAIN steps :
                  steps[j].status = "skipped" <=> j > i
            /\ deadLetter # {} <=> status = "failed"
            /\ \A d \in deadLetter, i \in failed :
                  i = Len(steps) => d.error = "step" /\ d.attempts = steps[i].attempt

\* The walk implements the abstract pipeline, which refuses exactly the graphs that
\* are no rooted DAGs (schema.ts:6), whatever the order of their nodes and edges,
\* as long as keys are unique: validateGraph counts visited nodes, edges and keys
\* and never looks for a cycle.
Promise == INSTANCE Pipeline WITH
               done    <- SucceededKeys,
               verdict <- CASE phase \in {"parse", "walk", "thrown"} /\ ~broken -> "open"
                            [] status = "invalid"                               -> "refused"
                            [] OTHER                                            -> status
PipelineSpec == Promise!Spec

\* An execution that has passed the schema comes to its end, and settles unless it
\* throws.
Terminates == phase = "walk" ~> phase \in {"done", "thrown"}
=============================================================================
