----------------------------- MODULE Executions -----------------------------
(***************************************************************************)
(* The life of a workflow execution: from the request that enqueues a job  *)
(* (lib/queue.ts), through BullMQ's delivery of it to the worker's slots   *)
(* (lib/workers.ts) and executeWorkflowRun (lib/execute.ts), to the run,   *)
(* the dead letter and the audit entry it leaves (lib/data/runs.ts),       *)
(* together with what runs beside it: the retry and test-run endpoints,    *)
(* the pausing, editing and deleting of workflows, slots that crash, locks *)
(* that expire under a live slot, and database calls that throw.           *)
(*                                                                         *)
(* A handler is split where it awaits: one action per database or queue    *)
(* call, since any other actor may run in between.  What runWorkflow does  *)
(* inside one execution is module DagRunner; here it begins and ends.      *)
(***************************************************************************)
EXTENDS Integers, FiniteSets

CONSTANTS
    Ids,            \* execution ids, each the jobId of at most one job
    Workflows,      \* workflow rows of one organization
    Slots,          \* concurrent job slots over all worker processes
    Nobody,         \* "no slot holds the lock", "no id", "no request"
    MaxStalled,     \* BullMQ's maxStalledCount: redeliveries of a stalled job
    MaxMishaps      \* bound: crashes, calls that throw and live locks lost

ASSUME BoundAssumption == MaxStalled \in Nat /\ MaxMishaps \in Nat

Types == {"webhook", "manual", "retry"}
WorkflowStatus == {"active", "paused", "deleted"}   \* a draft is run like a paused one
Outcomes == {"succeeded", "filtered", "failed"}
RunStatus == {"none", "started", "retrying"} \cup Outcomes
JobState == {"absent", "wait", "active", "completed", "failed"}
AuditActions == {"workflow.executed", "run.failed"}

\* Where executeWorkflowRun stands between two awaits.  "complete" and "throw"
\* are the returns to BullMQ, which then moves the job to its final set.
Steps == {"idle", "find", "load", "create", "createInvalid", "run", "running",
          "update", "deadLetter", "audit", "complete", "throw"}

\* What an id stands for: a job's type, its workflow, and the run it retries.
Request == [type : Types, workflow : Workflows, of : Ids \cup {Nobody}]

ASSUME NobodyAssumption == Nobody \notin Ids \cup Slots \cup Request

VARIABLES
    status,       \* the workflow rows: their status, "deleted" once gone
    graphOk,      \* whether the stored graph still passes the schema
    request,      \* what was asked for under each id, Nobody if unused
    retryStep,    \* where the retry handler that issued an id stands
    jobState, lock, stalls,           \* BullMQ's job, its lock and stall count
    pc, held, result,                 \* the slots
    run, deadLetters, audited,        \* the rows an execution leaves
    starts, outcome,                  \* history: pipelines begun, their result
    mishaps                           \* how much of the bound is used

workflowVars == <<status, graphOk>>
requestVars  == <<request, retryStep>>
jobVars      == <<jobState, lock, stalls>>
slotVars     == <<pc, held, result>>
rowVars      == <<run, deadLetters, audited>>
historyVars  == <<starts, outcome>>
vars == <<workflowVars, requestVars, jobVars, slotVars, rowVars, historyVars,
          mishaps>>

Init ==
    /\ status \in [Workflows -> WorkflowStatus \ {"deleted"}]
    /\ graphOk \in [Workflows -> BOOLEAN]
    /\ request = [e \in Ids |-> Nobody]
    /\ retryStep = [e \in Ids |-> "none"]
    /\ jobState = [e \in Ids |-> "absent"]
    /\ lock = [e \in Ids |-> Nobody]
    /\ stalls = [e \in Ids |-> 0]
    /\ pc = [s \in Slots |-> "idle"]
    /\ held = [s \in Slots |-> Nobody]
    /\ result = [s \in Slots |-> "none"]
    /\ run = [e \in Ids |-> "none"]
    /\ deadLetters = [e \in Ids |-> 0]
    /\ audited = [e \in Ids |-> {}]
    /\ starts = [e \in Ids |-> 0]
    /\ outcome = [e \in Ids |-> "none"]
    /\ mishaps = 0

Mishap == mishaps < MaxMishaps /\ mishaps' = mishaps + 1

-----------------------------------------------------------------------------
(***************************************************************************)
(* Producers.  deriveExecutionId gives every request an id of its own; the *)
(* ids of requests that collide are the subject of WebhookIngest.          *)
(***************************************************************************)
Fresh(e) == request[e] = Nobody

\* enqueueWorkflowRun: the job waits under jobId = executionId.
Enqueue(e) == jobState' = [jobState EXCEPT ![e] = "wait"]

\* The webhook route answers "skipped" unless the workflow is active; the
\* test-run route only needs the workflow to exist.
Accept(e, type, w) ==
    /\ Fresh(e)
    /\ type \in {"webhook", "manual"}
    /\ status[w] # "deleted"
    /\ type = "webhook" => status[w] = "active"
    /\ request' = [request EXCEPT
                     ![e] = [type |-> type, workflow |-> w, of |-> Nobody]]
    /\ Enqueue(e)
    /\ UNCHANGED <<retryStep, lock, stalls, workflowVars, slotVars, rowVars,
                   historyVars, mishaps>>

\* Mutant: the retry route marks the run before it enqueues the job.
RetryRead_MarkFirst(e, old) ==
    /\ Fresh(e)
    /\ run[old] # "none"
    /\ request' = [request EXCEPT
                     ![e] = [type |-> "retry",
                             workflow |-> request[old].workflow, of |-> old]]
    /\ retryStep' = [retryStep EXCEPT ![e] = "mark"]
    /\ UNCHANGED <<workflowVars, jobVars, slotVars, rowVars, historyVars,
                   mishaps>>

\* The retry route: getRun, which asks nothing of the run's status ...
RetryRead(e, old) ==
    /\ Fresh(e)
    /\ run[old] # "none"
    /\ request' = [request EXCEPT
                     ![e] = [type |-> "retry",
                             workflow |-> request[old].workflow, of |-> old]]
    /\ retryStep' = [retryStep EXCEPT ![e] = "enqueue"]
    /\ UNCHANGED <<workflowVars, jobVars, slotVars, rowVars, historyVars,
                   mishaps>>

\* ... then the job ...
RetryEnqueue(e) ==
    /\ retryStep[e] = "enqueue"
    /\ Enqueue(e)
    /\ retryStep' = [retryStep EXCEPT ![e] = "mark"]
    /\ UNCHANGED <<request, lock, stalls, workflowVars, slotVars, rowVars,
                   historyVars, mishaps>>

\* Mutant: updateRun as an upsert.
SetRun_Upsert(e, s) == run' = [run EXCEPT ![e] = s]

\* updateRun is an updateMany: it writes the row if the row is still there.
SetRun(e, s) == run' = [run EXCEPT ![e] = IF @ = "none" THEN @ ELSE s]

\* ... and only then the old run's status, whatever it has become.
RetryMark(e) ==
    /\ retryStep[e] = "mark"
    /\ SetRun(request[e].of, "retrying")
    /\ retryStep' = [retryStep EXCEPT ![e] = "done"]
    /\ UNCHANGED <<request, deadLetters, audited, workflowVars, jobVars,
                   slotVars, historyVars, mishaps>>

\* The retry handler's queue or database call throws, or its process dies.
RetryFails(e) ==
    /\ retryStep[e] \in {"enqueue", "mark"}
    /\ Mishap
    /\ retryStep' = [retryStep EXCEPT ![e] = "done"]
    /\ UNCHANGED <<request, workflowVars, jobVars,
                   slotVars, rowVars, historyVars>>
-----------------------------------------------------------------------------
(***************************************************************************)
(* Workflows, seen from an execution: their status, whether their graph    *)
(* parses, and whether the row that runs and dead letters refer to exists. *)
(***************************************************************************)

\* setWorkflowStatus through the toggle route: activating validates the graph.
SetStatus(w, s) ==
    /\ s \in {"active", "paused"} \ {status[w]}
    /\ status[w] # "deleted"
    /\ s = "active" => graphOk[w]
    /\ status' = [status EXCEPT ![w] = s]
    /\ UNCHANGED <<graphOk, requestVars, jobVars, slotVars, rowVars,
                   historyVars, mishaps>>

\* updateWorkflow stores a validated graph and leaves the status alone.
UpdateGraph(w) ==
    /\ status[w] # "deleted"
    /\ ~graphOk[w]
    /\ graphOk' = [graphOk EXCEPT ![w] = TRUE]
    /\ UNCHANGED <<status, requestVars, jobVars, slotVars, rowVars,
                   historyVars, mishaps>>

WorkflowOf(e) == request[e].workflow
Belongs(e, w) == request[e] # Nobody /\ WorkflowOf(e) = w

\* deleteWorkflow: runs and dead letters go with the row (onDelete: Cascade);
\* jobs already queued stay, and audit entries outlive it.
DeleteWorkflow(w) ==
    /\ status[w] # "deleted"
    /\ status' = [status EXCEPT ![w] = "deleted"]
    /\ run' = [e \in Ids |-> IF Belongs(e, w) THEN "none" ELSE run[e]]
    /\ deadLetters' = [e \in Ids |-> IF Belongs(e, w) THEN 0 ELSE deadLetters[e]]
    /\ UNCHANGED <<graphOk, audited, requestVars, jobVars, slotVars,
                   historyVars, mishaps>>
-----------------------------------------------------------------------------
(***************************************************************************)
(* The slots: BullMQ hands a job over, executeWorkflowRun runs.            *)
(***************************************************************************)
Goto(s, step) == pc' = [pc EXCEPT ![s] = step]
Job(s) == held[s]
Deleted(e) == status[WorkflowOf(e)] = "deleted"

\* BullMQ moves the job to active under a lock of this slot.
Take(s, e) ==
    /\ pc[s] = "idle"
    /\ jobState[e] = "wait"
    /\ jobState' = [jobState EXCEPT ![e] = "active"]
    /\ lock' = [lock EXCEPT ![e] = s]
    /\ held' = [held EXCEPT ![s] = e]
    /\ Goto(s, "find")
    /\ UNCHANGED <<stalls, result, workflowVars, requestVars, rowVars,
                   historyVars, mishaps>>

\* findRunByExecutionId: a run that exists was begun by another delivery.
FindRun(s) ==
    /\ pc[s] = "find"
    /\ Goto(s, IF run[Job(s)] # "none" THEN "complete" ELSE "load")
    /\ UNCHANGED <<held, result, workflowVars, requestVars, jobVars, rowVars,
                   historyVars, mishaps>>

\* Mutant: only manual runs pass the status check.
Runnable_ManualOnly(e) == ~Deleted(e) /\ request[e].type = "manual"

Runnable(e) ==
    /\ ~Deleted(e)
    /\ request[e].type = "manual" \/ status[WorkflowOf(e)] = "active"

\* The workflow as it is now decides whether the job is ignored, and its graph
\* which of the two createRun calls comes next.
LoadWorkflow(s) ==
    /\ pc[s] = "load"
    /\ Goto(s, CASE ~Runnable(Job(s)) -> "complete"
                 [] Runnable(Job(s)) /\ graphOk[WorkflowOf(Job(s))] -> "create"
                 [] OTHER -> "createInvalid")
    /\ UNCHANGED <<held, result, workflowVars, requestVars, jobVars, rowVars,
                   historyVars, mishaps>>

\* Mutant: no unique constraint on executionId.
CanCreate_NoUniqueKey(e) == ~Deleted(e)

\* createRun: the foreign key refuses a deleted workflow (a throw), the unique
\* executionId a second run (P2002, null).
CanCreate(e) == ~Deleted(e) /\ run[e] = "none"

\* Mutant: createRun's null (P2002) is not looked at.
CreateRun_RunAnyway(s) ==
    /\ pc[s] = "create"
    /\ run' = IF CanCreate(Job(s)) THEN [run EXCEPT ![Job(s)] = "started"] ELSE run
    /\ Goto(s, IF Deleted(Job(s)) THEN "throw" ELSE "run")
    /\ UNCHANGED <<held, result, deadLetters, audited, workflowVars,
                   requestVars, jobVars, historyVars, mishaps>>

CreateRun(s) ==
    /\ pc[s] = "create"
    /\ IF CanCreate(Job(s))
         THEN /\ run' = [run EXCEPT ![Job(s)] = "started"]
              /\ Goto(s, "run")
         ELSE /\ run' = run
              /\ Goto(s, IF Deleted(Job(s)) THEN "throw" ELSE "complete")
    /\ UNCHANGED <<held, result, deadLetters, audited, workflowVars,
                   requestVars, jobVars, historyVars, mishaps>>

\* An unparsable graph: the run is created failed and goes to the dead letters.
CreateInvalidRun(s) ==
    /\ pc[s] = "createInvalid"
    /\ IF CanCreate(Job(s))
         THEN /\ run' = [run EXCEPT ![Job(s)] = "failed"]
              /\ outcome' = [outcome EXCEPT ![Job(s)] = "failed"]
              /\ result' = [result EXCEPT ![s] = "failed"]
              /\ Goto(s, "deadLetter")
         ELSE /\ UNCHANGED <<run, outcome, result>>
              /\ Goto(s, IF Deleted(Job(s)) THEN "throw" ELSE "complete")
    /\ UNCHANGED <<held, deadLetters, audited, starts, workflowVars,
                   requestVars, jobVars, mishaps>>

\* runWorkflow begins: from here on the outside world may have been told.
BeginPipeline(s) ==
    /\ pc[s] = "run"
    /\ starts' = [starts EXCEPT ![Job(s)] = @ + 1]
    /\ Goto(s, "running")
    /\ UNCHANGED <<held, result, outcome, workflowVars, requestVars, jobVars,
                   rowVars, mishaps>>

\* ... and returns a RunWorkflowResult.
EndPipeline(s, r) ==
    /\ pc[s] = "running"
    /\ r \in Outcomes
    /\ outcome' = [outcome EXCEPT ![Job(s)] = r]
    /\ result' = [result EXCEPT ![s] = r]
    /\ Goto(s, "update")
    /\ UNCHANGED <<held, starts, workflowVars, requestVars, jobVars, rowVars,
                   mishaps>>

\* Mutant: whatever did not fail has succeeded.
UpdateRun_NoFiltered(s) ==
    /\ pc[s] = "update"
    /\ SetRun(Job(s), IF result[s] = "failed" THEN "failed" ELSE "succeeded")
    /\ Goto(s, IF result[s] = "failed" THEN "deadLetter" ELSE "audit")
    /\ UNCHANGED <<held, result, deadLetters, audited, workflowVars,
                   requestVars, jobVars, historyVars, mishaps>>

\* Mutant: a filtered run returns before its update.
UpdateRun_FilteredReturns(s) ==
    /\ pc[s] = "update"
    /\ IF result[s] = "filtered" THEN run' = run ELSE SetRun(Job(s), result[s])
    /\ Goto(s, IF result[s] = "failed" THEN "deadLetter" ELSE "audit")
    /\ UNCHANGED <<held, result, deadLetters, audited, workflowVars,
                   requestVars, jobVars, historyVars, mishaps>>

UpdateRun(s) ==
    /\ pc[s] = "update"
    /\ SetRun(Job(s), result[s])
    /\ Goto(s, IF result[s] = "failed" THEN "deadLetter" ELSE "audit")
    /\ UNCHANGED <<held, result, deadLetters, audited, workflowVars,
                   requestVars, jobVars, historyVars, mishaps>>

\* Mutant: dead letters do not refer to their workflow.
CreateDeadLetter_NoForeignKey(s) ==
    /\ pc[s] = "deadLetter"
    /\ deadLetters' = [deadLetters EXCEPT ![Job(s)] = @ + 1]
    /\ Goto(s, "audit")
    /\ UNCHANGED <<held, result, run, audited, workflowVars, requestVars,
                   jobVars, historyVars, mishaps>>

\* createDeadLetter of recordRunFailure: its workflow must still exist.
CreateDeadLetter(s) ==
    /\ pc[s] = "deadLetter"
    /\ IF Deleted(Job(s))
         THEN deadLetters' = deadLetters /\ Goto(s, "throw")
         ELSE /\ deadLetters' = [deadLetters EXCEPT ![Job(s)] = @ + 1]
              /\ Goto(s, "audit")
    /\ UNCHANGED <<held, result, run, audited, workflowVars, requestVars,
                   jobVars, historyVars, mishaps>>

\* Mutant: the run's status where the audit action belongs.
AuditOf_Status(r) == r

AuditOf(r) == IF r = "failed" THEN "run.failed" ELSE "workflow.executed"

\* Mutant: recordRunFailure falls through to the success entry.
RecordAudit_AlwaysExecuted(s) ==
    /\ pc[s] = "audit"
    /\ audited' = [audited EXCEPT ![Job(s)] = @ \cup {"workflow.executed"}]
    /\ Goto(s, "complete")
    /\ UNCHANGED <<held, result, run, deadLetters, workflowVars, requestVars,
                   jobVars, historyVars, mishaps>>

\* recordAudit swallows its errors: the entry is written or it is not.
RecordAudit(s) ==
    /\ pc[s] = "audit"
    /\ \/ audited' = [audited EXCEPT ![Job(s)] = @ \cup {AuditOf(result[s])}]
       \/ audited' = audited
    /\ Goto(s, "complete")
    /\ UNCHANGED <<held, result, run, deadLetters, workflowVars, requestVars,
                   jobVars, historyVars, mishaps>>

Release(s) ==
    /\ pc' = [pc EXCEPT ![s] = "idle"]
    /\ held' = [held EXCEPT ![s] = Nobody]
    /\ result' = [result EXCEPT ![s] = "none"]

\* BullMQ finishes the job if this slot still owns its lock; attempts is 1, so
\* a thrown error makes it failed at once.
Finish(s) ==
    /\ pc[s] \in {"complete", "throw"}
    /\ IF lock[Job(s)] = s
         THEN /\ jobState' = [jobState EXCEPT ![Job(s)] =
                                IF pc[s] = "throw" THEN "failed" ELSE "completed"]
              /\ lock' = [lock EXCEPT ![Job(s)] = Nobody]
         ELSE UNCHANGED <<jobState, lock>>
    /\ Release(s)
    /\ UNCHANGED <<stalls, workflowVars, requestVars, rowVars, historyVars,
                   mishaps>>
-----------------------------------------------------------------------------
(***************************************************************************)
(* What goes wrong.                                                        *)
(***************************************************************************)

\* A database call or runWorkflow throws: processJob logs and rethrows.
Fault(s) ==
    /\ pc[s] \notin {"idle", "audit", "complete", "throw"}
    /\ Mishap
    /\ Goto(s, "throw")
    /\ UNCHANGED <<held, result, workflowVars,
                   requestVars, jobVars, rowVars, historyVars>>

\* The slot's process dies and comes back empty; the lock stays until it expires.
Crash(s) ==
    /\ pc[s] # "idle"
    /\ Mishap
    /\ Release(s)
    /\ UNCHANGED <<workflowVars, requestVars, jobVars,
                   rowVars, historyVars>>

Working(s, e) == pc[s] # "idle" /\ held[s] = e

\* lockDuration passes without a renewal: the holder is dead ...
DeadLockExpires(e) ==
    /\ lock[e] # Nobody
    /\ ~Working(lock[e], e)
    /\ lock' = [lock EXCEPT ![e] = Nobody]
    /\ UNCHANGED <<jobState, stalls, workflowVars, requestVars, slotVars,
                   rowVars, historyVars, mishaps>>

\* ... or alive and late, with its event loop blocked or Redis out of reach.
LiveLockExpires(e) ==
    /\ lock[e] # Nobody
    /\ Working(lock[e], e)
    /\ Mishap
    /\ lock' = [lock EXCEPT ![e] = Nobody]
    /\ UNCHANGED <<jobState, stalls, workflowVars,
                   requestVars, slotVars, rowVars, historyVars>>

\* Mutant: off by one, and a job that stalled too often is left where it is.
MoveStalled_Forget(e) ==
    /\ jobState[e] = "active"
    /\ lock[e] = Nobody
    /\ stalls[e] + 1 < MaxStalled
    /\ stalls' = [stalls EXCEPT ![e] = @ + 1]
    /\ jobState' = [jobState EXCEPT ![e] = "wait"]
    /\ UNCHANGED <<lock, workflowVars, requestVars, slotVars, rowVars,
                   historyVars, mishaps>>

\* BullMQ's stalled check: back to the waiting list, or failed if too often.
MoveStalled(e) ==
    /\ jobState[e] = "active"
    /\ lock[e] = Nobody
    /\ stalls' = [stalls EXCEPT ![e] = @ + 1]
    /\ jobState' = [jobState EXCEPT ![e] =
                      IF stalls[e] + 1 > MaxStalled THEN "failed" ELSE "wait"]
    /\ UNCHANGED <<lock, workflowVars, requestVars, slotVars, rowVars,
                   historyVars, mishaps>>
-----------------------------------------------------------------------------
RequestStep(e) ==
    \/ \E type \in Types, w \in Workflows : Accept(e, type, w)
    \/ \E old \in Ids : RetryRead(e, old)
    \/ RetryEnqueue(e) \/ RetryMark(e) \/ RetryFails(e)

WorkflowStep(w) ==
    \/ \E s \in WorkflowStatus : SetStatus(w, s)
    \/ UpdateGraph(w) \/ DeleteWorkflow(w)

\* What a slot does once it holds a job.
SlotStep(s) ==
    \/ FindRun(s) \/ LoadWorkflow(s) \/ CreateRun(s) \/ CreateInvalidRun(s)
    \/ BeginPipeline(s) \/ \E r \in Outcomes : EndPipeline(s, r)
    \/ UpdateRun(s) \/ CreateDeadLetter(s) \/ RecordAudit(s) \/ Finish(s)

LockStep(e) == DeadLockExpires(e) \/ LiveLockExpires(e) \/ MoveStalled(e)

Next ==
    \/ \E e \in Ids : RequestStep(e) \/ LockStep(e)
    \/ \E w \in Workflows : WorkflowStep(w)
    \/ \E s \in Slots, e \in Ids : Take(s, e)
    \/ \E s \in Slots : SlotStep(s) \/ Fault(s) \/ Crash(s)

Spec == Init /\ [][Next]_vars

\* The worker's event loop runs, BullMQ hands out what waits and its stalled
\* check is periodic.  Nothing obliges a user to act or a fault to happen.
Fairness ==
    /\ \A s \in Slots : WF_vars(SlotStep(s))
    /\ \A e \in Ids : /\ WF_vars(\E s \in Slots : Take(s, e))
                      /\ WF_vars(DeadLockExpires(e))
                      /\ WF_vars(MoveStalled(e))

FairSpec == Spec /\ Fairness
-----------------------------------------------------------------------------
\* The state's types: one invariant for all of it.
TypeOK ==
    /\ status \in [Workflows -> WorkflowStatus]
    /\ graphOk \in [Workflows -> BOOLEAN]
    /\ request \in [Ids -> Request \cup {Nobody}]
    /\ retryStep \in [Ids -> {"none", "enqueue", "mark", "done"}]
    /\ jobState \in [Ids -> JobState]
    /\ lock \in [Ids -> Slots \cup {Nobody}]
    /\ stalls \in [Ids -> Nat]
    /\ pc \in [Slots -> Steps]
    /\ held \in [Slots -> Ids \cup {Nobody}]
    /\ result \in [Slots -> Outcomes \cup {"none"}]
    /\ run \in [Ids -> RunStatus]
    /\ deadLetters \in [Ids -> Nat]
    /\ audited \in [Ids -> SUBSET AuditActions]
    /\ starts \in [Ids -> Nat]
    /\ outcome \in [Ids -> Outcomes \cup {"none"}]
    /\ mishaps \in Nat

\* "Replayed deliveries are safe" (execute.ts:21): however often BullMQ delivers
\* a job, after crashes and to two live slots at once, and though deleting the
\* workflow erases the run row that guards it, its pipeline begins at most once.
AtMostOnce == \A e \in Ids : starts[e] <= 1

\* A run that shows a final status shows the one its own pipeline returned,
\* whatever retry marks, other deliveries and late updates wrote around it.
ReportsOutcome == \A e \in Ids : run[e] \in Outcomes => run[e] = outcome[e]

\* A dead letter stands for a failed execution whose run says so (or is marked
\* for retry), and no execution leaves two, though the run's status, the dead
\* letter and the workflow's deletion are separate transactions.
DeadLettersSound ==
    \A e \in Ids : /\ deadLetters[e] <= 1
                   /\ deadLetters[e] = 1 => /\ outcome[e] = "failed"
                                            /\ run[e] \in {"failed", "retrying"}

\* The audit trail never tells two stories of one execution, nor another story
\* than the pipeline's.
AuditSound ==
    \A e \in Ids : \A a \in audited[e] :
        outcome[e] # "none" /\ a = AuditOf(outcome[e])

\* A run shown as "retrying" has a retry that was really queued: the retry route
\* enqueues before it marks, and survives a throw or a crash in between.
RetryingIsQueued ==
    \A e \in Ids : run[e] = "retrying" =>
        \E new \in Ids : /\ request[new] # Nobody
                         /\ request[new].of = e
                         /\ jobState[new] # "absent"

\* execute.ts:117-147: the ending of e will not be written.  Its run still says that
\* it was started, or failed without a dead letter, and no slot is about to go on.
Lost(e) ==
    \/ run[e] = "started" /\ \A s \in Slots :
           held[s] = e => pc[s] \notin {"run", "running", "update"}
    \/ run[e] = "failed" /\ deadLetters[e] = 0 /\ \A s \in Slots :
           held[s] = e => pc[s] # "deadLetter"

\* Every ending that is lost has cost a mishap of its own: none takes two executions
\* with it, and redelivery, retry marks, edits and deletions take none by themselves.
LossesHaveCause == Cardinality({e \in Ids : Lost(e)}) <= mishaps

\* A step never takes back what a run has reported: a final status only gives
\* way to "retrying", and a run that was erased is not created again.
ReportsStand ==
    [][\A e \in Ids :
          /\ run[e] \in Outcomes => run'[e] \in {run[e], "retrying", "none"}
          /\ run[e] = "none" /\ starts[e] > 0 => run'[e] = "none"]_vars

\* What all of this promises a user of the API, as a specification.
Ledger == INSTANCE ExecutionLedger WITH
              requested <- {e \in Ids : jobState[e] # "absent"},
              performed <- starts,
              verdict   <- outcome,
              report    <- run
LedgerSpec == Ledger!Spec

\* BullMQ settles every job, through crashes, faults and lost locks.
JobsSettle ==
    \A e \in Ids : jobState[e] = "wait" ~> jobState[e] \in {"completed", "failed"}

\* A job is run, unless its workflow leaves "active", until something crashes,
\* throws or loses a lock.
AcceptedRuns ==
    \A e \in Ids : jobState[e] = "wait" ~>
        \/ run[e] # "none"
        \/ \E w \in Workflows : Belongs(e, w) /\ status[w] # "active"
        \/ mishaps > 0
=============================================================================
