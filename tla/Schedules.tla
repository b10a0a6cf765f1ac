----------------------------- MODULE Schedules -----------------------------
(***************************************************************************)
(* Cron schedules: the workflow rows that want them, the toggle endpoint,  *)
(* the reconciler's ticks (lib/scheduler.ts, scripts/scheduler.ts), the    *)
(* set of BullMQ job schedulers they all write, and the worker's handling  *)
(* of a job such a scheduler yields (lib/workers.ts).                      *)
(*                                                                         *)
(* Requests and ticks read the database, and write the scheduler set one   *)
(* call at a time afterwards; nothing orders them, and a tick may begin    *)
(* before the last one is over.                                            *)
(***************************************************************************)
EXTENDS Integers, FiniteSets, Sequences

CONSTANTS
    Org,            \* the organization
    Workflows,      \* its workflows
    Triggers,       \* schedule triggers a graph may have: [key, cron]
    None,           \* a graph without one, or a scheduler that does not exist
    Toggles,        \* concurrent toggle requests
    Ticks,          \* concurrent reconciler ticks
    MaxChanges,     \* bound on what users do
    MaxMishaps      \* bound on calls that throw

ASSUME NoneAssumption == None \notin Triggers /\ \A t \in Triggers : t.cron # None
ASSUME ActorAssumption == Toggles \cap Ticks = {}
ASSUME BoundAssumption == MaxChanges \in Nat /\ MaxMishaps \in Nat

Keys == {t.key : t \in Triggers}
Crons == {t.cron : t \in Triggers}

\* scheduleIdFor: "scr:<org>:<workflow>:<key>", as the parts between the colons.
ScheduleIdFor(w, k) == <<"scr", Org, w, k>>
ScheduleIds == {ScheduleIdFor(w, k) : w \in Workflows, k \in Keys}
WorkflowOf(id) == id[3]

\* parseScheduleId: the prefix, then exactly three parts.
ParseScheduleId(parts) ==
    IF Len(parts) = 4 /\ parts[1] = "scr"
      THEN [organizationId |-> parts[2], workflowId |-> parts[3], triggerKey |-> parts[4]]
      ELSE None

VARIABLES
    status,       \* the workflow rows' status
    trigger,      \* the schedule trigger of the stored graph, or None
    schedulers,   \* BullMQ's job schedulers: the cron of each id, or None
    pc,           \* where each toggle and each tick stands
    target,       \* the workflow a toggle is about
    read,         \* what each has read: the trigger wanted by each workflow
    todo,         \* the scheduler ids it has still to write
    outdated,     \* history: the workflows that others changed since it read
    queue,        \* the scheduled jobs that wait for a worker, by id
    executed,     \* history: the workflows a scheduled job has executed
    changes, mishaps

rowVars == <<status, trigger>>
actorVars == <<pc, target, read, todo, outdated>>
jobVars == <<queue, executed>>
vars == <<rowVars, schedulers, actorVars, jobVars, changes, mishaps>>

Actors == Toggles \cup Ticks
NothingRead == [w \in Workflows |-> None]

Init ==
    /\ status \in [Workflows -> {"active", "paused"}]
    /\ trigger \in [Workflows -> Triggers \cup {None}]
    /\ schedulers = [id \in ScheduleIds |-> None]
    /\ pc = [a \in Actors |-> "idle"]
    /\ target = [u \in Toggles |-> None]
    /\ read = [a \in Actors |-> NothingRead]
    /\ todo = [a \in Actors |-> {}]
    /\ outdated = [a \in Actors |-> {}]
    /\ queue = {}
    /\ executed = {}
    /\ changes = 0
    /\ mishaps = 0

Change == changes < MaxChanges /\ changes' = changes + 1
Mishap == mishaps < MaxMishaps /\ mishaps' = mishaps + 1

\* A row changes under the hands of every other actor that has read it.
Disturb(w, actors) ==
    outdated' = [a \in Actors |->
                   IF a \in actors /\ pc[a] # "idle" THEN outdated[a] \cup {w} ELSE outdated[a]]

\* Mutant: whatever the status.
WantedBy_AnyStatus(w) == IF status[w] # "deleted" THEN trigger[w] ELSE None

\* The schedule an active workflow asks for.
WantedBy(w) == IF status[w] = "active" THEN trigger[w] ELSE None

\* The scheduler ids that a reading of the database asks for, with their cron.
DesiredOf(wanted) ==
    {ScheduleIdFor(w, wanted[w].key) : w \in {v \in Workflows : wanted[v] # None}}

\* Mutant: the trigger's key where its cron belongs.
CronOf_Key(wanted, id) == wanted[WorkflowOf(id)].key

CronOf(wanted, id) == wanted[WorkflowOf(id)].cron

Leave(a) ==
    /\ pc' = [pc EXCEPT ![a] = "idle"]
    /\ read' = [read EXCEPT ![a] = NothingRead]
    /\ todo' = [todo EXCEPT ![a] = {}]

-----------------------------------------------------------------------------
(***************************************************************************)
(* Users: save a graph, delete a workflow, toggle one.                     *)
(***************************************************************************)
\* updateWorkflow writes no scheduler.
UpdateWorkflow(w, t) ==
    /\ status[w] # "deleted"
    /\ t # trigger[w]
    /\ Change
    /\ trigger' = [trigger EXCEPT ![w] = t]
    /\ Disturb(w, Actors)
    /\ UNCHANGED <<status, schedulers, pc, target, read, todo, jobVars, mishaps>>

\* Nor does deleteWorkflow.
DeleteWorkflow(w) ==
    /\ status[w] # "deleted"
    /\ Change
    /\ status' = [status EXCEPT ![w] = "deleted"]
    /\ Disturb(w, Actors)
    /\ UNCHANGED <<trigger, schedulers, pc, target, read, todo, jobVars, mishaps>>

\* The toggle route: getWorkflow, ...
ToggleRead(u, w, s) ==
    /\ pc[u] = "idle"
    /\ status[w] # "deleted"
    /\ Change
    /\ pc' = [pc EXCEPT ![u] = s]
    /\ read' = [read EXCEPT ![u] = [NothingRead EXCEPT ![w] = trigger[w]]]
    /\ target' = [target EXCEPT ![u] = w]
    /\ outdated' = [outdated EXCEPT ![u] = {}]
    /\ UNCHANGED <<rowVars, schedulers, todo, jobVars, mishaps>>

\* ... setWorkflowStatus, which throws if the row has gone, ...
ToggleSet(u) ==
    /\ pc[u] \in {"active", "paused"}
    /\ LET w == target[u]
       IN  IF status[w] = "deleted"
             THEN Leave(u) /\ UNCHANGED <<status, outdated>>
             ELSE /\ status' = [status EXCEPT ![w] = pc[u]]
                  /\ IF status[w] = pc[u]
                       THEN outdated' = outdated
                       ELSE Disturb(w, Actors \ {u})
                  /\ IF pc[u] = "active"
                       THEN /\ pc' = [pc EXCEPT ![u] = "upsert"]
                            /\ todo' = [todo EXCEPT ![u] = DesiredOf(read[u])]
                            /\ UNCHANGED read
                       ELSE Leave(u)
    /\ UNCHANGED <<trigger, target, schedulers, jobVars, changes, mishaps>>

\* ... then, when activating, reconfigureWorkflowSchedule with the graph that was
\* read first.  No scheduler is removed, by this or by a pause.
ToggleUpsert(u) ==
    /\ pc[u] = "upsert"
    /\ schedulers' = [id \in ScheduleIds |->
                        IF id \in todo[u] THEN CronOf(read[u], id) ELSE schedulers[id]]
    /\ Leave(u)
    /\ UNCHANGED <<rowVars, target, outdated, jobVars, changes, mishaps>>

\* Its errors are logged and forgotten, or the request dies before it.
ToggleFails(u) ==
    /\ pc[u] # "idle"
    /\ Mishap
    /\ Leave(u)
    /\ UNCHANGED <<rowVars, schedulers, target, outdated, jobVars, changes>>
-----------------------------------------------------------------------------
(***************************************************************************)
(* The reconciler.                                                         *)
(***************************************************************************)
TickRead(t) ==
    /\ pc[t] = "idle"
    /\ pc' = [pc EXCEPT ![t] = "upsert"]
    /\ read' = [read EXCEPT ![t] = [w \in Workflows |-> WantedBy(w)]]
    /\ todo' = [todo EXCEPT ![t] = DesiredOf(read'[t])]
    /\ outdated' = [outdated EXCEPT ![t] = {}]
    /\ UNCHANGED <<rowVars, schedulers, target, jobVars, changes, mishaps>>

TickUpsert(t, id) ==
    /\ pc[t] = "upsert"
    /\ id \in todo[t]
    /\ schedulers' = [schedulers EXCEPT ![id] = CronOf(read[t], id)]
    /\ todo' = [todo EXCEPT ![t] = @ \ {id}]
    /\ UNCHANGED <<rowVars, pc, target, read, outdated, jobVars, changes, mishaps>>

Existing == {id \in ScheduleIds : schedulers[id] # None}

\* Mutant: only schedulers of workflows that want none are stale.
Stale_PerWorkflow(wanted) == {id \in Existing : wanted[WorkflowOf(id)] = None}

Stale(wanted) == Existing \ DesiredOf(wanted)

\* getJobSchedulers, after the last upsert.
TickList(t) ==
    /\ pc[t] = "upsert"
    /\ todo[t] = {}
    /\ pc' = [pc EXCEPT ![t] = "remove"]
    /\ todo' = [todo EXCEPT ![t] = Stale(read[t])]
    /\ UNCHANGED <<rowVars, schedulers, target, read, outdated, jobVars, changes, mishaps>>

\* The removals are sent together and arrive one by one.
TickRemove(t, id) ==
    /\ pc[t] = "remove"
    /\ id \in todo[t]
    /\ schedulers' = [schedulers EXCEPT ![id] = None]
    /\ todo' = [todo EXCEPT ![t] = @ \ {id}]
    /\ UNCHANGED <<rowVars, pc, target, read, outdated, jobVars, changes, mishaps>>

TickEnd(t) ==
    /\ pc[t] = "remove"
    /\ todo[t] = {}
    /\ Leave(t)
    /\ UNCHANGED <<rowVars, schedulers, target, outdated, jobVars, changes, mishaps>>

\* A call throws and tick logs it, or the process dies and is restarted.
TickFails(t) ==
    /\ pc[t] # "idle"
    /\ Mishap
    /\ Leave(t)
    /\ UNCHANGED <<rowVars, schedulers, target, outdated, jobVars, changes>>
-----------------------------------------------------------------------------
(***************************************************************************)
(* Firing.  A scheduler has one job at a time, whose data name the         *)
(* organization, the workflow and the trigger.                             *)
(***************************************************************************)
Fire(id) ==
    /\ schedulers[id] # None
    /\ id \notin queue
    /\ queue' = queue \cup {id}
    /\ UNCHANGED <<rowVars, schedulers, actorVars, executed, changes, mishaps>>

\* processJob: the data are there, so it is "<org>:<workflow>:<key>" that is
\* parsed; executeWorkflowRun ignores a workflow that is not active.
ProcessJob(id) ==
    /\ id \in queue
    /\ queue' = queue \ {id}
    /\ LET parsed == ParseScheduleId(<<Org, id[3], id[4]>>)
       IN  executed' = IF parsed # None /\ status[WorkflowOf(id)] = "active"
                         THEN executed \cup {WorkflowOf(id)}
                         ELSE executed
    /\ UNCHANGED <<rowVars, schedulers, actorVars, changes, mishaps>>
-----------------------------------------------------------------------------
UserStep ==
    \E w \in Workflows :
        \/ \E t \in Triggers \cup {None} : UpdateWorkflow(w, t)
        \/ DeleteWorkflow(w)
        \/ \E u \in Toggles, s \in {"active", "paused"} : ToggleRead(u, w, s)

ToggleStep(u) == ToggleSet(u) \/ ToggleUpsert(u)

TickStep(t) ==
    \/ TickRead(t) \/ TickList(t) \/ TickEnd(t)
    \/ \E id \in ScheduleIds : TickUpsert(t, id) \/ TickRemove(t, id)

Next ==
    \/ UserStep
    \/ \E u \in Toggles : ToggleStep(u) \/ ToggleFails(u)
    \/ \E t \in Ticks : TickStep(t) \/ TickFails(t)
    \/ \E id \in ScheduleIds : Fire(id) \/ ProcessJob(id)

Spec == Init /\ [][Next]_vars

\* The interval timer keeps ticking, awaits end, cron times come and the worker
\* takes what waits.  Users need do nothing.
FairSpec ==
    /\ Spec
    /\ \A u \in Toggles : WF_vars(ToggleStep(u))
    /\ \A t \in Ticks : WF_vars(TickStep(t))
    /\ \A id \in ScheduleIds : WF_vars(Fire(id)) /\ WF_vars(ProcessJob(id))
-----------------------------------------------------------------------------
TypeOK ==
    /\ status \in [Workflows -> {"active", "paused", "deleted"}]
    /\ trigger \in [Workflows -> Triggers \cup {None}]
    /\ schedulers \in [ScheduleIds -> Crons \cup {None}]
    /\ pc \in [Actors -> {"idle", "active", "paused", "upsert", "remove"}]
    /\ read \in [Actors -> [Workflows -> Triggers \cup {None}]]
    /\ target \in [Toggles -> Workflows \cup {None}]
    /\ todo \in [Actors -> SUBSET ScheduleIds]
    /\ outdated \in [Actors -> SUBSET Workflows]
    /\ queue \subseteq ScheduleIds
    /\ executed \subseteq Workflows
    /\ changes \in 0 .. MaxChanges /\ mishaps \in 0 .. MaxMishaps

Scheduled(w) == status[w] = "active" /\ trigger[w] # None

\* The cron an id should have, None if it should not be there.
Due(id) ==
    LET w == WorkflowOf(id)
    IN  IF Scheduled(w) /\ id = <<"scr", Org, w, trigger[w].key>> THEN trigger[w].cron ELSE None

\* The scheduler set drifts from the rows only through the hands of an actor who
\* read a row that another has changed since: the schedule of a workflow left
\* alone is neither dropped nor given another cron by overlapping ticks, by
\* toggles, or by any of them failing half way.
DriftHasCause ==
    [][\A id \in ScheduleIds :
          schedulers[id] = Due(id) /\ schedulers'[id] # schedulers[id] =>
             \E a \in Actors : pc[a] # "idle" /\ WorkflowOf(id) \in outdated[a]]_vars

\* scheduler.ts:150-154: once users and failures let up, the reconciler makes the
\* scheduler set what the active workflows ask for, and keeps it so: missed
\* upserts are made up for, and what pauses, edits and deletions left is removed.
Reconciled == <>[](\A id \in ScheduleIds : schedulers[id] = Due(id))

\* README.md:28 "Scheduling | Implemented": a workflow that stays active with a
\* schedule is executed by it.
ScheduledWorkflowsRun ==
    \A w \in Workflows : <>[]Scheduled(w) => <>(w \in executed)
=============================================================================
