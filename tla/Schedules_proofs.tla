-------------------------- MODULE Schedules_proofs --------------------------
(***************************************************************************)
(* Theorems about Schedules, for any numbers of workflows, triggers,       *)
(* toggles, overlapping ticks, changes and mishaps.                        *)
(*                                                                         *)
(* The argument.  As long as nobody has changed a workflow since an actor  *)
(* read it, what the actor has read is what the row asks for; and what it  *)
(* has still to write follows from what it has read: an upsert gives such  *)
(* a workflow the schedule it asks for, and a removal takes none of those. *)
(***************************************************************************)
EXTENDS Schedules, TLAPS

\* What an actor still has to write is what its reading asks for.
Plans ==
    /\ \A a \in Actors : pc[a] = "upsert" => todo[a] \subseteq DesiredOf(read[a])
    /\ \A a \in Actors : pc[a] = "remove" => todo[a] \cap DesiredOf(read[a]) = {}

\* Toggles and ticks go through different stages.
Stages ==
    /\ \A u \in Toggles : pc[u] # "remove"
    /\ \A t \in Ticks : pc[t] \notin {"active", "paused"}

TypeInv == TypeOK /\ Plans /\ Stages

\* What a tick has read of a workflow nobody changed since is what it asks for.
TicksKnow ==
    \A t \in Ticks, w \in Workflows :
        pc[t] # "idle" /\ w \notin outdated[t] => read[t][w] = WantedBy(w)

\* A toggle has read one workflow, which it then activates.
TogglesKnow ==
    \A u \in Toggles : pc[u] # "idle" =>
        /\ target[u] \in Workflows
        /\ \A w \in Workflows : w # target[u] => read[u][w] = None
        /\ target[u] \notin outdated[u] =>
              /\ read[u][target[u]] = trigger[target[u]]
              /\ pc[u] = "upsert" => status[target[u]] = "active"

IInv == TypeInv /\ TicksKnow /\ TogglesKnow
-----------------------------------------------------------------------------
USE NoneAssumption, ActorAssumption, BoundAssumption
    DEF rowVars, actorVars, jobVars, Actors, NothingRead

LEMMA Desired ==
    ASSUME NEW wanted \in [Workflows -> Triggers \cup {None}]
    PROVE  /\ DesiredOf(wanted) \subseteq ScheduleIds
           /\ \A id \in DesiredOf(wanted) :
                 /\ WorkflowOf(id) \in Workflows
                 /\ wanted[WorkflowOf(id)] \in Triggers
                 /\ CronOf(wanted, id) \in Crons
                 /\ id = ScheduleIdFor(WorkflowOf(id), wanted[WorkflowOf(id)].key)
  BY DEF DesiredOf, ScheduleIdFor, ScheduleIds, Keys, Crons, CronOf, WorkflowOf

LEMMA Ids == \A id \in ScheduleIds : WorkflowOf(id) \in Workflows
  BY DEF ScheduleIds, ScheduleIdFor, WorkflowOf

LEMMA InitInv == Init => IInv
  BY DEF Init, IInv, TypeInv, TypeOK, Plans, Stages, TicksKnow, TogglesKnow

\* Whoever leaves disturbs nobody else.
LEMMA Left ==
    ASSUME TypeInv, NEW a \in Actors, Leave(a)
    PROVE  /\ pc' \in [Actors -> {"idle", "active", "paused", "upsert", "remove"}]
           /\ read' \in [Actors -> [Workflows -> Triggers \cup {None}]]
           /\ todo' \in [Actors -> SUBSET ScheduleIds]
           /\ Plans' /\ Stages'
           /\ pc'[a] = "idle"
           /\ \A b \in Actors : b # a => pc'[b] = pc[b] /\ read'[b] = read[b]
<1> USE DEF TypeInv, TypeOK, Leave
<1>1. \A b \in Actors : b # a => pc'[b] = pc[b] /\ read'[b] = read[b] /\ todo'[b] = todo[b]
  OBVIOUS
<1>2. pc'[a] = "idle"
  OBVIOUS
<1>3. Plans'
  BY <1>1, <1>2 DEF Plans
<1>4. Stages'
  BY <1>1, <1>2 DEF Stages
<1>5. read' \in [Actors -> [Workflows -> Triggers \cup {None}]]
  OBVIOUS
<1>6. todo' \in [Actors -> SUBSET ScheduleIds]
  OBVIOUS
<1> QED
  BY <1>1, <1>2, <1>3, <1>4, <1>5, <1>6

\* A leaving actor that changes no row.
LEMMA LeftAlone ==
    ASSUME IInv, NEW a \in Actors, Leave(a),
           UNCHANGED <<rowVars, target, outdated, jobVars, changes>>,
           schedulers' \in [ScheduleIds -> Crons \cup {None}],
           mishaps' \in 0 .. MaxMishaps
    PROVE  IInv'
<1>1. TypeInv'
  BY Left DEF IInv, TypeInv, TypeOK
<1>2. TicksKnow'
  BY Left DEF IInv, TicksKnow, WantedBy
<1>3. TogglesKnow'
  BY Left DEF IInv, TogglesKnow
<1> QED
  BY <1>1, <1>2, <1>3 DEF IInv

LEMMA UserSteps ==
    ASSUME IInv, UserStep PROVE IInv'
<1>1. ASSUME NEW w \in Workflows, NEW t \in Triggers \cup {None}, UpdateWorkflow(w, t) PROVE IInv'
  BY <1>1 DEF IInv, TypeInv, TypeOK, Plans, Stages, TicksKnow, TogglesKnow, Change, Disturb,
              WantedBy, UpdateWorkflow
<1>2. ASSUME NEW w \in Workflows, DeleteWorkflow(w) PROVE IInv'
  BY <1>2 DEF IInv, TypeInv, TypeOK, Plans, Stages, TicksKnow, TogglesKnow, Change, Disturb,
              WantedBy, DeleteWorkflow
<1>3. ASSUME NEW w \in Workflows, NEW u \in Toggles, NEW s \in {"active", "paused"},
             ToggleRead(u, w, s)
      PROVE  IInv'
  BY <1>3 DEF IInv, TypeInv, TypeOK, Plans, Stages, TicksKnow, TogglesKnow, Change, Disturb,
              WantedBy, ToggleRead
<1> QED
  BY <1>1, <1>2, <1>3 DEF UserStep

LEMMA ToggleSteps ==
    ASSUME IInv, NEW u \in Toggles, ToggleStep(u) \/ ToggleFails(u) PROVE IInv'
<1> u \in Actors
  OBVIOUS
<1>1. CASE ToggleSet(u)
  <2> DEFINE w == target[u]
  <2>1. w \in Workflows
    BY <1>1 DEF ToggleSet, IInv, TogglesKnow
  <2>2. CASE status[w] = "deleted"
    BY <1>1, <2>2, LeftAlone DEF ToggleSet, IInv, TypeInv, TypeOK
  <2>3. CASE status[w] # "deleted" /\ pc[u] = "active"
    <3>1. DesiredOf(read[u]) \subseteq ScheduleIds
      BY Desired DEF IInv, TypeInv, TypeOK
    <3>2. /\ pc' = [pc EXCEPT ![u] = "upsert"]
          /\ todo' = [todo EXCEPT ![u] = DesiredOf(read[u])]
          /\ status' = [status EXCEPT ![w] = "active"]
          /\ UNCHANGED <<trigger, target, read, schedulers, jobVars, changes, mishaps>>
      BY <1>1, <2>3 DEF ToggleSet
    <3>3. /\ outdated' \in [Actors -> SUBSET Workflows]
          /\ outdated'[u] = outdated[u]
          /\ \A b \in Actors : outdated[b] \subseteq outdated'[b]
          /\ \A b \in Actors : b # u /\ pc[b] # "idle" /\ status[w] # "active" => w \in outdated'[b]
      BY <1>1, <2>1, <2>3 DEF ToggleSet, Disturb, IInv, TypeInv, TypeOK
    <3>4. TypeInv'
      BY <3>1, <3>2, <3>3, <2>1 DEF IInv, TypeInv, TypeOK, Plans, Stages
    <3>5. TicksKnow'
      BY <3>2, <3>3, <2>1 DEF IInv, TypeInv, TypeOK, TicksKnow, WantedBy
    <3>6. TogglesKnow'
      BY <3>2, <3>3, <2>1, <2>3 DEF IInv, TypeInv, TypeOK, TogglesKnow
    <3> QED
      BY <3>4, <3>5, <3>6 DEF IInv
  <2>4. CASE status[w] # "deleted" /\ pc[u] = "paused"
    <3>1. /\ Leave(u)
          /\ status' = [status EXCEPT ![w] = "paused"]
          /\ UNCHANGED <<trigger, target, schedulers, jobVars, changes, mishaps>>
      BY <1>1, <2>4 DEF ToggleSet
    <3>2. /\ outdated' \in [Actors -> SUBSET Workflows]
          /\ \A b \in Actors : outdated[b] \subseteq outdated'[b]
          /\ \A b \in Actors : b # u /\ pc[b] # "idle" /\ status[w] # "paused" => w \in outdated'[b]
      BY <1>1, <2>1, <2>4 DEF ToggleSet, Disturb, IInv, TypeInv, TypeOK
    <3>3. TypeInv'
      BY <3>1, <3>2, <2>1, Left DEF IInv, TypeInv, TypeOK
    <3>4. TicksKnow'
      BY <3>1, <3>2, <2>1, Left DEF IInv, TypeInv, TypeOK, TicksKnow, WantedBy
    <3>5. TogglesKnow'
      BY <3>1, <3>2, <2>1, Left DEF IInv, TypeInv, TypeOK, TogglesKnow
    <3> QED
      BY <3>3, <3>4, <3>5 DEF IInv
  <2> QED
    BY <1>1, <2>2, <2>3, <2>4 DEF ToggleSet
<1>2. CASE ToggleUpsert(u)
  <2>1. \A id \in todo[u] : CronOf(read[u], id) \in Crons
    BY <1>2, Desired DEF ToggleUpsert, IInv, TypeInv, TypeOK, Plans
  <2>2. schedulers' \in [ScheduleIds -> Crons \cup {None}]
    BY <1>2, <2>1 DEF ToggleUpsert, IInv, TypeInv, TypeOK
  <2> QED
    BY <1>2, <2>2, LeftAlone DEF ToggleUpsert, IInv, TypeInv, TypeOK
<1>3. CASE ToggleFails(u)
  BY <1>3, LeftAlone DEF ToggleFails, Mishap, IInv, TypeInv, TypeOK
<1> QED
  BY <1>1, <1>2, <1>3 DEF ToggleStep

LEMMA TickSteps ==
    ASSUME IInv, NEW t \in Ticks, TickStep(t) \/ TickFails(t) PROVE IInv'
<1> t \in Actors
  OBVIOUS
<1>1. CASE TickRead(t)
  <2>1. [w \in Workflows |-> WantedBy(w)] \in [Workflows -> Triggers \cup {None}]
    BY DEF WantedBy, IInv, TypeInv, TypeOK
  <2>2. read'[t] = [w \in Workflows |-> WantedBy(w)]
    BY <1>1 DEF TickRead, IInv, TypeInv, TypeOK
  <2>3. DesiredOf(read'[t]) \subseteq ScheduleIds
    BY <2>1, <2>2, Desired
  <2> QED
    BY <1>1, <2>1, <2>2, <2>3 DEF TickRead, WantedBy, IInv, TypeInv, TypeOK, Plans, Stages,
                                  TicksKnow, TogglesKnow
<1>2. CASE TickList(t)
  <2>1. /\ Stale(read[t]) \subseteq ScheduleIds
        /\ Stale(read[t]) \cap DesiredOf(read[t]) = {}
    BY DEF Stale, Existing
  <2>2. /\ pc' = [pc EXCEPT ![t] = "remove"]
        /\ todo' = [todo EXCEPT ![t] = Stale(read[t])]
        /\ pc[t] = "upsert"
        /\ UNCHANGED <<rowVars, schedulers, target, read, outdated, jobVars, changes, mishaps>>
    BY <1>2 DEF TickList
  <2>3. TypeInv'
    BY <2>1, <2>2 DEF IInv, TypeInv, TypeOK, Plans, Stages
  <2>4. TicksKnow' /\ TogglesKnow'
    BY <2>2 DEF IInv, TypeInv, TypeOK, TicksKnow, TogglesKnow, WantedBy
  <2> QED
    BY <2>3, <2>4 DEF IInv
<1>3. CASE TickEnd(t)
  BY <1>3, LeftAlone DEF TickEnd, IInv, TypeInv, TypeOK
<1>4. ASSUME NEW id \in ScheduleIds, TickUpsert(t, id) PROVE IInv'
  <2>1. CronOf(read[t], id) \in Crons
    BY <1>4, Desired DEF TickUpsert, IInv, TypeInv, TypeOK, Plans
  <2> QED
    BY <1>4, <2>1 DEF TickUpsert, WantedBy, IInv, TypeInv, TypeOK, Plans, Stages,
                      TicksKnow, TogglesKnow
<1>5. ASSUME NEW id \in ScheduleIds, TickRemove(t, id) PROVE IInv'
  BY <1>5 DEF TickRemove, WantedBy, IInv, TypeInv, TypeOK, Plans, Stages, TicksKnow, TogglesKnow
<1>6. CASE TickFails(t)
  BY <1>6, LeftAlone DEF TickFails, Mishap, IInv, TypeInv, TypeOK
<1> QED
  BY <1>1, <1>2, <1>3, <1>4, <1>5, <1>6 DEF TickStep

LEMMA Jobs ==
    ASSUME IInv, NEW id \in ScheduleIds, Fire(id) \/ ProcessJob(id) PROVE IInv'
  BY Ids DEF IInv, TypeInv, TypeOK, Plans, Stages, TicksKnow, TogglesKnow, Fire, ProcessJob, WantedBy

LEMMA Preserved ==
    ASSUME IInv, [Next]_vars PROVE IInv'
<1>1. CASE UNCHANGED vars
  BY <1>1 DEF vars, IInv, TypeInv, TypeOK, Plans, Stages, TicksKnow, TogglesKnow, WantedBy
<1> QED
  BY <1>1, UserSteps, ToggleSteps, TickSteps, Jobs DEF Next

LEMMA Inductive == Spec => []IInv
  BY InitInv, Preserved, PTL DEF Spec

\* Rows, schedulers, actors and jobs keep their types; above all, no scheduler is
\* ever given a cron that is not a trigger's.  And what an actor has still to write
\* or to remove is what the rows it read ask for or do not ask for.
THEOREM ScheduleTypes == Spec => [](TypeOK /\ Plans)
<1>1. IInv => TypeOK /\ Plans
  BY DEF IInv, TypeInv
<1> QED
  BY <1>1, Inductive, PTL
-----------------------------------------------------------------------------
\* What a scheduler id asks for, by one reading of the database.
LEMMA DueIsDesired ==
    ASSUME TypeOK, NEW wanted \in [Workflows -> Triggers \cup {None}], NEW id \in ScheduleIds,
           wanted[WorkflowOf(id)] = WantedBy(WorkflowOf(id))
    PROVE  /\ id \in DesiredOf(wanted) => Due(id) = CronOf(wanted, id)
           /\ id \notin DesiredOf(wanted) => Due(id) = None
  BY Desired, Ids DEF TypeOK, Due, Scheduled, WantedBy, DesiredOf, CronOf, ScheduleIdFor, WorkflowOf

\* Who writes a scheduler, and nobody outdated its reading, writes what is due.
LEMMA WritesAreDue ==
    ASSUME IInv, [Next]_vars, NEW id \in ScheduleIds, schedulers'[id] # schedulers[id],
           \A a \in Actors : pc[a] = "idle" \/ WorkflowOf(id) \notin outdated[a]
    PROVE  schedulers'[id] = Due(id)
<1> DEFINE w == WorkflowOf(id)
<1>0. w \in Workflows /\ TypeOK
  BY Ids DEF IInv, TypeInv
<1>1. ASSUME NEW u \in Toggles, ToggleUpsert(u) PROVE schedulers'[id] = Due(id)
  <2>1. id \in todo[u] /\ pc[u] = "upsert" /\ schedulers'[id] = CronOf(read[u], id)
    BY <1>1 DEF ToggleUpsert
  <2>2. id \in DesiredOf(read[u]) /\ read[u] \in [Workflows -> Triggers \cup {None}]
    BY <1>0, <2>1 DEF IInv, TypeInv, TypeOK, Plans
  <2>3. read[u][w] # None
    BY <2>2, Desired
  <2>4. read[u][w] = WantedBy(w)
    BY <1>0, <2>1, <2>3 DEF IInv, TogglesKnow, WantedBy
  <2> QED
    BY <1>0, <2>1, <2>2, <2>4, DueIsDesired
<1>2. ASSUME NEW t \in Ticks, NEW i \in ScheduleIds, TickUpsert(t, i)
      PROVE  schedulers'[id] = Due(id)
  <2>1. id = i /\ id \in todo[t] /\ pc[t] = "upsert" /\ schedulers'[id] = CronOf(read[t], id)
    BY <1>0, <1>2 DEF TickUpsert, TypeOK
  <2>2. id \in DesiredOf(read[t]) /\ read[t] \in [Workflows -> Triggers \cup {None}]
    BY <1>0, <2>1 DEF IInv, TypeInv, TypeOK, Plans
  <2>3. read[t][w] = WantedBy(w)
    BY <1>0, <2>1 DEF IInv, TicksKnow
  <2> QED
    BY <1>0, <2>1, <2>2, <2>3, DueIsDesired
<1>3. ASSUME NEW t \in Ticks, NEW i \in ScheduleIds, TickRemove(t, i)
      PROVE  schedulers'[id] = Due(id)
  <2>1. id = i /\ id \in todo[t] /\ pc[t] = "remove" /\ schedulers'[id] = None
    BY <1>0, <1>3 DEF TickRemove, TypeOK
  <2>2. id \notin DesiredOf(read[t]) /\ read[t] \in [Workflows -> Triggers \cup {None}]
    BY <1>0, <2>1 DEF IInv, TypeInv, TypeOK, Plans
  <2>3. read[t][w] = WantedBy(w)
    BY <1>0, <2>1 DEF IInv, TicksKnow
  <2> QED
    BY <1>0, <2>1, <2>2, <2>3, DueIsDesired
<1>4. \/ \E u \in Toggles : ToggleUpsert(u)
      \/ \E t \in Ticks, i \in ScheduleIds : TickUpsert(t, i) \/ TickRemove(t, i)
  <2>1. schedulers' # schedulers
    OBVIOUS
  <2> QED
    BY <2>1 DEF Next, vars, UserStep, UpdateWorkflow, DeleteWorkflow, ToggleRead, ToggleStep, ToggleSet,
                ToggleFails, TickStep, TickRead, TickList, TickEnd, TickFails, Fire, ProcessJob
<1> QED
  BY <1>1, <1>2, <1>3, <1>4

\* However many requests and ticks overlap, and wherever they fail: only an actor
\* whose reading of a workflow is outdated takes away or alters the schedule the
\* workflow asks for.
THEOREM DriftIsCaused == Spec => DriftHasCause
<1>1. IInv /\ [Next]_vars =>
        [\A id \in ScheduleIds :
           schedulers[id] = Due(id) /\ schedulers'[id] # schedulers[id] =>
              \E a \in Actors : pc[a] # "idle" /\ WorkflowOf(id) \in outdated[a]]_vars
  BY WritesAreDue
<1> QED
  BY <1>1, Inductive, PTL DEF Spec, DriftHasCause
=============================================================================
