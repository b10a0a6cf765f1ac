------------------------- MODULE Executions_proofs -------------------------
(***************************************************************************)
(* Theorems about Executions, for any sets of ids, workflows and slots and *)
(* any number of mishaps and redeliveries.                                 *)
(*                                                                         *)
(* The argument.  An id that has been begun is Opened: its run row exists, *)
(* or its workflow is gone and the foreign key refuses a new row.  Opened  *)
(* is stable.  A slot past its createRun owns its id alone, because        *)
(* createRun succeeds only on an id that is not Opened; so the pipeline    *)
(* begins once, and its verdict, dead letter and audit entry are the       *)
(* owner's and nobody else's.                                              *)
(***************************************************************************)
EXTENDS Executions, FiniteSetTheorems, TLAPS

\* Requests are recorded before anything refers to them.
Referenced ==
    /\ \A e \in Ids : jobState[e] # "absent" => request[e] # Nobody
    /\ \A e \in Ids : run[e] # "none" => request[e] # Nobody
    /\ \A e \in Ids : retryStep[e] \in {"enqueue", "mark"} =>
           /\ request[e] # Nobody /\ request[e].of \in Ids
           /\ request[request[e].of] # Nobody
    /\ \A s \in Slots : pc[s] # "idle" =>
           held[s] \in Ids /\ jobState[held[s]] # "absent"

TypeInv == TypeOK /\ Referenced

Owning == {"run", "running", "update", "deadLetter", "audit"}

Opened(e) == request[e] # Nobody /\ (run[e] # "none" \/ Deleted(e))

\* What was begun, concluded or owned is opened.
BegunIsOpened ==
    /\ \A e \in Ids : starts[e] > 0 \/ outcome[e] # "none" => Opened(e)
    /\ \A s \in Slots : pc[s] \in Owning => Opened(held[s])

OneOwner == \A s, t \in Slots :
    s # t /\ pc[s] \in Owning /\ pc[t] \in Owning => held[s] # held[t]

\* What an owner still has to do has not been done.
OwnersTurn == \A s \in Slots :
    /\ pc[s] = "run" => starts[held[s]] = 0
    /\ pc[s] = "running" => starts[held[s]] = 1
    /\ pc[s] \in {"run", "running"} => outcome[held[s]] = "none"
    /\ pc[s] \in {"update", "deadLetter", "audit"} =>
           outcome[held[s]] = result[s] /\ result[s] \in Outcomes
    /\ pc[s] \in {"run", "running", "update", "deadLetter"} =>
           deadLetters[held[s]] = 0
    /\ pc[s] = "deadLetter" =>
           /\ result[s] = "failed"
           /\ run[held[s]] \in {"failed", "retrying", "none"}

RetryIsQueued ==
    /\ \A e \in Ids : retryStep[e] = "mark" => jobState[e] # "absent"
    /\ RetryingIsQueued

IInv == /\ TypeInv /\ BegunIsOpened /\ OneOwner /\ OwnersTurn
        /\ AtMostOnce /\ ReportsOutcome /\ DeadLettersSound /\ AuditSound
        /\ RetryIsQueued
-----------------------------------------------------------------------------
USE DEF workflowVars, requestVars, jobVars, slotVars, rowVars, historyVars

LEMMA TypeInit == Init => TypeInv
  BY NobodyAssumption, BoundAssumption
     DEF Init, TypeInv, TypeOK, Referenced, WorkflowStatus, Request, JobState,
         Steps, Outcomes, RunStatus, AuditActions

LEMMA TypeRequests ==
    ASSUME TypeInv, NEW e \in Ids, RequestStep(e)
    PROVE  TypeInv'
<1> USE NobodyAssumption, BoundAssumption
    DEF TypeInv, TypeOK, Referenced, Request, Mishap
<1>1. ASSUME NEW type \in Types, NEW w \in Workflows, Accept(e, type, w)
      PROVE  TypeInv'
  BY <1>1 DEF Accept, Fresh, Enqueue, Types, JobState
<1>2. ASSUME NEW old \in Ids, RetryRead(e, old) PROVE TypeInv'
  BY <1>2 DEF RetryRead, Fresh, Types
<1>3. CASE RetryEnqueue(e)
  BY <1>3 DEF RetryEnqueue, Enqueue, JobState
<1>4. CASE RetryMark(e)
  BY <1>4 DEF RetryMark, SetRun, RunStatus
<1>5. CASE RetryFails(e)
  BY <1>5 DEF RetryFails
<1> QED
  BY <1>1, <1>2, <1>3, <1>4, <1>5 DEF RequestStep

LEMMA TypeWorkflows ==
    ASSUME TypeInv, NEW w \in Workflows, WorkflowStep(w)
    PROVE  TypeInv'
<1> USE DEF TypeInv, TypeOK, Referenced, WorkflowStatus
<1>1. ASSUME NEW s \in WorkflowStatus, SetStatus(w, s) PROVE TypeInv'
  BY <1>1 DEF SetStatus
<1>2. CASE UpdateGraph(w)
  BY <1>2 DEF UpdateGraph
<1>3. CASE DeleteWorkflow(w)
  BY <1>3 DEF DeleteWorkflow, RunStatus
<1> QED
  BY <1>1, <1>2, <1>3 DEF WorkflowStep

LEMMA TypeSlots ==
    ASSUME TypeInv, NEW s \in Slots,
           (\E e \in Ids : Take(s, e)) \/ SlotStep(s) \/ Fault(s) \/ Crash(s)
    PROVE  TypeInv'
<1> USE NobodyAssumption, BoundAssumption
    DEF TypeInv, TypeOK, Referenced, Goto, Job, Steps, Mishap
<1>1. ASSUME NEW e \in Ids, Take(s, e) PROVE TypeInv'
  BY <1>1 DEF Take, JobState
<1>2. CASE FindRun(s)
  BY <1>2 DEF FindRun
<1>3. CASE LoadWorkflow(s)
  BY <1>3 DEF LoadWorkflow
<1>4. CASE CreateRun(s)
  BY <1>4 DEF CreateRun, RunStatus
<1>5. CASE CreateInvalidRun(s)
  BY <1>5 DEF CreateInvalidRun, RunStatus, Outcomes
<1>6. CASE BeginPipeline(s)
  BY <1>6 DEF BeginPipeline
<1>7. CASE \E r \in Outcomes : EndPipeline(s, r)
  BY <1>7 DEF EndPipeline
<1>8. CASE UpdateRun(s)
  BY <1>8 DEF UpdateRun, SetRun, RunStatus
<1>9. CASE CreateDeadLetter(s)
  BY <1>9 DEF CreateDeadLetter
<1>10. CASE RecordAudit(s)
  BY <1>10 DEF RecordAudit, AuditOf, AuditActions
<1>11. CASE Finish(s)
  BY <1>11 DEF Finish, Release, JobState
<1>12. CASE Fault(s)
  BY <1>12 DEF Fault
<1>13. CASE Crash(s)
  BY <1>13 DEF Crash, Release
<1> QED
  BY <1>1, <1>2, <1>3, <1>4, <1>5, <1>6, <1>7, <1>8, <1>9, <1>10, <1>11,
     <1>12, <1>13 DEF SlotStep

LEMMA TypeLocks ==
    ASSUME TypeInv, NEW e \in Ids, LockStep(e)
    PROVE  TypeInv'
<1> USE NobodyAssumption, BoundAssumption
    DEF TypeInv, TypeOK, Referenced, JobState, Mishap
<1>1. CASE DeadLockExpires(e)
  BY <1>1 DEF DeadLockExpires
<1>2. CASE LiveLockExpires(e)
  BY <1>2 DEF LiveLockExpires
<1>3. CASE MoveStalled(e)
  BY <1>3 DEF MoveStalled
<1> QED
  BY <1>1, <1>2, <1>3 DEF LockStep

LEMMA TypeNext == TypeInv /\ [Next]_vars => TypeInv'
<1> SUFFICES ASSUME TypeInv, [Next]_vars PROVE TypeInv'
  OBVIOUS
<1>1. CASE Next
  BY <1>1, TypeRequests, TypeWorkflows, TypeSlots, TypeLocks DEF Next
<1>2. CASE UNCHANGED vars
  BY <1>2 DEF vars, TypeInv, TypeOK, Referenced
<1> QED
  BY <1>1, <1>2

\* The state keeps its types, and whatever refers to an execution, be it a job, a
\* run, a slot or the retry route, refers to one that was requested.
THEOREM TypeCorrect == Spec => [](TypeOK /\ Referenced)
<1>1. TypeInv => TypeOK /\ Referenced
  BY DEF TypeInv
<1> QED
  BY <1>1, TypeInit, TypeNext, PTL DEF Spec
-----------------------------------------------------------------------------
LEMMA IInvInit == Init => IInv
  BY TypeInit, NobodyAssumption
     DEF Init, IInv, BegunIsOpened, Opened, OneOwner, OwnersTurn, Owning,
         AtMostOnce, ReportsOutcome, DeadLettersSound, AuditSound,
         RetryIsQueued, RetryingIsQueued, Outcomes

LEMMA IInvRequests ==
    ASSUME IInv, TypeInv', NEW e \in Ids, RequestStep(e)
    PROVE  IInv'
<1> USE NobodyAssumption
    DEF IInv, TypeInv, TypeOK, Referenced, BegunIsOpened, Opened, Deleted,
        WorkflowOf, OneOwner, OwnersTurn, Owning, AtMostOnce, ReportsOutcome,
        DeadLettersSound, AuditSound, RetryIsQueued, RetryingIsQueued
<1>1. ASSUME NEW type \in Types, NEW w \in Workflows, Accept(e, type, w) PROVE IInv'
  BY <1>1 DEF Accept, Fresh, Enqueue, Request, Types
<1>2. ASSUME NEW old \in Ids, RetryRead(e, old) PROVE IInv'
  BY <1>2 DEF RetryRead, Fresh, Request
<1>3. CASE RetryEnqueue(e)
  BY <1>3 DEF RetryEnqueue, Enqueue
<1>4. CASE RetryMark(e)
  BY <1>4 DEF RetryMark, SetRun, Outcomes
<1>5. CASE RetryFails(e)
  BY <1>5 DEF RetryFails
<1> QED
  BY <1>1, <1>2, <1>3, <1>4, <1>5 DEF RequestStep

LEMMA IInvWorkflows ==
    ASSUME IInv, TypeInv', NEW w \in Workflows, WorkflowStep(w)
    PROVE  IInv'
<1> USE NobodyAssumption
    DEF IInv, TypeInv, TypeOK, Referenced, BegunIsOpened, Opened, Deleted,
        WorkflowOf, OneOwner, OwnersTurn, Owning, AtMostOnce, ReportsOutcome,
        DeadLettersSound, AuditSound, RetryIsQueued, RetryingIsQueued
<1>1. ASSUME NEW s \in WorkflowStatus, SetStatus(w, s) PROVE IInv'
  BY <1>1 DEF SetStatus
<1>2. CASE UpdateGraph(w)
  BY <1>2 DEF UpdateGraph
<1>3. CASE DeleteWorkflow(w)
  BY <1>3 DEF DeleteWorkflow, Belongs, Outcomes, Request
<1> QED
  BY <1>1, <1>2, <1>3 DEF WorkflowStep

LEMMA IInvSlots ==
    ASSUME IInv, TypeInv', NEW s \in Slots,
           (\E e \in Ids : Take(s, e)) \/ SlotStep(s) \/ Fault(s) \/ Crash(s)
    PROVE  IInv'
<1> USE NobodyAssumption
    DEF IInv, TypeInv, TypeOK, Referenced, BegunIsOpened, Opened, Deleted,
        WorkflowOf, OneOwner, OwnersTurn, Owning, AtMostOnce, ReportsOutcome,
        DeadLettersSound, AuditSound, RetryIsQueued, RetryingIsQueued
<1>1. ASSUME NEW e \in Ids, Take(s, e) PROVE IInv'
  BY <1>1 DEF Take, Goto
<1>2. CASE FindRun(s)
  BY <1>2 DEF FindRun, Goto
<1>3. CASE LoadWorkflow(s)
  BY <1>3 DEF LoadWorkflow, Goto
<1>4. CASE CreateRun(s)
  <2> USE <1>4 DEF CreateRun, Goto, Job
  <2>1. held[s] \in Ids /\ request[held[s]] \in Request
    OBVIOUS
  <2>2. CASE ~CanCreate(held[s])
    BY <2>1, <2>2
  <2>3. CASE CanCreate(held[s])
    <3>1. ~Opened(held[s])
      BY <2>3 DEF CanCreate
    <3>2. starts[held[s]] = 0 /\ outcome[held[s]] = "none"
      BY <2>1, <3>1
    <3>3. deadLetters[held[s]] = 0 /\ \A a \in audited[held[s]] : FALSE
      <4>1. deadLetters[held[s]] \in Nat /\ deadLetters[held[s]] <= 1
        BY <2>1
      <4>2. deadLetters[held[s]] # 1
        BY <2>1, <3>2
      <4>3. \A a \in audited[held[s]] : FALSE
        BY <2>1, <3>2
      <4>4. deadLetters[held[s]] = 0
        BY <4>1, <4>2, \A n \in Nat : n <= 1 /\ n # 1 => n = 0
      <4> QED
        BY <4>3, <4>4, Zenon
    <3>4. \A t \in Slots : pc[t] \in Owning => held[t] # held[s]
      BY <2>1, <3>1
    <3>5. BegunIsOpened'
      BY <2>1, <2>3
    <3>10. OneOwner'
      BY <2>1, <3>4
    <3>6. OwnersTurn'
      BY <2>1, <2>3, <3>2, <3>3, <3>4 DEF Outcomes
    <3>7. AtMostOnce' /\ ReportsOutcome'
      BY <2>1, <2>3, <3>2 DEF Outcomes
    <3>8. DeadLettersSound'
      BY <2>1, <2>3, <3>3
    <3>9. AuditSound' /\ RetryIsQueued'
      BY <2>1, <2>3, <3>3
    <3> QED
      BY <3>5, <3>6, <3>7, <3>8, <3>9, <3>10
  <2> QED
    BY <2>2, <2>3
<1>5. CASE CreateInvalidRun(s)
  <2> USE <1>5 DEF CreateInvalidRun, Goto, Job
  <2>1. held[s] \in Ids /\ request[held[s]] \in Request
    OBVIOUS
  <2>2. CASE ~CanCreate(held[s])
    BY <2>1, <2>2
  <2>3. CASE CanCreate(held[s])
    <3>1. ~Opened(held[s])
      BY <2>3 DEF CanCreate
    <3>2. starts[held[s]] = 0 /\ outcome[held[s]] = "none"
      BY <2>1, <3>1
    <3>3. deadLetters[held[s]] = 0 /\ \A a \in audited[held[s]] : FALSE
      <4>1. deadLetters[held[s]] \in Nat /\ deadLetters[held[s]] <= 1
        BY <2>1
      <4>2. deadLetters[held[s]] # 1
        BY <2>1, <3>2
      <4>3. \A a \in audited[held[s]] : FALSE
        BY <2>1, <3>2
      <4>4. deadLetters[held[s]] = 0
        BY <4>1, <4>2, \A n \in Nat : n <= 1 /\ n # 1 => n = 0
      <4> QED
        BY <4>3, <4>4, Zenon
    <3>4. \A t \in Slots : pc[t] \in Owning => held[t] # held[s]
      BY <2>1, <3>1
    <3>5. BegunIsOpened'
      BY <2>1, <2>3
    <3>10. OneOwner'
      BY <2>1, <3>4
    <3>6. OwnersTurn'
      BY <2>1, <2>3, <3>2, <3>3, <3>4 DEF Outcomes
    <3>7. AtMostOnce' /\ ReportsOutcome'
      BY <2>1, <2>3, <3>2 DEF Outcomes
    <3>8. DeadLettersSound'
      BY <2>1, <2>3, <3>3
    <3>9. AuditSound' /\ RetryIsQueued'
      BY <2>1, <2>3, <3>3
    <3> QED
      BY <3>5, <3>6, <3>7, <3>8, <3>9, <3>10
  <2> QED
    BY <2>2, <2>3
<1>6. CASE BeginPipeline(s)
  BY <1>6 DEF BeginPipeline, Goto, Job
<1>7. CASE \E r \in Outcomes : EndPipeline(s, r)
  BY <1>7 DEF EndPipeline, Goto, Job, Outcomes
<1>8. CASE UpdateRun(s)
  BY <1>8 DEF UpdateRun, SetRun, Goto, Job, Outcomes
<1>9. CASE CreateDeadLetter(s)
  BY <1>9 DEF CreateDeadLetter, Goto, Job, Outcomes
<1>10. CASE RecordAudit(s)
  <2> USE <1>10 DEF RecordAudit, Goto, Job
  <2>1. /\ held[s] \in Ids
        /\ outcome[held[s]] = result[s] /\ outcome[held[s]] # "none"
    BY DEF Outcomes
  <2>2. AuditSound'
    BY <2>1
  <2>3. /\ BegunIsOpened' /\ OneOwner' /\ OwnersTurn' /\ AtMostOnce'
        /\ ReportsOutcome' /\ DeadLettersSound' /\ RetryIsQueued'
    BY <2>1
  <2> QED
    BY <2>2, <2>3
<1>11. CASE Finish(s)
  BY <1>11 DEF Finish, Release, Job
<1>12. CASE Fault(s)
  BY <1>12 DEF Fault, Goto, Job
<1>13. CASE Crash(s)
  BY <1>13 DEF Crash, Release
<1> QED
  BY <1>1, <1>2, <1>3, <1>4, <1>5, <1>6, <1>7, <1>8, <1>9, <1>10, <1>11, <1>12, <1>13 DEF SlotStep

LEMMA IInvLocks ==
    ASSUME IInv, TypeInv', NEW e \in Ids, LockStep(e)
    PROVE  IInv'
<1> USE NobodyAssumption
    DEF IInv, TypeInv, TypeOK, Referenced, BegunIsOpened, Opened, Deleted,
        WorkflowOf, OneOwner, OwnersTurn, Owning, AtMostOnce, ReportsOutcome,
        DeadLettersSound, AuditSound, RetryIsQueued, RetryingIsQueued
<1>1. CASE DeadLockExpires(e)
  BY <1>1 DEF DeadLockExpires
<1>2. CASE LiveLockExpires(e)
  BY <1>2 DEF LiveLockExpires
<1>3. CASE MoveStalled(e)
  BY <1>3 DEF MoveStalled
<1> QED
  BY <1>1, <1>2, <1>3 DEF LockStep
LEMMA IInvNext == IInv /\ [Next]_vars => IInv'
<1> SUFFICES ASSUME IInv, [Next]_vars PROVE IInv'
  OBVIOUS
<1>1. TypeInv'
  BY TypeNext DEF IInv
<1>2. CASE Next
  BY <1>1, <1>2, IInvRequests, IInvWorkflows, IInvSlots, IInvLocks DEF Next
<1>3. CASE UNCHANGED vars
  BY <1>1, <1>3
     DEF vars, IInv, BegunIsOpened, Opened, Deleted, WorkflowOf, OneOwner,
         OwnersTurn, AtMostOnce, ReportsOutcome, DeadLettersSound, AuditSound,
         RetryIsQueued, RetryingIsQueued
<1> QED
  BY <1>2, <1>3

LEMMA Inductive == Spec => []IInv
  BY IInvInit, IInvNext, PTL DEF Spec

\* No delivery, crash, lost lock or deletion makes a pipeline begin twice.
THEOREM RunsAtMostOnce == Spec => []AtMostOnce
<1>1. IInv => AtMostOnce
  BY DEF IInv
<1> QED
  BY <1>1, Inductive, PTL

\* A final status is the verdict of the execution's own pipeline.
THEOREM StatusIsOutcome == Spec => []ReportsOutcome
<1>1. IInv => ReportsOutcome
  BY DEF IInv
<1> QED
  BY <1>1, Inductive, PTL

\* An execution leaves at most one dead letter, and that stands for a failed verdict
\* its run shows, or showed before a retry was marked.
THEOREM DeadLettersAreSound == Spec => []DeadLettersSound
<1>1. IInv => DeadLettersSound
  BY DEF IInv
<1> QED
  BY <1>1, Inductive, PTL

\* Every audit entry of an execution tells the verdict of its pipeline.
THEOREM AuditIsSound == Spec => []AuditSound
<1>1. IInv => AuditSound
  BY DEF IInv
<1> QED
  BY <1>1, Inductive, PTL

\* Behind a run that is marked "retrying" there is a job that retries it.
THEOREM RetriesAreQueued == Spec => []RetryingIsQueued
<1>1. IInv => RetryingIsQueued
  BY DEF IInv, RetryIsQueued
<1> QED
  BY <1>1, Inductive, PTL
-----------------------------------------------------------------------------
(***************************************************************************)
(* What is lost.  Only a crash or a throw makes a slot leave what it was   *)
(* about to write, and a slot is about to write for one execution.  A dead *)
(* letter that the foreign key refuses is missed by nobody, because the    *)
(* run went with the workflow.                                             *)
(***************************************************************************)
ErasedWithWorkflow ==
    \A e \in Ids : request[e] # Nobody /\ Deleted(e) => run[e] = "none"

LostIds == {e \in Ids : Lost(e)}

LossInv == ErasedWithWorkflow /\ IsFiniteSet(LostIds) /\ LossesHaveCause

LEMMA ErasedNext ==
    ASSUME IInv, ErasedWithWorkflow, [Next]_vars PROVE ErasedWithWorkflow'
<1> USE NobodyAssumption
    DEF IInv, TypeInv, TypeOK, Referenced, ErasedWithWorkflow, Deleted, WorkflowOf
<1>1. ASSUME NEW e \in Ids, RequestStep(e) PROVE ErasedWithWorkflow'
  BY <1>1 DEF RequestStep, Accept, RetryRead, RetryEnqueue, RetryMark, RetryFails, SetRun,
        Fresh, Request
<1>2. ASSUME NEW w \in Workflows, WorkflowStep(w) PROVE ErasedWithWorkflow'
  BY <1>2 DEF WorkflowStep, SetStatus, UpdateGraph, DeleteWorkflow, Belongs, WorkflowStatus,
        Request
<1>3. ASSUME NEW s \in Slots, CreateRun(s) \/ CreateInvalidRun(s) \/ UpdateRun(s)
      PROVE  ErasedWithWorkflow'
  BY <1>3 DEF CreateRun, CreateInvalidRun, UpdateRun, CanCreate, SetRun, Job
<1>4. CASE UNCHANGED <<status, request, run>>
  BY <1>4
<1> QED
  BY <1>1, <1>2, <1>3, <1>4
     DEF Next, vars, SlotStep, LockStep, Take, FindRun, LoadWorkflow, BeginPipeline,
         EndPipeline, CreateDeadLetter, RecordAudit, Finish, Fault, Crash,
         DeadLockExpires, LiveLockExpires, MoveStalled

\* Nothing is lost by requests, edits, locks and deletions, ...
LEMMA LostElsewhere ==
    ASSUME IInv, (\E e \in Ids : RequestStep(e) \/ LockStep(e))
                 \/ (\E w \in Workflows : WorkflowStep(w))
    PROVE  /\ \A x \in Ids : Lost(x)' => Lost(x)
           /\ mishaps' \in Nat /\ mishaps <= mishaps'
<1> USE DEF IInv, TypeInv, TypeOK, Lost, Mishap
<1>1. ASSUME NEW e \in Ids, RequestStep(e)
      PROVE  /\ \A x \in Ids : Lost(x)' => Lost(x)
             /\ mishaps' \in Nat /\ mishaps <= mishaps'
  BY <1>1 DEF RequestStep, Accept, RetryRead, RetryEnqueue, RetryMark, RetryFails, SetRun
<1>2. ASSUME NEW e \in Ids, LockStep(e)
      PROVE  /\ \A x \in Ids : Lost(x)' => Lost(x)
             /\ mishaps' \in Nat /\ mishaps <= mishaps'
  BY <1>2 DEF LockStep, DeadLockExpires, LiveLockExpires, MoveStalled
<1>3. ASSUME NEW w \in Workflows, WorkflowStep(w)
      PROVE  /\ \A x \in Ids : Lost(x)' => Lost(x)
             /\ mishaps' \in Nat /\ mishaps <= mishaps'
  BY <1>3 DEF WorkflowStep, SetStatus, UpdateGraph, DeleteWorkflow
<1> QED
  BY <1>1, <1>2, <1>3

\* ... nor by a slot that goes on, ...
LEMMA LostBySteps ==
    ASSUME IInv, ErasedWithWorkflow, NEW s \in Slots,
           (\E e \in Ids : Take(s, e)) \/ SlotStep(s)
    PROVE  /\ \A x \in Ids : Lost(x)' => Lost(x)
           /\ mishaps' = mishaps
<1> DEFINE NoneLost == (\A x \in Ids : Lost(x)' => Lost(x)) /\ mishaps' = mishaps
<1> USE DEF IInv, TypeInv, TypeOK, Referenced, Lost, Goto, Job
<1>1. CASE \E e \in Ids : Take(s, e)
  BY <1>1 DEF Take
<1>2. CASE FindRun(s) \/ LoadWorkflow(s)
  BY <1>2 DEF FindRun, LoadWorkflow
<1>3. CASE CreateRun(s)
  BY <1>3 DEF CreateRun
<1>4. CASE CreateInvalidRun(s)
  BY <1>4 DEF CreateInvalidRun
<1>5. CASE BeginPipeline(s) \/ \E r \in Outcomes : EndPipeline(s, r)
  BY <1>5 DEF BeginPipeline, EndPipeline
<1>6. CASE UpdateRun(s)
  BY <1>6 DEF UpdateRun, SetRun, OwnersTurn, Outcomes
<1>7. CASE CreateDeadLetter(s)
  BY <1>7 DEF CreateDeadLetter, OwnersTurn, ErasedWithWorkflow
<1>8. CASE RecordAudit(s)
  BY <1>8 DEF RecordAudit
<1>9. CASE Finish(s)
  BY <1>9 DEF Finish, Release
<1> QED
  BY <1>1, <1>2, <1>3, <1>4, <1>5, <1>6, <1>7, <1>8, <1>9 DEF SlotStep

\* ... and a crash or a throw loses what its slot was about to write.
LEMMA LostByMishaps ==
    ASSUME IInv, NEW s \in Slots, Fault(s) \/ Crash(s)
    PROVE  /\ held[s] \in Ids
           /\ \A x \in Ids : Lost(x)' => Lost(x) \/ x = held[s]
           /\ mishaps' = mishaps + 1
  BY DEF IInv, TypeInv, TypeOK, Referenced, Lost, Goto, Fault, Crash, Release, Mishap

LEMMA LossInit == Init => LossInv
<1> SUFFICES ASSUME Init PROVE LossInv
  OBVIOUS
<1>1. LostIds = {} /\ {e \in Ids : Lost(e)} = {}
  BY DEF Init, LostIds, Lost
<1>2. ErasedWithWorkflow /\ mishaps = 0
  BY DEF Init, ErasedWithWorkflow
<1> QED
  BY <1>1, <1>2, FS_EmptySet DEF LossInv, LossesHaveCause

LEMMA LossNext ==
    ASSUME IInv, LossInv, [Next]_vars PROVE LossInv'
<1>1. IsFiniteSet(LostIds) /\ Cardinality(LostIds) \in Nat /\ Cardinality(LostIds) <= mishaps
  BY FS_CardinalityType DEF LossInv, LossesHaveCause, LostIds
<1>2. mishaps \in Nat
  BY DEF IInv, TypeInv, TypeOK
<1>3. ASSUME LostIds' \subseteq LostIds, mishaps' \in Nat, mishaps <= mishaps'
      PROVE  IsFiniteSet(LostIds') /\ Cardinality(LostIds') <= mishaps'
  <2>1. IsFiniteSet(LostIds') /\ Cardinality(LostIds') <= Cardinality(LostIds)
    BY <1>1, <1>3, FS_Subset
  <2> QED
    BY <1>1, <1>2, <1>3, <2>1, FS_CardinalityType
<1>4. ASSUME NEW e, LostIds' \subseteq LostIds \cup {e}, mishaps' = mishaps + 1
      PROVE  IsFiniteSet(LostIds') /\ Cardinality(LostIds') <= mishaps'
  <2>1. /\ IsFiniteSet(LostIds \cup {e})
        /\ Cardinality(LostIds \cup {e}) <= Cardinality(LostIds) + 1
    BY <1>1, FS_AddElement
  <2>2. IsFiniteSet(LostIds') /\ Cardinality(LostIds') <= Cardinality(LostIds \cup {e})
    BY <1>4, <2>1, FS_Subset
  <2> QED
    BY <1>1, <1>2, <1>4, <2>1, <2>2, FS_CardinalityType
<1>5. ASSUME UNCHANGED vars
      PROVE  IsFiniteSet(LostIds') /\ Cardinality(LostIds') <= mishaps'
  <2>1. LostIds' \subseteq LostIds
    BY <1>5 DEF vars, LostIds, Lost
  <2>2. mishaps' \in Nat /\ mishaps <= mishaps'
    BY <1>2, <1>5 DEF vars
  <2> QED
    BY <1>3, <2>1, <2>2
<1>6. ASSUME NEW s \in Slots, Fault(s) \/ Crash(s)
      PROVE  IsFiniteSet(LostIds') /\ Cardinality(LostIds') <= mishaps'
  BY <1>4, <1>6, LostByMishaps DEF LostIds
<1>7. ASSUME NEW s \in Slots, SlotStep(s) \/ \E e \in Ids : Take(s, e)
      PROVE  IsFiniteSet(LostIds') /\ Cardinality(LostIds') <= mishaps'
  <2>1. (\A x \in Ids : Lost(x)' => Lost(x)) /\ mishaps' = mishaps
    BY <1>7, LostBySteps DEF LossInv
  <2>2. LostIds' \subseteq LostIds
    BY <2>1 DEF LostIds
  <2>3. mishaps' \in Nat /\ mishaps <= mishaps'
    BY <1>2, <2>1
  <2> QED
    BY <1>3, <2>2, <2>3
<1>8. ASSUME \/ \E e \in Ids : RequestStep(e) \/ LockStep(e)
             \/ \E w \in Workflows : WorkflowStep(w)
      PROVE  IsFiniteSet(LostIds') /\ Cardinality(LostIds') <= mishaps'
  <2>1. /\ \A x \in Ids : Lost(x)' => Lost(x)
        /\ mishaps' \in Nat /\ mishaps <= mishaps'
    BY <1>8, LostElsewhere
  <2>2. LostIds' \subseteq LostIds
    BY <2>1 DEF LostIds
  <2> QED
    BY <1>3, <2>1, <2>2
<1>9. IsFiniteSet(LostIds') /\ Cardinality(LostIds') <= mishaps'
  <2>1. CASE Next
    BY <1>6, <1>7, <1>8, <2>1 DEF Next
  <2> QED
    BY <1>5, <2>1
<1> QED
  BY <1>9, ErasedNext DEF LossInv, LossesHaveCause, LostIds

\* However deliveries, retries, edits and deletions interleave, an execution whose
\* ending is never written has cost a crash, a throw or a lost lock of its own.
THEOREM LossesAreCaused == Spec => []LossesHaveCause
<1>1. IInv /\ LossInv /\ [Next]_vars => LossInv'
  BY LossNext
<1>2. LossInv => LossesHaveCause
  BY DEF LossInv
<1> QED
  BY <1>1, <1>2, LossInit, Inductive, PTL DEF Spec
-----------------------------------------------------------------------------
(***************************************************************************)
(* No step takes back a report.  An update writes its owner's verdict,     *)
(* which is what a final status shows already; and an id whose run was     *)
(* erased after its pipeline began is Opened, so its workflow is gone.     *)
(***************************************************************************)
Stands ==
    \A e \in Ids :
        /\ run[e] \in Outcomes => run'[e] \in {run[e], "retrying", "none"}
        /\ run[e] = "none" /\ starts[e] > 0 => run'[e] = "none"

LEMMA StandsSame == ASSUME run' = run PROVE Stands
  BY DEF Stands

LEMMA StandsRequests ==
    ASSUME IInv, NEW e \in Ids, RequestStep(e)
    PROVE  Stands
<1>1. CASE RetryMark(e)
  <2>1. run \in [Ids -> RunStatus]
    BY DEF IInv, TypeInv, TypeOK
  <2> QED
    BY <1>1, <2>1 DEF RetryMark, SetRun, Stands
<1>2. CASE RetryEnqueue(e) \/ RetryFails(e)
  BY <1>2, StandsSame DEF RetryEnqueue, RetryFails
<1>3. ASSUME NEW type \in Types, NEW w \in Workflows, Accept(e, type, w) PROVE Stands
  BY <1>3, StandsSame DEF Accept
<1>4. ASSUME NEW old \in Ids, RetryRead(e, old) PROVE Stands
  BY <1>4, StandsSame DEF RetryRead
<1> QED
  BY <1>1, <1>2, <1>3, <1>4 DEF RequestStep

LEMMA StandsWorkflows ==
    ASSUME NEW w \in Workflows, WorkflowStep(w)
    PROVE  Stands
<1>1. CASE DeleteWorkflow(w)
  BY <1>1 DEF DeleteWorkflow, Stands
<1>2. CASE UpdateGraph(w) \/ \E s \in WorkflowStatus : SetStatus(w, s)
  BY <1>2, StandsSame DEF UpdateGraph, SetStatus
<1> QED
  BY <1>1, <1>2 DEF WorkflowStep

LEMMA StandsSlots ==
    ASSUME IInv, NEW s \in Slots, SlotStep(s)
    PROVE  Stands
<1> DEFINE e == held[s]
<1>a. run \in [Ids -> RunStatus]
  BY DEF IInv, TypeInv, TypeOK
<1>1. CASE CreateRun(s) \/ CreateInvalidRun(s)
  <2>1. e \in Ids
    BY <1>1 DEF IInv, TypeInv, Referenced, CreateRun, CreateInvalidRun
  <2>2. CASE run' = run
    BY <2>2, StandsSame
  <2>3. ASSUME run' # run
        PROVE  /\ ~Deleted(e) /\ run[e] = "none"
               /\ \E st \in {"started", "failed"} : run' = [run EXCEPT ![e] = st]
    BY <1>1, <2>3 DEF CreateRun, CreateInvalidRun, CanCreate, Job
  <2>4. CASE run' # run
    <3>1. ~(starts[e] > 0)
      BY <2>1, <2>3, <2>4 DEF IInv, BegunIsOpened, Opened
    <3>2. "none" \notin Outcomes
      BY DEF Outcomes
    <3> QED
      BY <1>a, <2>1, <2>3, <2>4, <3>1, <3>2 DEF Stands
  <2> QED
    BY <2>2, <2>4
<1>2. CASE UpdateRun(s)
  <2>1. e \in Ids /\ outcome[e] = result[s]
    BY <1>2 DEF IInv, TypeInv, Referenced, OwnersTurn, UpdateRun
  <2>2. run' = [run EXCEPT ![e] = IF @ = "none" THEN @ ELSE result[s]]
    BY <1>2 DEF UpdateRun, SetRun, Job
  <2>3. run[e] \in Outcomes => run[e] = result[s]
    BY <2>1 DEF IInv, ReportsOutcome
  <2> QED
    BY <1>a, <2>1, <2>2, <2>3 DEF Stands
<1>3. CASE FindRun(s) \/ LoadWorkflow(s) \/ BeginPipeline(s)
  BY <1>3, StandsSame DEF FindRun, LoadWorkflow, BeginPipeline
<1>4. CASE CreateDeadLetter(s) \/ RecordAudit(s) \/ Finish(s)
  BY <1>4, StandsSame DEF CreateDeadLetter, RecordAudit, Finish
<1>5. ASSUME NEW r \in Outcomes, EndPipeline(s, r) PROVE Stands
  BY <1>5, StandsSame DEF EndPipeline
<1> QED
  BY <1>1, <1>2, <1>3, <1>4, <1>5 DEF SlotStep

LEMMA StandsNext == IInv /\ [Next]_vars => Stands
<1> SUFFICES ASSUME IInv, [Next]_vars PROVE Stands
  OBVIOUS
<1>1. ASSUME NEW e \in Ids, LockStep(e) PROVE Stands
  BY <1>1, StandsSame DEF LockStep, DeadLockExpires, LiveLockExpires, MoveStalled
<1>2. ASSUME NEW s \in Slots, (\E e \in Ids : Take(s, e)) \/ Fault(s) \/ Crash(s) PROVE Stands
  BY <1>2, StandsSame DEF Take, Fault, Crash
<1>3. CASE UNCHANGED vars
  BY <1>3, StandsSame DEF vars
<1> QED
  BY <1>1, <1>2, <1>3, StandsRequests, StandsWorkflows, StandsSlots DEF Next

\* A final status gives way only to a retry mark or to erasure, and an erased
\* run is not created again.
THEOREM RunsStand == Spec => ReportsStand
<1>1. IInv /\ [Next]_vars =>
        [\A e \in Ids :
           /\ run[e] \in Outcomes => run'[e] \in {run[e], "retrying", "none"}
           /\ run[e] = "none" /\ starts[e] > 0 => run'[e] = "none"]_vars
  BY StandsNext DEF Stands
<1> QED
  BY <1>1, Inductive, PTL DEF Spec, ReportsStand
-----------------------------------------------------------------------------
(***************************************************************************)
(* Executions implements ExecutionLedger: every step is a ledger step or   *)
(* leaves the ledger alone.                                                *)
(***************************************************************************)
LEMMA LedgerInit == Init => Ledger!Init
  BY DEF Init, Ledger!Init

LEMMA LedgerRequests ==
    ASSUME IInv, NEW e \in Ids, RequestStep(e)
    PROVE  [Ledger!Next]_(Ledger!vars)
<1> USE DEF Ledger!vars, rowVars, historyVars, jobVars
<1>1. ASSUME jobState' = [jobState EXCEPT ![e] = "wait"],
             UNCHANGED <<run, starts, outcome>>
      PROVE  [Ledger!Next]_(Ledger!vars)
  <2>1. jobState \in [Ids -> JobState]
    BY DEF IInv, TypeInv, TypeOK
  <2>2. CASE jobState[e] = "absent"
    <3>1. Ledger!Ask(e)
      BY <1>1, <2>1, <2>2 DEF Ledger!Ask
    <3> QED
      BY <3>1 DEF Ledger!Next
  <2>3. CASE jobState[e] # "absent"
    BY <1>1, <2>1, <2>3
  <2> QED
    BY <2>2, <2>3
<1>2. ASSUME NEW type \in Types, NEW w \in Workflows, Accept(e, type, w)
      PROVE  [Ledger!Next]_(Ledger!vars)
  BY <1>1, <1>2 DEF Accept, Enqueue
<1>3. CASE RetryEnqueue(e)
  BY <1>1, <1>3 DEF RetryEnqueue, Enqueue
<1>4. CASE RetryMark(e)
  <2> DEFINE old == request[e].of
  <2>1. old \in Ids /\ run \in [Ids -> RunStatus]
    BY <1>4 DEF RetryMark, IInv, TypeInv, TypeOK, Referenced
  <2>2. CASE run[old] = "none"
    BY <1>4, <2>1, <2>2 DEF RetryMark, SetRun
  <2>3. CASE run[old] # "none"
    <3>1. Ledger!Supersede(old)
      BY <1>4, <2>1, <2>3 DEF RetryMark, SetRun, Ledger!Supersede
    <3> QED
      BY <2>1, <3>1 DEF Ledger!Next
  <2> QED
    BY <2>2, <2>3
<1>5. ASSUME NEW old \in Ids, RetryRead(e, old)
      PROVE  [Ledger!Next]_(Ledger!vars)
  BY <1>5 DEF RetryRead
<1>6. CASE RetryFails(e)
  BY <1>6 DEF RetryFails
<1> QED
  BY <1>2, <1>3, <1>4, <1>5, <1>6 DEF RequestStep

LEMMA LedgerWorkflows ==
    ASSUME NEW w \in Workflows, WorkflowStep(w)
    PROVE  [Ledger!Next]_(Ledger!vars)
<1> USE DEF Ledger!vars, rowVars, historyVars, jobVars
<1>1. CASE DeleteWorkflow(w)
  <2> DEFINE gone == {e \in Ids : Belongs(e, w)}
  <2>1. Ledger!Erase(gone)
    BY <1>1 DEF DeleteWorkflow, Ledger!Erase
  <2> QED
    BY <2>1 DEF Ledger!Next
<1>2. ASSUME NEW s \in WorkflowStatus, SetStatus(w, s)
      PROVE  [Ledger!Next]_(Ledger!vars)
  BY <1>2 DEF SetStatus
<1>3. CASE UpdateGraph(w)
  BY <1>3 DEF UpdateGraph
<1> QED
  BY <1>1, <1>2, <1>3 DEF WorkflowStep

\* Moving a job between BullMQ's sets is no news to the ledger.
LEMMA JobMoves ==
    ASSUME IInv, NEW e \in Ids, jobState[e] # "absent",
           NEW st \in JobState \ {"absent"},
           jobState' \in {jobState, [jobState EXCEPT ![e] = st]},
           UNCHANGED <<run, starts, outcome>>
    PROVE  UNCHANGED Ledger!vars
  BY DEF IInv, TypeInv, TypeOK, Ledger!vars

LEMMA LedgerSlots ==
    ASSUME IInv, NEW s \in Slots,
           (\E e \in Ids : Take(s, e)) \/ SlotStep(s) \/ Fault(s) \/ Crash(s)
    PROVE  [Ledger!Next]_(Ledger!vars)
<1> USE DEF rowVars, historyVars, jobVars, Goto, Job
<1> DEFINE e == held[s]
<1>a. /\ pc \in [Slots -> Steps] /\ run \in [Ids -> RunStatus]
      /\ starts \in [Ids -> Nat] /\ outcome \in [Ids -> Outcomes \cup {"none"}]
      /\ jobState \in [Ids -> JobState]
      /\ pc[s] # "idle" => e \in Ids /\ jobState[e] # "absent"
  BY DEF IInv, TypeInv, TypeOK, Referenced
<1>b. /\ BegunIsOpened /\ OneOwner /\ OwnersTurn /\ AtMostOnce
  BY DEF IInv
<1>1. ASSUME NEW j \in Ids, Take(s, j) PROVE [Ledger!Next]_(Ledger!vars)
  BY <1>1, JobMoves DEF Take, JobState
<1>2. CASE FindRun(s) \/ LoadWorkflow(s) \/ Fault(s)
  BY <1>2 DEF FindRun, LoadWorkflow, Fault, Ledger!vars
<1>3. ASSUME CreateRun(s) \/ CreateInvalidRun(s)
      PROVE  [Ledger!Next]_(Ledger!vars)
  <2>1. CASE ~CanCreate(e)
    BY <1>3, <2>1 DEF CreateRun, CreateInvalidRun, Ledger!vars
  <2>2. CASE CanCreate(e)
    <3>1. e \in Ids /\ jobState[e] # "absent"
      BY <1>3, <1>a DEF CreateRun, CreateInvalidRun
    <3>2. ~Opened(e)
      BY <2>2 DEF CanCreate, Opened
    <3>3. starts[e] = 0 /\ outcome[e] = "none"
      BY <1>a, <1>b, <3>1, <3>2 DEF BegunIsOpened
    <3>4. Ledger!Open(e) \/ Ledger!Refuse(e)
      BY <1>3, <2>2, <3>1, <3>3
         DEF CreateRun, CreateInvalidRun, CanCreate, Ledger!Open,
             Ledger!Refuse, Ledger!Untouched
    <3> QED
      BY <3>1, <3>4 DEF Ledger!Next
  <2> QED
    BY <2>1, <2>2
<1>4. CASE BeginPipeline(s)
  <2>1. e \in Ids /\ jobState[e] # "absent" /\ starts[e] = 0 /\ outcome[e] = "none"
    BY <1>4, <1>a, <1>b DEF BeginPipeline, OwnersTurn
  <2>2. starts' = [starts EXCEPT ![e] = 1] /\ UNCHANGED <<jobState, outcome, run>>
    BY <1>4, <1>a, <2>1 DEF BeginPipeline
  <2>3. Ledger!Perform(e)
    BY <2>1, <2>2 DEF Ledger!Perform
  <2> QED
    BY <2>1, <2>3 DEF Ledger!Next
<1>5. ASSUME NEW r \in Outcomes, EndPipeline(s, r)
      PROVE  [Ledger!Next]_(Ledger!vars)
  <2>1. e \in Ids /\ outcome[e] = "none"
    BY <1>5, <1>a, <1>b DEF EndPipeline, OwnersTurn
  <2>2. starts[e] = 1
    BY <1>5, <1>b DEF EndPipeline, OwnersTurn
  <2>3. Ledger!Conclude(e, r)
    BY <1>5, <2>1, <2>2 DEF EndPipeline, Ledger!Conclude
  <2> QED
    BY <2>1, <2>3 DEF Ledger!Next, Ledger!Verdicts, Outcomes
<1>6. CASE UpdateRun(s)
  <2>1. e \in Ids /\ outcome[e] = result[s] /\ outcome[e] # "none"
    BY <1>6, <1>a, <1>b DEF UpdateRun, OwnersTurn, Outcomes
  <2>2. CASE run[e] = "none"
    BY <1>6, <1>a, <2>1, <2>2 DEF UpdateRun, SetRun, Ledger!vars
  <2>3. CASE run[e] # "none"
    <3>1. Ledger!Publish(e)
      BY <1>6, <1>a, <2>1, <2>3 DEF UpdateRun, SetRun, Ledger!Publish
    <3> QED
      BY <2>1, <3>1 DEF Ledger!Next
  <2> QED
    BY <2>2, <2>3
<1>7. CASE CreateDeadLetter(s) \/ RecordAudit(s) \/ Crash(s)
  BY <1>7 DEF CreateDeadLetter, RecordAudit, Crash, Ledger!vars
<1>8. CASE Finish(s)
  BY <1>8, <1>a, JobMoves DEF Finish, JobState
<1> QED
  BY <1>1, <1>2, <1>3, <1>4, <1>5, <1>6, <1>7, <1>8 DEF SlotStep

LEMMA LedgerLocks ==
    ASSUME IInv, NEW e \in Ids, LockStep(e)
    PROVE  [Ledger!Next]_(Ledger!vars)
<1> USE DEF rowVars, historyVars, jobVars
<1>1. CASE DeadLockExpires(e) \/ LiveLockExpires(e)
  BY <1>1 DEF DeadLockExpires, LiveLockExpires, Ledger!vars
<1>2. CASE MoveStalled(e)
  BY <1>2, JobMoves DEF MoveStalled, JobState
<1> QED
  BY <1>1, <1>2 DEF LockStep

\* Everything the queue, the workers and the retry route do amounts to the
\* ledger's promise: at most one performance, one verdict, reported or forgotten.
THEOREM ImplementsLedger == Spec => LedgerSpec
<1>1. IInv /\ [Next]_vars => [Ledger!Next]_(Ledger!vars)
  <2> SUFFICES ASSUME IInv, [Next]_vars PROVE [Ledger!Next]_(Ledger!vars)
    OBVIOUS
  <2>1. CASE Next
    BY <2>1, LedgerRequests, LedgerWorkflows, LedgerSlots, LedgerLocks DEF Next
  <2>2. CASE UNCHANGED vars
    BY <2>2 DEF vars, Ledger!vars
  <2> QED
    BY <2>1, <2>2
<1> QED
  BY <1>1, LedgerInit, Inductive, PTL DEF Spec, LedgerSpec, Ledger!Spec
=============================================================================
