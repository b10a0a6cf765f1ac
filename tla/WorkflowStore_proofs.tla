----------------------- MODULE WorkflowStore_proofs -----------------------
(***************************************************************************)
(* Theorems about WorkflowStore, for any numbers of workflows, handlers,   *)
(* graphs and mishaps.                                                     *)
(*                                                                         *)
(* The argument.  One transaction holds a workflow's row at a time, and    *)
(* one handler creates it, so a transaction that did not begin beside the  *)
(* creation is alone with the workflow's rows: what it sees of them        *)
(* follows Script call by call, and so does what an undisturbed creation   *)
(* sees.  At the end of Script the rows are the projection of the graph.   *)
(***************************************************************************)
EXTENDS WorkflowStore, TLAPS

\* What a handler has in its hands, by where it stands.
HandlerOK(h) ==
    /\ pc[h] \in {"create", "save", "update", "active", "paused", "delete"} => target[h] \in Workflows
    /\ pc[h] \in {"create", "save", "update"} => saving[h] \in Graphs
    /\ pc[h] \notin {"create", "update"} => call[h] = 1
    /\ pc[h] # "update" => gone[h] = {} /\ fresh[h] = {} /\ h \notin beside
    /\ call[h] > 5 => secret[h] \in Secrets
    /\ \A r \in gone[h] \cup fresh[h] : r.workflow = target[h]
    /\ pc[h] = "update" => Exists(target[h])
    /\ pc[h] = "create" => status[target[h]] # "none"

\* Nothing of a table is inserted before its turn, and no endpoint deleted.
InTurn(h) ==
    /\ \A r \in fresh[h] :
          /\ r.table = "trigger" => call[h] > 2
          /\ r.table = "action" => call[h] > 4
          /\ r.table = "endpoint" => call[h] > 7 /\ r.secret \in Secrets
    /\ \A r \in gone[h] : r.table = "endpoint" => call[h] > 6

\* One creates a workflow, one holds its row, and who does both at once is noted.
Alone ==
    \A h, o \in Handlers :
        h # o /\ target[h] = target[o] =>
            /\ ~(pc[h] = "create" /\ pc[o] = "create")
            /\ ~(pc[h] = "update" /\ pc[o] = "update")
            /\ pc[h] = "update" /\ pc[o] = "create" => h \in beside

SameSlug(r, q) == r.table = "endpoint" /\ q.table = "endpoint" /\ r.slug = q.slug

\* No two endpoints that may come to stand side by side have one slug.
Apart ==
    /\ \A h \in Handlers : \A r, q \in fresh[h] : SameSlug(r, q) => r = q
    /\ \A h \in Handlers : \A r \in fresh[h], q \in rows \ gone[h] : ~SameSlug(r, q)
    /\ \A h, o \in Handlers : h # o => \A r \in fresh[h], q \in fresh[o] : ~SameSlug(r, q)

\* What a handler sees of its workflow's rows, by its place in Script.
Follows(h) ==
    /\ call[h] = 2 => Its(h, "trigger") = {}
    /\ call[h] > 2 => Its(h, "trigger") = TriggerRows(target[h], saving[h])
    /\ call[h] = 4 => Its(h, "action") = {}
    /\ call[h] > 4 => Its(h, "action") = ActionRows(target[h], saving[h])
    /\ call[h] = 7 => Its(h, "endpoint") = {}
    /\ call[h] > 7 => Its(h, "endpoint") = EndpointRows(target[h], saving[h], secret[h])

Progress(h) ==
    /\ pc[h] = "update" /\ h \notin beside => Follows(h)
    /\ pc[h] = "create" /\ Exists(target[h]) /\ target[h] \notin torn =>
          Follows(h) /\ graph[target[h]] = saving[h]

\* The secret a handler goes on with is that of the endpoints there are.
SecretFound(h) ==
    pc[h] = "update" /\ h \notin beside /\ target[h] \notin torn /\ call[h] > 5 =>
        \A r \in RowsOf(target[h]) :
            r.table = "endpoint" /\ r.key = saving[h].key => r.secret = secret[h]

Shape ==
    /\ TypeOK
    /\ \A r \in rows : r.table = "endpoint" => r.secret \in Secrets
    /\ \A h \in Handlers : HandlerOK(h) /\ InTurn(h)

IInv ==
    /\ Shape /\ Alone /\ Apart /\ ProjectionAgrees
    /\ \A h \in Handlers : Progress(h) /\ SecretFound(h)

Step(h) == Ask(h) \/ Handle(h) \/ Fault(h)
-----------------------------------------------------------------------------
USE GraphAssumption, BoundAssumption

LEMMA ScriptCalls ==
    /\ Len(Script) = 7 /\ DOMAIN Script = 1 .. 7
    /\ Script[1] = [does |-> "delete", table |-> "trigger"]
    /\ Script[2] = [does |-> "insert", table |-> "trigger"]
    /\ Script[3] = [does |-> "delete", table |-> "action"]
    /\ Script[4] = [does |-> "insert", table |-> "action"]
    /\ Script[5] = [does |-> "find",   table |-> "endpoint"]
    /\ Script[6] = [does |-> "delete", table |-> "endpoint"]
    /\ Script[7] = [does |-> "insert", table |-> "endpoint"]
  BY DEF Script

\* Which calls delete, find and insert, and in which table.
LEMMA CallsAre ==
    ASSUME TypeOK, NEW h \in Handlers
    PROVE  /\ Calls(h, "delete") => \/ call[h] = 1 /\ Table(h) = "trigger"
                                    \/ call[h] = 3 /\ Table(h) = "action"
                                    \/ call[h] = 6 /\ Table(h) = "endpoint"
           /\ Calls(h, "insert") => \/ call[h] = 2 /\ Table(h) = "trigger"
                                    \/ call[h] = 4 /\ Table(h) = "action"
                                    \/ call[h] = 7 /\ Table(h) = "endpoint"
           /\ Calls(h, "find") => call[h] = 5
           /\ \A d \in {"delete", "insert", "find"} : Calls(h, d) => pc[h] \in {"create", "update"}
           /\ Synced(h) <=> call[h] = 8
           /\ call[h] \in 1 .. 8
<1>1. call[h] \in 1 .. 8
  BY ScriptCalls DEF TypeOK
<1>2. Synced(h) <=> call[h] = 8
  BY ScriptCalls DEF Synced
<1>3. \A d \in {"delete", "insert", "find"} : Calls(h, d) =>
         /\ pc[h] \in {"create", "update"}
         /\ call[h] \in 1 .. 7 /\ Script[call[h]].does = d
  BY ScriptCalls DEF Calls
<1>4. call[h] \in {1, 2, 3, 4, 5, 6, 7, 8}
  BY <1>1
<1> QED
  BY <1>1, <1>2, <1>3, <1>4, ScriptCalls DEF Table

LEMMA RowsAre ==
    ASSUME NEW w \in Workflows, NEW g \in Graphs, NEW s \in Secrets \cup {None}
    PROVE  /\ TriggerRows(w, g) \subseteq Row /\ ActionRows(w, g) \subseteq Row
           /\ EndpointRows(w, g, s) \subseteq Row
           /\ \A r \in TriggerRows(w, g) : r.table = "trigger" /\ r.workflow = w
           /\ \A r \in ActionRows(w, g) : r.table = "action" /\ r.workflow = w
           /\ \A r \in EndpointRows(w, g, s) :
                 r.table = "endpoint" /\ r.workflow = w /\ r.key = g.key /\ r.slug = g.slug
                 /\ r.slug # None /\ r.secret = s
           /\ TriggerRows(w, g) # {}
           /\ \A r, q \in EndpointRows(w, g, s) : r = q
<1>1. g.key \in Keys /\ g.slug \in Slugs /\ g.rest \in Rests
  BY DEF Keys, Slugs, Rests
<1>2. TriggerRows(w, g) \subseteq Row /\ ActionRows(w, g) \subseteq Row /\ EndpointRows(w, g, s) \subseteq Row
  BY <1>1 DEF TriggerRows, ActionRows, EndpointRows, RowOf, Row, Tables
<1> QED
  BY <1>2 DEF TriggerRows, ActionRows, EndpointRows, RowOf

\* What an insert adds, by its table.
LEMMA DerivedIs ==
    ASSUME NEW h, target[h] \in Workflows, saving[h] \in Graphs, secret[h] \in Secrets \cup {None}
    PROVE  /\ Table(h) = "trigger" => Derived(h) = TriggerRows(target[h], saving[h])
           /\ Table(h) = "action" => Derived(h) = ActionRows(target[h], saving[h])
           /\ Table(h) = "endpoint" => Derived(h) = EndpointRows(target[h], saving[h], secret[h])
  BY RowsAre DEF Derived, Projection

LEMMA NoClash ==
    ASSUME NEW R, NEW Q, ~Clash(R, Q)
    PROVE  \A r \in R, q \in Q : ~SameSlug(r, q)
  BY DEF Clash, Unique, SameSlug

LEMMA InitInv == Init => IInv
<1> SUFFICES ASSUME Init PROVE IInv
  OBVIOUS
<1> DEFINE P(w) == Projection(w, graph[w], w)
<1>1. \A w \in Workflows : Exists(w) <=> graph[w] # None
  BY DEF Init, Exists
<1>2. rows = UNION {P(w) : w \in {v \in Workflows : graph[v] # None}}
  BY DEF Init
<1>3. ASSUME NEW w \in Workflows, graph[w] # None
      PROVE  /\ P(w) \subseteq Row
             /\ \A r \in P(w) : r.workflow = w
             /\ \A r \in P(w) : r.table = "endpoint" =>
                   r.slug = graph[w].slug /\ r.slug # None /\ r.secret = w
             /\ \A r, q \in P(w) : SameSlug(r, q) => r = q
  <2>1. graph[w] \in Graphs /\ w \in Secrets \cup {None}
    BY <1>3 DEF Init, Secrets
  <2> QED
    BY <2>1, RowsAre DEF Projection, SameSlug
<1>4. \A w \in Workflows : RowsOf(w) = IF graph[w] # None THEN P(w) ELSE {}
  <2>1. SUFFICES ASSUME NEW w \in Workflows
                 PROVE  RowsOf(w) = IF graph[w] # None THEN P(w) ELSE {}
    OBVIOUS
  <2>2. ASSUME NEW r \in rows PROVE \E v \in Workflows : graph[v] # None /\ r \in P(v) /\ r.workflow = v
    BY <1>2, <1>3
  <2>3. CASE graph[w] = None
    BY <2>2, <2>3 DEF RowsOf
  <2>4. CASE graph[w] # None
    <3>1. P(w) \subseteq rows
      BY <1>2, <2>4
    <3> QED
      BY <1>3, <2>2, <2>4, <3>1 DEF RowsOf
  <2> QED
    BY <2>3, <2>4
<1>5. \A r, q \in rows : SameSlug(r, q) => r = q
  <2>1. SUFFICES ASSUME NEW w \in Workflows, NEW v \in Workflows, graph[w] # None, graph[v] # None,
                        NEW r \in P(w), NEW q \in P(v), SameSlug(r, q)
                 PROVE  r = q
    BY <1>2
  <2>2. w = v
    BY <1>3, <2>1 DEF Init, SameSlug
  <2> QED
    BY <1>3, <2>1, <2>2
<1>6. rows \subseteq Row /\ \A r \in rows : r.table = "endpoint" => r.secret \in Secrets
  BY <1>2, <1>3 DEF Secrets
<1>7. TypeOK
  BY <1>1, <1>5, <1>6, ScriptCalls DEF Init, TypeOK, Statuses, SameSlug
<1>8. ProjectionAgrees
  BY <1>1, <1>4 DEF ProjectionAgrees, Secrets
<1>9. Shape
  BY <1>6, <1>7 DEF Init, Shape, HandlerOK, InTurn
<1>10. Alone /\ Apart
  BY DEF Init, Alone, Apart
<1>11. \A h \in Handlers : Progress(h) /\ SecretFound(h)
  BY DEF Init, Progress, SecretFound
<1> QED
  BY <1>8, <1>9, <1>10, <1>11 DEF IInv
-----------------------------------------------------------------------------
\* A step is of one handler: nothing in the hands of the others changes ...
LEMMA Frame ==
    ASSUME TypeOK, NEW h \in Handlers, Step(h), NEW o \in Handlers, o # h
    PROVE  /\ pc'[o] = pc[o] /\ call'[o] = call[o]
           /\ target'[o] = target[o] /\ saving'[o] = saving[o] /\ secret'[o] = secret[o]
           /\ gone'[o] = gone[o] /\ fresh'[o] = fresh[o]
           /\ o \in beside' <=> o \in beside
<1> USE DEF TypeOK, localVars, requestVars, Goto
<1>1. CASE Ask(h)
  BY <1>1 DEF Ask, CreateWorkflow, UpdateWorkflow, SetWorkflowStatus, DeleteWorkflow, Begin
<1>2. CASE Fault(h)
  BY <1>2 DEF Fault, Throw, Leave
<1>3. CASE DeleteMany(h) \/ FindEndpoints(h) \/ CreateMany(h)
  BY <1>3 DEF DeleteMany, FindEndpoints, CreateMany, Advance, Throw, Leave
<1>4. CASE Created(h) \/ BeginTransaction(h) \/ Commit(h) \/ UpdateStatus(h) \/ DeleteRow(h)
  BY <1>4 DEF Created, BeginTransaction, Commit, UpdateStatus, DeleteRow, Throw, Leave
<1> QED
  BY <1>1, <1>2, <1>3, <1>4 DEF Step, Handle, Sync

\* The handler's step may write this workflow's row or the rows of its projection.
Touches(h, w) ==
    \/ status[w] = "none"
    \/ target[h] = w /\ pc[h] = "create"
    \/ target[h] = w /\ pc[h] = "update" /\ Commit(h)
    \/ target[h] = w /\ DeleteRow(h) /\ status'[w] = "deleted"

\* ... and no other workflow.
LEMMA Elsewhere ==
    ASSUME Shape, NEW h \in Handlers, Step(h), NEW w \in Workflows, ~Touches(h, w)
    PROVE  /\ RowsOf(w)' = RowsOf(w) /\ graph'[w] = graph[w]
           /\ Exists(w)' <=> Exists(w)
           /\ status'[w] # "none"
           /\ w \in torn => w \in torn'
<1> USE DEF Shape, TypeOK, localVars, requestVars, workflowVars, Goto, Touches
<1>1. CASE Ask(h)
  BY <1>1 DEF Ask, CreateWorkflow, UpdateWorkflow, SetWorkflowStatus, DeleteWorkflow, Begin, RowsOf, Exists
<1>2. CASE Fault(h)
  BY <1>2 DEF Fault, Throw, Leave, RowsOf, Exists
<1>3. CASE DeleteMany(h)
  BY <1>3 DEF DeleteMany, InTransaction, Calls, Its, RowsOf, Exists
<1>4. CASE FindEndpoints(h)
  BY <1>4 DEF FindEndpoints, RowsOf, Exists
<1>5. CASE CreateMany(h)
  <2>1. CASE Rejected(h) /\ Throw(h)
    BY <2>1 DEF Throw, RowsOf, Exists
  <2>2. CASE ~(Rejected(h) /\ Throw(h))
    <3>1. /\ IF InTransaction(h) THEN UNCHANGED rows ELSE rows' = rows \cup Derived(h)
          /\ UNCHANGED <<workflowVars, torn>>
          /\ Calls(h, "insert")
      BY <1>5, <2>2 DEF CreateMany
    <3>2. \A r \in Derived(h) : r.workflow = target[h]
      BY DEF Derived, Projection, TriggerRows, ActionRows, EndpointRows, RowOf
    <3> QED
      BY <3>1, <3>2 DEF InTransaction, Calls, RowsOf, Exists
  <2> QED
    BY <2>1, <2>2
<1>6. CASE Created(h) \/ BeginTransaction(h)
  BY <1>6 DEF Created, BeginTransaction, Throw, Leave, RowsOf, Exists
<1>7. CASE Commit(h)
  <2>1. target[h] # w /\ target[h] \in Workflows
    BY <1>7 DEF Commit, HandlerOK
  <2>2. \A r \in gone[h] \cup fresh[h] : r.workflow # w
    BY <2>1 DEF HandlerOK
  <2> QED
    BY <1>7, <2>1, <2>2 DEF Commit, RowsOf, Exists
<1>8. CASE UpdateStatus(h)
  BY <1>8 DEF UpdateStatus, Throw, Leave, RowsOf, Exists
<1>9. CASE DeleteRow(h)
  BY <1>9 DEF DeleteRow, Throw, Leave, Cascade, RowsOf, Exists
<1> QED
  BY <1>1, <1>2, <1>3, <1>4, <1>5, <1>6, <1>7, <1>8, <1>9 DEF Step, Handle, Sync

LEMMA CreatorsWriteRows ==
    ASSUME TypeOK, NEW h \in Handlers, Step(h), pc[h] = "create"
    PROVE  UNCHANGED workflowVars
<1> USE DEF workflowVars
<1>1. CASE Ask(h)
  BY <1>1 DEF Ask, CreateWorkflow, UpdateWorkflow, SetWorkflowStatus, DeleteWorkflow, Begin
<1>2. CASE Fault(h)
  BY <1>2 DEF Fault, Throw
<1>3. CASE Handle(h)
  BY <1>3 DEF Handle, Sync, DeleteMany, FindEndpoints, CreateMany, Created, BeginTransaction, Commit,
              UpdateStatus, DeleteRow, Throw
<1> QED
  BY <1>1, <1>2, <1>3 DEF Step

\* What a handler knows survives the steps of the others.
LEMMA OthersGoOn ==
    ASSUME IInv, NEW h \in Handlers, Step(h), NEW o \in Handlers, o # h
    PROVE  HandlerOK(o)' /\ InTurn(o)' /\ Progress(o)' /\ SecretFound(o)'
<1>0. Shape /\ TypeOK /\ HandlerOK(o) /\ HandlerOK(h) /\ InTurn(o)
  BY DEF IInv, Shape
<1>1. /\ pc'[o] = pc[o] /\ call'[o] = call[o]
      /\ target'[o] = target[o] /\ saving'[o] = saving[o] /\ secret'[o] = secret[o]
      /\ gone'[o] = gone[o] /\ fresh'[o] = fresh[o]
      /\ o \in beside' <=> o \in beside
  BY <1>0, Frame
<1>2. InTurn(o)'
  BY <1>0, <1>1 DEF InTurn
<1>3. CASE pc[o] \notin {"update", "create"}
  BY <1>0, <1>1, <1>2, <1>3 DEF HandlerOK, Progress, SecretFound
<1>4. ASSUME pc[o] \in {"update", "create"}, NEW w \in Workflows, w = target[o], ~Touches(h, w)
      PROVE  HandlerOK(o)' /\ Progress(o)' /\ SecretFound(o)'
  <2>1. /\ RowsOf(w)' = RowsOf(w) /\ graph'[w] = graph[w]
        /\ Exists(w)' <=> Exists(w)
        /\ status'[w] # "none"
        /\ w \in torn => w \in torn'
    BY <1>0, <1>4, Elsewhere
  <2>2. \A t : Its(o, t)' = Its(o, t)
    BY <1>1, <1>4, <2>1 DEF Its, Seen, RowsOf
  <2>3. Follows(o)' <=> Follows(o)
    BY <1>1, <2>2 DEF Follows
  <2>4. HandlerOK(o)'
    BY <1>0, <1>1, <1>4, <2>1 DEF HandlerOK, Exists
  <2>5. Progress(o)'
    BY <1>1, <1>4, <2>1, <2>3 DEF IInv, Progress, Exists
  <2>6. SecretFound(o)'
    <3>1. \A r \in RowsOf(target[o])' : r \in RowsOf(target[o])
      BY <1>1, <1>4, <2>1 DEF RowsOf
    <3> QED
      BY <1>1, <1>4, <2>1, <3>1 DEF IInv, SecretFound
  <2> QED
    BY <2>4, <2>5, <2>6
<1>5. ASSUME pc[o] \in {"update", "create"}, NEW w \in Workflows, w = target[o], Touches(h, w)
      PROVE  HandlerOK(o)' /\ Progress(o)' /\ SecretFound(o)'
  <2>1. status[w] # "none" /\ (pc[o] = "update" => Exists(w))
    BY <1>0, <1>5 DEF HandlerOK, Exists
  <2>2. CASE pc[h] = "create" /\ target[h] = w
    <3>1. pc[o] = "update" /\ o \in beside
      BY <1>5, <2>2 DEF IInv, Alone
    <3>2. UNCHANGED status
      BY <1>0, <2>2, CreatorsWriteRows DEF workflowVars
    <3> QED
      BY <1>0, <1>1, <1>5, <2>1, <3>1, <3>2 DEF HandlerOK, Progress, SecretFound, Exists
  <2>3. CASE pc[h] = "update" /\ target[h] = w /\ Commit(h)
    <3>1. pc[o] = "create" /\ h \in beside
      BY <1>5, <2>3 DEF IInv, Alone
    <3>2. UNCHANGED status /\ w \in torn'
      BY <2>3, <3>1 DEF Commit
    <3> QED
      BY <1>0, <1>1, <1>5, <2>1, <3>1, <3>2 DEF HandlerOK, Progress, SecretFound, Exists
  <2>4. CASE target[h] = w /\ DeleteRow(h) /\ status'[w] = "deleted"
    <3>1. pc[o] # "update"
      BY <1>5, <2>4 DEF DeleteRow, FreeToBegin, Holding
    <3> QED
      BY <1>0, <1>1, <1>5, <2>4, <3>1 DEF HandlerOK, Progress, SecretFound, Exists
  <2> QED
    BY <1>5, <2>1, <2>2, <2>3, <2>4 DEF Touches
<1> QED
  BY <1>0, <1>2, <1>3, <1>4, <1>5 DEF HandlerOK
-----------------------------------------------------------------------------
EndpointsHaveSecrets == \A r \in rows : r.table = "endpoint" => r.secret \in Secrets

\* What the step of a handler has to keep, beside what the others know.
Kept(h) ==
    /\ TypeOK /\ EndpointsHaveSecrets /\ Alone /\ Apart /\ ProjectionAgrees
    /\ HandlerOK(h) /\ InTurn(h) /\ Progress(h) /\ SecretFound(h)

LEMMA IsKept ==
    ASSUME IInv, NEW h \in Handlers PROVE Kept(h)
  BY DEF IInv, Shape, Kept, EndpointsHaveSecrets

Agrees(w) ==
    /\ ~Exists(w) => RowsOf(w) = {}
    /\ Exists(w) /\ Creating(w) = {} /\ w \notin torn =>
           \E s \in Secrets : RowsOf(w) = Projection(w, graph[w], s)

LEMMA AgreesElsewhere ==
    ASSUME IInv, NEW h \in Handlers, Step(h), NEW w \in Workflows, ~Touches(h, w)
    PROVE  Agrees(w)'
<1>1. Shape /\ TypeOK /\ Agrees(w)
  BY DEF IInv, Shape, ProjectionAgrees, Agrees
<1>2. /\ RowsOf(w)' = RowsOf(w) /\ graph'[w] = graph[w]
      /\ Exists(w)' <=> Exists(w)
      /\ w \in torn => w \in torn'
  BY <1>1, Elsewhere
<1>3. \A o \in Handlers : o # h => target'[o] = target[o] /\ pc'[o] = pc[o]
  BY <1>1, Frame
<1>4. ~(target[h] = w /\ pc[h] = "create")
  BY DEF Touches
<1>5. Creating(w)' = {} => Creating(w) = {}
  BY <1>3, <1>4 DEF Creating
<1> QED
  BY <1>1, <1>2, <1>5 DEF Agrees

\* So it is enough to look at the workflows a step touches.
LEMMA AgreesIf ==
    ASSUME IInv, NEW h \in Handlers, Step(h),
           \A w \in Workflows : Touches(h, w) => Agrees(w)'
    PROVE  ProjectionAgrees'
<1>1. \A w \in Workflows : Agrees(w)'
  BY AgreesElsewhere
<1> QED
  BY <1>1 DEF ProjectionAgrees, Agrees

LEMMA NoneIsNone ==
    ASSUME IInv, NEW h \in Handlers, NEW w \in Workflows, status[w] = "none"
    PROVE  /\ RowsOf(w) = {} /\ ~Exists(w)
           /\ ~(pc[h] \in {"create", "update"} /\ target[h] = w)
  BY DEF IInv, Shape, ProjectionAgrees, Exists, HandlerOK

\* A step that neither begins nor ends a creation or a transaction.
LEMMA AloneKept ==
    ASSUME TypeOK, Alone, NEW h \in Handlers, Step(h),
           \/ pc'[h] \notin {"create", "update"}
           \/ pc'[h] = pc[h] /\ target'[h] = target[h] /\ (h \in beside => h \in beside')
    PROVE  Alone'
<1>1. \A o \in Handlers : o # h =>
         pc'[o] = pc[o] /\ target'[o] = target[o] /\ (o \in beside' <=> o \in beside)
  BY Frame
<1> QED
  BY <1>1 DEF Alone

LEMMA LeaveOwn ==
    ASSUME Shape, Alone, NEW h \in Handlers, Step(h), Leave(h)
    PROVE  /\ Alone'
           /\ HandlerOK(h)' /\ InTurn(h)' /\ Progress(h)' /\ SecretFound(h)'
           /\ pc'[h] = "done" /\ target'[h] = None
           /\ gone'[h] = {} /\ fresh'[h] = {}
<1>1. /\ pc'[h] = "done" /\ target'[h] = None /\ call'[h] = 1
      /\ gone'[h] = {} /\ fresh'[h] = {} /\ h \notin beside'
  BY DEF Leave, Goto, Shape, TypeOK
<1>2. Alone'
  BY <1>1, AloneKept DEF Shape
<1> QED
  BY <1>1, <1>2 DEF HandlerOK, InTurn, Progress, SecretFound

\* A transaction that ends without a row, or none at all, parts nothing.
LEMMA ApartKept ==
    ASSUME Shape, Apart, NEW h \in Handlers, Step(h), rows' \subseteq rows,
           fresh'[h] \subseteq fresh[h], fresh'[h] # {} => gone[h] \subseteq gone'[h]
    PROVE  Apart'
<1>1. \A o \in Handlers : o # h => fresh'[o] = fresh[o] /\ gone'[o] = gone[o]
  BY Frame DEF Shape
<1> QED
  BY <1>1 DEF Apart

LEMMA Throws ==
    ASSUME IInv, NEW h \in Handlers, Step(h), Throw(h), mishaps' \in 0 .. MaxMishaps,
           pc[h] \notin {"idle", "done"}
    PROVE  Kept(h)'
<1>1. Leave(h) /\ UNCHANGED <<status, graph, version, rows>>
  BY DEF Throw, workflowVars
<1>2. TypeOK'
  BY <1>1, ScriptCalls DEF IInv, Shape, HandlerOK, TypeOK, Throw, Leave, Goto, Exists, RowsOf
<1>3. EndpointsHaveSecrets'
  BY <1>1 DEF IInv, Shape, EndpointsHaveSecrets
<1>4. /\ Alone' /\ HandlerOK(h)' /\ InTurn(h)' /\ Progress(h)' /\ SecretFound(h)'
      /\ gone'[h] = {} /\ fresh'[h] = {} /\ pc'[h] = "done"
  BY <1>1, LeaveOwn DEF IInv
<1>5. Apart'
  BY <1>1, <1>4, ApartKept DEF IInv
<1>6. ASSUME NEW w \in Workflows, Touches(h, w) PROVE Agrees(w)'
  <2>1. CASE status[w] = "none"
    BY <1>1, <2>1, NoneIsNone DEF Agrees, Exists, RowsOf
  <2>2. CASE status[w] # "none" /\ target[h] = w /\ pc[h] = "create"
    BY <1>1, <2>2 DEF IInv, ProjectionAgrees, Agrees, Throw, Exists, RowsOf
  <2>3. CASE status[w] # "none" /\ pc[h] # "create"
    <3>1. ~Commit(h) \/ target[h] # w
      <4>1. version[w] + 1 # version[w] /\ w \in DOMAIN version
        BY DEF IInv, Shape, TypeOK
      <4> QED
        BY <1>1, <4>1 DEF Commit, GraphChanged
    <3>2. ~Exists(w)
      BY <1>1, <1>6, <2>3, <3>1 DEF Touches, Exists
    <3> QED
      BY <1>1, <3>2 DEF IInv, ProjectionAgrees, Agrees, Exists, RowsOf
  <2> QED
    BY <1>6, <2>1, <2>2, <2>3 DEF Touches
<1>7. ProjectionAgrees'
  BY <1>6, AgreesIf
<1> QED
  BY <1>2, <1>3, <1>4, <1>5, <1>7 DEF Kept

LEMMA Asks ==
    ASSUME IInv, NEW h \in Handlers, Ask(h) PROVE Kept(h)'
<1>0. Step(h) /\ Shape /\ TypeOK /\ HandlerOK(h)
  BY DEF Step, IInv, Shape
<1>1. ASSUME NEW w \in Workflows, NEW g \in Graphs \cup {None},
             NEW l \in {"save", "active", "paused", "delete"}, l = "save" => g \in Graphs,
             Begin(h, w, g, l)
      PROVE  Kept(h)'
  <2>1. UNCHANGED <<workflowVars, rows, call, secret, gone, fresh, beside, torn, mishaps>>
    BY <1>1 DEF Begin
  <2>2. TypeOK'
    BY <1>0, <1>1, <2>1 DEF TypeOK, Begin, Goto, Exists, workflowVars
  <2>3. EndpointsHaveSecrets'
    BY <2>1 DEF IInv, Shape, EndpointsHaveSecrets
  <2>4. pc'[h] = l /\ target'[h] = w /\ saving'[h] = g /\ pc[h] = "idle"
    BY <1>0, <1>1 DEF TypeOK, Begin, Goto
  <2>5. Alone'
    BY <1>0, <2>4, AloneKept DEF IInv
  <2>6. Apart'
    BY <1>0, <2>1, ApartKept DEF IInv
  <2>7. HandlerOK(h)' /\ InTurn(h)' /\ Progress(h)' /\ SecretFound(h)'
    BY <1>0, <1>1, <2>1, <2>4 DEF HandlerOK, InTurn, Progress, SecretFound
  <2>8. ASSUME NEW v \in Workflows, Touches(h, v) PROVE Agrees(v)'
    BY <2>1, <2>4, <2>8, NoneIsNone DEF Touches, Agrees, Exists, RowsOf, DeleteRow, workflowVars
  <2>9. ProjectionAgrees'
    BY <1>0, <2>8, AgreesIf
  <2> QED
    BY <2>2, <2>3, <2>5, <2>6, <2>7, <2>9 DEF Kept
<1>2. ASSUME NEW w \in Workflows, NEW g \in Graphs, CreateWorkflow(h, w, g)
      PROVE  Kept(h)'
  <2>1. /\ UNCHANGED <<version, rows, call, read, secret, gone, fresh, beside, torn, mishaps>>
        /\ pc[h] = "idle" /\ status[w] = "none"
    BY <1>2 DEF CreateWorkflow
  <2>2. /\ pc'[h] = "create" /\ target'[h] = w /\ saving'[h] = g
        /\ status'[w] = "draft" /\ graph'[w] = g
    BY <1>0, <1>2 DEF TypeOK, CreateWorkflow, Goto
  <2>3. TypeOK'
    BY <1>0, <1>2, <2>1 DEF TypeOK, CreateWorkflow, Goto, Exists, Statuses
  <2>4. EndpointsHaveSecrets'
    BY <2>1 DEF IInv, Shape, EndpointsHaveSecrets
  <2>5. Alone'
    <3>1. \A o \in Handlers : o # h =>
             /\ pc'[o] = pc[o] /\ target'[o] = target[o] /\ (o \in beside' <=> o \in beside)
             /\ ~(pc[o] \in {"create", "update"} /\ target[o] = w)
      BY <1>0, <2>1, Frame, NoneIsNone
    <3> QED
      BY <2>2, <3>1 DEF IInv, Alone
  <2>6. Apart'
    BY <1>0, <2>1, ApartKept DEF IInv
  <2>7. HandlerOK(h)' /\ InTurn(h)' /\ SecretFound(h)'
    BY <1>0, <2>1, <2>2 DEF HandlerOK, InTurn, SecretFound, IInv, Shape
  <2>8. Progress(h)'
    BY <1>0, <2>1, <2>2 DEF HandlerOK, Progress, Follows
  <2>9. ASSUME NEW v \in Workflows, Touches(h, v) PROVE Agrees(v)'
    <3>1. status[v] = "none"
      BY <2>1, <2>9 DEF Touches, DeleteRow
    <3>2. CASE v = w
      BY <2>2, <3>2 DEF Agrees, Exists, Creating
    <3>3. CASE v # w
      BY <1>2, <2>1, <3>1, <3>3, NoneIsNone DEF Agrees, Exists, RowsOf, CreateWorkflow
    <3> QED
      BY <3>2, <3>3
  <2>10. ProjectionAgrees'
    BY <1>0, <2>9, AgreesIf
  <2> QED
    BY <2>3, <2>4, <2>5, <2>6, <2>7, <2>8, <2>10 DEF Kept
<1> QED
  BY <1>1, <1>2 DEF Ask, UpdateWorkflow, SetWorkflowStatus, DeleteWorkflow

LEMMA Creations ==
    ASSUME IInv, NEW h \in Handlers, Created(h) PROVE Kept(h)'
<1>0. Step(h) /\ Shape /\ TypeOK /\ HandlerOK(h)
  BY DEF Step, Handle, IInv, Shape
<1>1. /\ Leave(h) /\ UNCHANGED <<status, graph, version, rows, torn, mishaps>>
      /\ pc[h] = "create" /\ Synced(h)
  BY DEF Created, workflowVars
<1>2. TypeOK'
  BY <1>0, <1>1, ScriptCalls DEF TypeOK, Leave, Goto, Exists
<1>3. EndpointsHaveSecrets'
  BY <1>1 DEF IInv, Shape, EndpointsHaveSecrets
<1>4. /\ Alone' /\ HandlerOK(h)' /\ InTurn(h)' /\ Progress(h)' /\ SecretFound(h)'
      /\ fresh'[h] = {}
  BY <1>0, <1>1, LeaveOwn DEF IInv
<1>5. Apart'
  BY <1>0, <1>1, <1>4, ApartKept DEF IInv
<1>6. ASSUME NEW w \in Workflows, Touches(h, w) PROVE Agrees(w)'
  <2>1. CASE status[w] = "none"
    BY <1>1, <2>1, NoneIsNone DEF Agrees, Exists, RowsOf
  <2>2. CASE status[w] # "none" /\ Exists(w) /\ w \notin torn
    <3>1. target[h] = w
      BY <1>6, <2>2 DEF Touches
    <3>2. Follows(h) /\ graph[w] = saving[h] /\ call[h] = 8 /\ secret[h] \in Secrets
      BY <1>0, <1>1, <2>2, <3>1, CallsAre DEF IInv, Progress, HandlerOK
    <3>3. Seen(h) = rows
      BY <1>0, <1>1 DEF Seen, HandlerOK
    <3>4. RowsOf(w) = Its(h, "trigger") \cup Its(h, "action") \cup Its(h, "endpoint")
      BY <1>0, <3>1, <3>3 DEF RowsOf, Its, TypeOK, Row, Tables
    <3>5. RowsOf(w) = Projection(w, graph[w], secret[h])
      BY <3>1, <3>2, <3>4 DEF Follows, Projection
    <3> QED
      BY <1>1, <2>2, <3>2, <3>5 DEF Agrees, Exists, RowsOf
  <2>3. CASE ~Exists(w) \/ w \in torn
    BY <1>1, <2>3 DEF IInv, ProjectionAgrees, Agrees, Exists, RowsOf
  <2> QED
    BY <2>1, <2>2, <2>3
<1>7. ProjectionAgrees'
  BY <1>0, <1>6, AgreesIf
<1> QED
  BY <1>2, <1>3, <1>4, <1>5, <1>7 DEF Kept

LEMMA StatusUpdates ==
    ASSUME IInv, NEW h \in Handlers, UpdateStatus(h) PROVE Kept(h)'
<1>0. Step(h) /\ Shape /\ TypeOK /\ HandlerOK(h)
  BY DEF Step, Handle, IInv, Shape
<1>1. CASE Throw(h)
  BY <1>0, <1>1, Throws DEF UpdateStatus, TypeOK
<1>2. CASE ~Throw(h)
  <2>1. /\ Exists(target[h]) /\ target[h] \in Workflows /\ pc[h] \in {"active", "paused"}
        /\ status' = [status EXCEPT ![target[h]] = pc[h]]
        /\ Leave(h) /\ UNCHANGED <<graph, version, rows, torn, mishaps>>
    BY <1>0, <1>2 DEF UpdateStatus, HandlerOK
  <2>2. \A w \in Workflows : /\ Exists(w)' <=> Exists(w)
                             /\ status'[w] = "none" <=> status[w] = "none"
    BY <1>0, <2>1 DEF Exists, TypeOK
  <2>3. TypeOK'
    BY <1>0, <2>1, <2>2, ScriptCalls DEF TypeOK, Leave, Goto, Statuses
  <2>4. EndpointsHaveSecrets'
    BY <2>1 DEF IInv, Shape, EndpointsHaveSecrets
  <2>5. /\ Alone' /\ HandlerOK(h)' /\ InTurn(h)' /\ Progress(h)' /\ SecretFound(h)'
        /\ fresh'[h] = {}
    BY <1>0, <2>1, LeaveOwn DEF IInv
  <2>6. Apart'
    BY <1>0, <2>1, <2>5, ApartKept DEF IInv
  <2>7. ASSUME NEW w \in Workflows, Touches(h, w) PROVE Agrees(w)'
    <3>1. status[w] = "none"
      BY <2>1, <2>7 DEF Touches, DeleteRow
    <3> QED
      BY <2>1, <2>2, <3>1, NoneIsNone DEF Agrees, RowsOf
  <2>8. ProjectionAgrees'
    BY <1>0, <2>7, AgreesIf
  <2> QED
    BY <2>3, <2>4, <2>5, <2>6, <2>8 DEF Kept
<1> QED
  BY <1>1, <1>2

LEMMA Deletions ==
    ASSUME IInv, NEW h \in Handlers, DeleteRow(h) PROVE Kept(h)'
<1>0. Step(h) /\ Shape /\ TypeOK /\ HandlerOK(h)
  BY DEF Step, Handle, IInv, Shape
<1>1. CASE Throw(h)
  BY <1>0, <1>1, Throws DEF DeleteRow, TypeOK
<1>2. CASE ~Throw(h)
  <2>1. /\ target[h] \in Workflows /\ pc[h] = "delete"
        /\ status' = [status EXCEPT ![target[h]] = "deleted"]
        /\ graph' = [graph EXCEPT ![target[h]] = None]
        /\ rows' = rows \ Cascade(target[h])
        /\ Leave(h) /\ UNCHANGED <<version, torn, mishaps>>
    BY <1>0, <1>2 DEF DeleteRow, HandlerOK
  <2>2. \A w \in Workflows : w # target[h] => status'[w] = status[w] /\ graph'[w] = graph[w]
    BY <1>0, <2>1 DEF TypeOK
  <2>3. status'[target[h]] = "deleted" /\ graph'[target[h]] = None
    BY <1>0, <2>1 DEF TypeOK
  <2>4. TypeOK'
    <3>1. \A w \in Workflows : Exists(w)' <=> graph'[w] # None
      BY <1>0, <2>2, <2>3 DEF Exists, TypeOK
    <3> QED
      BY <1>0, <2>1, <3>1, ScriptCalls DEF TypeOK, Leave, Goto, Statuses
  <2>5. EndpointsHaveSecrets'
    BY <2>1 DEF IInv, Shape, EndpointsHaveSecrets
  <2>6. /\ Alone' /\ HandlerOK(h)' /\ InTurn(h)' /\ Progress(h)' /\ SecretFound(h)'
        /\ fresh'[h] = {}
    BY <1>0, <2>1, LeaveOwn DEF IInv
  <2>7. Apart'
    BY <1>0, <2>1, <2>6, ApartKept DEF IInv
  <2>8. ASSUME NEW w \in Workflows, Touches(h, w) PROVE Agrees(w)'
    <3>1. CASE w = target[h]
      BY <2>1, <2>3, <3>1 DEF Agrees, Exists, RowsOf, Cascade
    <3>2. CASE w # target[h]
      BY <2>1, <2>2, <2>8, <3>2, NoneIsNone DEF Touches, Agrees, Exists, RowsOf
    <3> QED
      BY <3>1, <3>2
  <2>9. ProjectionAgrees'
    BY <1>0, <2>8, AgreesIf
  <2> QED
    BY <2>4, <2>5, <2>6, <2>7, <2>9 DEF Kept
<1> QED
  BY <1>1, <1>2

LEMMA Transactions ==
    ASSUME IInv, NEW h \in Handlers, BeginTransaction(h) PROVE Kept(h)'
<1>0. Step(h) /\ Shape /\ TypeOK /\ HandlerOK(h) /\ InTurn(h)
  BY DEF Step, Handle, IInv, Shape
<1>1. CASE Throw(h)
  BY <1>0, <1>1, Throws DEF BeginTransaction, TypeOK
<1>2. CASE ~Throw(h)
  <2>1. /\ Exists(target[h]) /\ target[h] \in Workflows /\ pc[h] = "save"
        /\ Goto(h, "update") /\ Holding(target[h]) = {}
        /\ beside' = IF Creating(target[h]) # {} THEN beside \cup {h} ELSE beside
        /\ UNCHANGED <<status, graph, version, rows, call, requestVars, secret, gone, fresh, torn, mishaps>>
    BY <1>0, <1>2 DEF BeginTransaction, HandlerOK, FreeToBegin, workflowVars
  <2>2. call[h] = 1 /\ gone[h] = {} /\ fresh[h] = {} /\ saving[h] \in Graphs
    BY <1>0, <2>1 DEF HandlerOK
  <2>3. pc'[h] = "update" /\ target'[h] = target[h] /\ saving'[h] = saving[h]
    BY <1>0, <2>1 DEF TypeOK, Goto, requestVars
  <2>4. TypeOK'
    BY <1>0, <2>1 DEF TypeOK, Goto, Exists, requestVars
  <2>5. EndpointsHaveSecrets'
    BY <2>1 DEF IInv, Shape, EndpointsHaveSecrets
  <2>6. Alone'
    <3>1. \A o \in Handlers : o # h =>
             /\ pc'[o] = pc[o] /\ target'[o] = target[o] /\ (o \in beside' <=> o \in beside)
      BY <1>0, Frame
    <3>2. \A o \in Handlers : target[o] = target[h] =>
             /\ pc[o] # "update"
             /\ pc[o] = "create" => h \in beside'
      BY <2>1 DEF Holding, Creating
    <3> QED
      BY <2>3, <3>1, <3>2 DEF IInv, Alone
  <2>7. Apart'
    BY <1>0, <2>1, ApartKept DEF IInv
  <2>8. HandlerOK(h)' /\ InTurn(h)' /\ Progress(h)' /\ SecretFound(h)'
    BY <1>0, <2>1, <2>2, <2>3 DEF HandlerOK, InTurn, Progress, Follows, SecretFound, Exists
  <2>9. ASSUME NEW w \in Workflows, Touches(h, w) PROVE Agrees(w)'
    <3>1. status[w] = "none"
      BY <2>1, <2>9 DEF Touches, DeleteRow
    <3> QED
      BY <2>1, <3>1, NoneIsNone DEF Agrees, Exists, RowsOf
  <2>10. ProjectionAgrees'
    BY <1>0, <2>9, AgreesIf
  <2> QED
    BY <2>4, <2>5, <2>6, <2>7, <2>8, <2>10 DEF Kept
<1> QED
  BY <1>1, <1>2

\* Nobody creates the workflow that a transaction with nobody beside it holds.
LEMMA NobodyCreates ==
    ASSUME IInv, NEW h \in Handlers, pc[h] = "update", h \notin beside
    PROVE  Creating(target[h]) = {}
  BY DEF IInv, Alone, Creating

\* Touched, but not written: what an unfinished call of Script leaves to show.
LEMMA TouchedInside ==
    ASSUME IInv, NEW h \in Handlers, NEW w \in Workflows, Touches(h, w),
           pc[h] \in {"create", "update"}, ~Synced(h), UNCHANGED <<status, pc, target>>,
           pc[h] = "update" => UNCHANGED rows,
           ~Exists(target[h]) => RowsOf(target[h])' \subseteq RowsOf(target[h]),
           \A r \in rows' : r \in rows \/ r.workflow = target[h]
    PROVE  Agrees(w)'
<1>1. CASE status[w] = "none"
  BY <1>1, NoneIsNone DEF Agrees, Exists, RowsOf
<1>2. CASE status[w] # "none"
  <2>1. target[h] = w /\ pc[h] = "create"
    BY <1>2 DEF Touches, Commit, DeleteRow
  <2>2. Creating(w)' # {}
    BY <2>1 DEF Creating
  <2>3. ~Exists(w) => RowsOf(w) = {}
    BY DEF IInv, ProjectionAgrees
  <2> QED
    BY <2>1, <2>2, <2>3 DEF Agrees, Exists, RowsOf
<1> QED
  BY <1>1, <1>2

LEMMA Finds ==
    ASSUME IInv, NEW h \in Handlers, FindEndpoints(h) PROVE Kept(h)'
<1>0. /\ Step(h) /\ Shape /\ TypeOK /\ HandlerOK(h) /\ InTurn(h)
      /\ pc[h] \in {"create", "update"} /\ call[h] = 5 /\ ~Synced(h)
  BY CallsAre DEF Step, Handle, Sync, IInv, Shape, FindEndpoints
<1>1. /\ UNCHANGED <<status, graph, version, rows, pc, target, saving, read, gone, fresh, beside, torn, mishaps>>
      /\ call'[h] = 6
      /\ secret'[h] = IF SecretsFor(h) = {} THEN h ELSE CHOOSE s \in SecretsFor(h) : TRUE
  BY <1>0 DEF FindEndpoints, Advance, TypeOK, workflowVars, requestVars
<1>2. SecretsFor(h) \subseteq Secrets /\ secret'[h] \in Secrets
  <2>1. SecretsFor(h) \subseteq Secrets
    BY <1>0 DEF SecretsFor, Its, Seen, Shape, InTurn
  <2> QED
    BY <1>1, <2>1 DEF Secrets
<1>3. TypeOK'
  BY <1>0, <1>1, <1>2, ScriptCalls DEF TypeOK, FindEndpoints, Advance, Exists
<1>4. EndpointsHaveSecrets'
  BY <1>1 DEF IInv, Shape, EndpointsHaveSecrets
<1>5. Alone'
  BY <1>0, <1>1, AloneKept DEF IInv
<1>6. Apart'
  BY <1>0, <1>1, ApartKept DEF IInv
<1>7. HandlerOK(h)' /\ InTurn(h)'
  BY <1>0, <1>1, <1>2 DEF HandlerOK, InTurn, Exists
<1>8. Progress(h)'
  BY <1>0, <1>1 DEF IInv, Progress, Follows, Its, Seen, Exists
<1>9. SecretFound(h)'
  <2>1. SUFFICES ASSUME pc[h] = "update", h \notin beside, target[h] \notin torn,
                        NEW r \in RowsOf(target[h]), r.table = "endpoint", r.key = saving[h].key
                 PROVE  r.secret = secret'[h]
    BY <1>1 DEF SecretFound, RowsOf
  <2>2. PICK s \in Secrets : RowsOf(target[h]) = Projection(target[h], graph[target[h]], s)
    BY <1>0, <2>1, NobodyCreates DEF IInv, ProjectionAgrees, HandlerOK
  <2>3. target[h] \in Workflows /\ graph[target[h]] \in Graphs
    BY <1>0, <2>1 DEF HandlerOK, TypeOK
  <2>4. \A q \in RowsOf(target[h]) : q.table = "endpoint" => q.secret = s
    BY <2>2, <2>3, RowsAre DEF Projection
  <2>5. \A q \in Its(h, "endpoint") : q \in RowsOf(target[h])
    BY <1>0 DEF Its, Seen, InTurn, RowsOf
  <2>6. r \in Its(h, "endpoint")
    BY <1>0, <2>1 DEF Its, Seen, InTurn, RowsOf
  <2>7. r.secret \in SecretsFor(h) /\ \A x \in SecretsFor(h) : x = s
    BY <2>1, <2>4, <2>5, <2>6 DEF SecretsFor, Its
  <2> QED
    BY <1>1, <2>7
<1>10. ProjectionAgrees'
  <2>1. ASSUME NEW w \in Workflows, Touches(h, w) PROVE Agrees(w)'
    BY <1>0, <1>1, <2>1, TouchedInside DEF RowsOf
  <2> QED
    BY <1>0, <2>1, AgreesIf
<1> QED
  BY <1>3, <1>4, <1>5, <1>6, <1>7, <1>8, <1>9, <1>10 DEF Kept

LEMMA DeleteCalls ==
    ASSUME IInv, NEW h \in Handlers, DeleteMany(h) PROVE Kept(h)'
<1> DEFINE T == Table(h)
<1>0. /\ Step(h) /\ Shape /\ TypeOK /\ HandlerOK(h) /\ InTurn(h)
      /\ pc[h] \in {"create", "update"} /\ ~Synced(h)
      /\ \/ call[h] = 1 /\ T = "trigger"
         \/ call[h] = 3 /\ T = "action"
         \/ call[h] = 6 /\ T = "endpoint"
  BY CallsAre DEF Step, Handle, Sync, IInv, Shape, DeleteMany
<1>1. /\ UNCHANGED <<status, graph, version, pc, target, saving, read, secret, fresh, beside, torn, mishaps>>
      /\ call' = [call EXCEPT ![h] = call[h] + 1] /\ call'[h] = call[h] + 1
  BY <1>0 DEF DeleteMany, Advance, TypeOK, workflowVars, requestVars
<1>2. \/ pc[h] = "update" /\ gone' = [gone EXCEPT ![h] = gone[h] \cup Its(h, T)] /\ UNCHANGED rows
      \/ pc[h] = "create" /\ rows' = rows \ Its(h, T) /\ UNCHANGED gone
  BY <1>0 DEF DeleteMany, InTransaction
<1>3. \A r \in fresh[h] : r.table # T
  BY <1>0 DEF InTurn
<1>4. Its(h, T) \subseteq rows /\ \A r \in Its(h, T) : r.table = T /\ r.workflow = target[h]
  BY <1>3 DEF Its, Seen
<1>5. gone'[h] \subseteq gone[h] \cup Its(h, T) /\ gone[h] \subseteq gone'[h] /\ rows' \subseteq rows
  BY <1>0, <1>2 DEF TypeOK
<1>6. TypeOK'
  BY <1>0, <1>1, <1>2, <1>4, ScriptCalls DEF TypeOK, Exists
<1>7. EndpointsHaveSecrets'
  BY <1>5 DEF IInv, Shape, EndpointsHaveSecrets
<1>8. Alone'
  BY <1>0, <1>1, AloneKept DEF IInv
<1>9. Apart'
  BY <1>0, <1>1, <1>5, ApartKept DEF IInv
<1>10. HandlerOK(h)' /\ InTurn(h)'
  <2>1. pc[h] = "create" => gone'[h] = {}
    BY <1>0, <1>2 DEF HandlerOK
  <2>2. HandlerOK(h)'
    BY <1>0, <1>1, <1>4, <1>5, <2>1 DEF HandlerOK, Exists
  <2>3. InTurn(h)'
    BY <1>0, <1>1, <1>4, <1>5 DEF InTurn
  <2> QED
    BY <2>2, <2>3
<1>11. ASSUME Follows(h) PROVE Follows(h)'
  <2>1. Seen(h)' = Seen(h) \ Its(h, T)
    BY <1>0, <1>1, <1>2, <1>3, <1>4 DEF Seen, TypeOK, HandlerOK
  <2>2. \A t : Its(h, t)' = IF t = T THEN {} ELSE Its(h, t)
    BY <1>1, <2>1 DEF Its
  <2> QED
    BY <1>0, <1>1, <1>11, <2>2 DEF Follows
<1>12. Progress(h)'
  BY <1>1, <1>11 DEF IInv, Progress, Exists
<1>13. SecretFound(h)'
  BY <1>0, <1>1, <1>2 DEF IInv, SecretFound, RowsOf
<1>14. ProjectionAgrees'
  <2>1. ASSUME NEW w \in Workflows, Touches(h, w) PROVE Agrees(w)'
    BY <1>0, <1>1, <1>2, <1>5, <2>1, TouchedInside DEF RowsOf
  <2> QED
    BY <1>0, <2>1, AgreesIf
<1> QED
  BY <1>6, <1>7, <1>8, <1>9, <1>10, <1>12, <1>13, <1>14 DEF Kept

LEMMA InsertCalls ==
    ASSUME IInv, NEW h \in Handlers, CreateMany(h) PROVE Kept(h)'
<1> DEFINE T == Table(h)
           D == Derived(h)
<1>0. /\ Step(h) /\ Shape /\ TypeOK /\ HandlerOK(h) /\ InTurn(h)
      /\ pc[h] \in {"create", "update"} /\ ~Synced(h)
      /\ \/ call[h] = 2 /\ T = "trigger"
         \/ call[h] = 4 /\ T = "action"
         \/ call[h] = 7 /\ T = "endpoint"
  BY CallsAre DEF Step, Handle, Sync, IInv, Shape, CreateMany
<1>1. CASE Rejected(h) /\ Throw(h)
  BY <1>0, <1>1, Throws DEF CreateMany, TypeOK
<1>2. CASE ~(Rejected(h) /\ Throw(h))
  <2>1. /\ UNCHANGED <<status, graph, version, pc, target, saving, read, secret, gone, beside, torn, mishaps>>
        /\ call' = [call EXCEPT ![h] = call[h] + 1] /\ call'[h] = call[h] + 1
        /\ ~Rejected(h) /\ ~Waits(h)
    BY <1>0, <1>2 DEF CreateMany, Advance, TypeOK, workflowVars, requestVars
  <2>2. \/ pc[h] = "update" /\ fresh' = [fresh EXCEPT ![h] = fresh[h] \cup D] /\ UNCHANGED rows
        \/ pc[h] = "create" /\ rows' = rows \cup D /\ UNCHANGED fresh
    BY <1>0, <1>2 DEF CreateMany, InTransaction
  <2>3. target[h] \in Workflows /\ saving[h] \in Graphs /\ secret[h] \in Secrets \cup {None}
    BY <1>0 DEF HandlerOK, TypeOK
  <2>4. /\ D \subseteq Row
        /\ \A r \in D : r.table = T /\ r.workflow = target[h]
        /\ \A r \in D : r.table = "endpoint" => r.secret \in Secrets
        /\ \A r, q \in D : SameSlug(r, q) => r = q
    <3>1. T = "endpoint" => secret[h] \in Secrets
      BY <1>0 DEF HandlerOK
    <3>2. CASE T = "trigger"
      <4>1. D = TriggerRows(target[h], saving[h])
        BY <2>3, <3>2, DerivedIs
      <4> QED
        BY <2>3, <3>2, <4>1, RowsAre DEF SameSlug
    <3>3. CASE T = "action"
      <4>1. D = ActionRows(target[h], saving[h])
        BY <2>3, <3>3, DerivedIs
      <4> QED
        BY <2>3, <3>3, <4>1, RowsAre DEF SameSlug
    <3>4. CASE T = "endpoint"
      <4>1. D = EndpointRows(target[h], saving[h], secret[h])
        BY <2>3, <3>4, DerivedIs
      <4> QED
        BY <2>3, <3>1, <3>4, <4>1, RowsAre DEF SameSlug
    <3> QED
      BY <1>0, <3>2, <3>3, <3>4
  <2>5. /\ \A r \in D, q \in Seen(h) : ~SameSlug(r, q)
        /\ \A o \in Handlers : o # h => \A r \in D, q \in gone[o] \cup fresh[o] : ~SameSlug(r, q)
    <3>1. ~Clash(D, Seen(h)) /\ \A o \in Handlers : o # h => ~Clash(D, gone[o] \cup fresh[o])
      BY <2>1 DEF Rejected, Waits
    <3> QED
      BY <3>1, NoClash
  <2>6. pc[h] = "create" => Seen(h) = rows /\ fresh[h] = {}
    BY <1>0 DEF Seen, HandlerOK
  <2>7. fresh'[h] \subseteq fresh[h] \cup D /\ rows' \subseteq rows \cup D
    BY <1>0, <2>2 DEF TypeOK
  <2>8. TypeOK'
    <3>1. \A r, q \in rows' : SameSlug(r, q) => r = q
      BY <1>0, <2>2, <2>4, <2>5, <2>6 DEF TypeOK, SameSlug
    <3>2. fresh' \in [Handlers -> SUBSET Row] /\ rows' \subseteq Row
      <4>1. fresh[h] \cup D \subseteq Row
        BY <1>0, <2>4 DEF TypeOK
      <4>2. rows \cup D \subseteq Row
        BY <1>0, <2>4 DEF TypeOK
      <4>3. CASE pc[h] = "update" /\ fresh' = [fresh EXCEPT ![h] = fresh[h] \cup D] /\ UNCHANGED rows
        BY <1>0, <4>1, <4>3 DEF TypeOK
      <4>4. CASE pc[h] = "create" /\ rows' = rows \cup D /\ UNCHANGED fresh
        BY <1>0, <4>2, <4>4 DEF TypeOK
      <4> QED
        BY <2>2, <4>3, <4>4
    <3>3. call' \in [Handlers -> 1 .. Len(Script) + 1]
      BY <1>0, <2>1, ScriptCalls DEF TypeOK
    <3> QED
      BY <1>0, <2>1, <3>1, <3>2, <3>3 DEF TypeOK, Exists, SameSlug
  <2>9. EndpointsHaveSecrets'
    BY <1>0, <2>4, <2>7 DEF Shape, EndpointsHaveSecrets
  <2>10. Alone'
    BY <1>0, <2>1, AloneKept DEF IInv
  <2>11. Apart'
    <3>1. \A o \in Handlers : o # h => fresh'[o] = fresh[o]
      BY <1>0, Frame
    <3>2. CASE pc[h] = "create"
      <4>1. \A o \in Handlers : \A r \in fresh[o], q \in D : ~SameSlug(r, q)
        BY <2>5, <2>6, <3>2 DEF SameSlug
      <4> QED
        BY <2>1, <2>2, <3>2, <4>1 DEF IInv, Apart
    <3>3. CASE pc[h] = "update"
      <4>1. UNCHANGED <<rows, gone>> /\ fresh'[h] = fresh[h] \cup D
        BY <1>0, <2>1, <2>2, <3>3 DEF TypeOK
      <4>2. \A r, q \in fresh'[h] : SameSlug(r, q) => r = q
        BY <2>4, <2>5, <4>1 DEF IInv, Apart, Seen, SameSlug
      <4>3. \A r \in fresh'[h], q \in rows \ gone[h] : ~SameSlug(r, q)
        BY <2>5, <4>1 DEF IInv, Apart, Seen
      <4>4. \A o \in Handlers : o # h => \A r \in fresh'[h], q \in fresh[o] :
               ~SameSlug(r, q) /\ ~SameSlug(q, r)
        BY <2>5, <4>1 DEF IInv, Apart, SameSlug
      <4> QED
        BY <3>1, <4>1, <4>2, <4>3, <4>4 DEF IInv, Apart
    <3> QED
      BY <1>0, <3>2, <3>3
  <2>12. HandlerOK(h)' /\ InTurn(h)'
    <3>1. HandlerOK(h)'
      BY <1>0, <2>1, <2>2, <2>4, <2>7 DEF HandlerOK, Exists
    <3>2. InTurn(h)'
      BY <1>0, <2>1, <2>4, <2>7 DEF InTurn
    <3> QED
      BY <3>1, <3>2
  <2>13. ASSUME Follows(h) PROVE Follows(h)'
    <3>1. Seen(h)' = Seen(h) \cup D
      BY <1>0, <2>1, <2>2, <2>6 DEF Seen, TypeOK, HandlerOK
    <3>2. \A t : Its(h, t)' = IF t = T THEN Its(h, t) \cup D ELSE Its(h, t)
      BY <2>1, <2>4, <3>1 DEF Its
    <3>3. Its(h, T) = {}
      BY <1>0, <2>13 DEF Follows
    <3>4. /\ T = "trigger" => D = TriggerRows(target[h], saving[h])
          /\ T = "action" => D = ActionRows(target[h], saving[h])
          /\ T = "endpoint" => D = EndpointRows(target[h], saving[h], secret[h])
      BY <2>3, DerivedIs
    <3>5. \A t : Its(h, t)' = IF t = T THEN D ELSE Its(h, t)
      BY <3>2, <3>3
    <3> QED
      BY <1>0, <2>1, <2>13, <3>4, <3>5 DEF Follows
  <2>14. Progress(h)'
    BY <2>1, <2>13 DEF IInv, Progress, Exists
  <2>15. SecretFound(h)'
    BY <1>0, <2>1, <2>2 DEF IInv, SecretFound, RowsOf
  <2>16. ProjectionAgrees'
    <3>1. ~Exists(target[h]) => D = {}
      BY <2>1 DEF Rejected
    <3>2. ASSUME NEW w \in Workflows, Touches(h, w) PROVE Agrees(w)'
      <4>1. /\ ~Exists(target[h]) => RowsOf(target[h])' \subseteq RowsOf(target[h])
            /\ \A r \in rows' : r \in rows \/ r.workflow = target[h]
        BY <2>1, <2>4, <2>7, <3>1 DEF RowsOf
      <4> QED
        BY <1>0, <2>1, <2>2, <3>2, <4>1, TouchedInside
    <3> QED
      BY <1>0, <3>2, AgreesIf
  <2> QED
    BY <2>8, <2>9, <2>10, <2>11, <2>12, <2>14, <2>15, <2>16 DEF Kept
<1> QED
  BY <1>1, <1>2

LEMMA Commits ==
    ASSUME IInv, NEW h \in Handlers, Commit(h) PROVE Kept(h)'
<1>0. /\ Step(h) /\ Shape /\ TypeOK /\ HandlerOK(h) /\ InTurn(h) /\ pc[h] = "update"
      /\ call[h] = 8
  BY CallsAre DEF Step, Handle, IInv, Shape, Commit
<1>1. /\ graph' = [graph EXCEPT ![target[h]] = saving[h]]
      /\ version' = [version EXCEPT ![target[h]] = version[target[h]] + 1]
      /\ torn' = IF h \in beside THEN torn \cup {target[h]} ELSE torn \ {target[h]}
      /\ rows' = Seen(h)
      /\ Leave(h) /\ UNCHANGED <<status, mishaps>>
  BY DEF Commit, GraphChanged, Seen
<1>2. target[h] \in Workflows /\ saving[h] \in Graphs /\ Exists(target[h])
  BY <1>0 DEF HandlerOK
<1>3. TypeOK'
  <2>1. \A r, q \in rows' : SameSlug(r, q) => r = q
    BY <1>0, <1>1 DEF Seen, IInv, Apart, TypeOK, SameSlug
  <2>2. \A w \in Workflows : Exists(w)' <=> graph'[w] # None
    BY <1>0, <1>1, <1>2 DEF Exists, TypeOK
  <2> QED
    BY <1>0, <1>1, <1>2, <2>1, <2>2, ScriptCalls DEF TypeOK, Leave, Goto, Seen, SameSlug
<1>4. EndpointsHaveSecrets'
  BY <1>0, <1>1 DEF Shape, InTurn, EndpointsHaveSecrets, Seen
<1>5. /\ Alone' /\ HandlerOK(h)' /\ InTurn(h)' /\ Progress(h)' /\ SecretFound(h)'
      /\ fresh'[h] = {} /\ gone'[h] = {}
  BY <1>0, <1>1, LeaveOwn DEF IInv
<1>6. Apart'
  <2>1. \A o \in Handlers : o # h => fresh'[o] = fresh[o] /\ gone'[o] = gone[o]
    BY <1>0, Frame
  <2>2. \A o \in Handlers : o # h => \A r \in fresh[o], q \in rows' \ gone[o] : ~SameSlug(r, q)
    BY <1>1 DEF IInv, Apart, Seen
  <2> QED
    BY <1>5, <2>1, <2>2 DEF IInv, Apart
<1>7. ASSUME NEW w \in Workflows, Touches(h, w) PROVE Agrees(w)'
  <2>1. CASE status[w] = "none"
    <3>1. RowsOf(w)' = RowsOf(w) /\ ~Exists(w)'
      BY <1>0, <1>1, <2>1, NoneIsNone DEF Seen, HandlerOK, RowsOf, Exists
    <3> QED
      BY <2>1, <3>1, NoneIsNone DEF Agrees
  <2>2. CASE target[h] = w /\ h \in beside
    BY <1>1, <1>2, <2>2 DEF Agrees, Exists
  <2>3. CASE target[h] = w /\ h \notin beside
    <3>1. Follows(h) /\ secret[h] \in Secrets
      BY <1>0, <2>3 DEF IInv, Progress, HandlerOK
    <3>2. RowsOf(w)' = Its(h, "trigger") \cup Its(h, "action") \cup Its(h, "endpoint")
      BY <1>0, <1>1, <2>3 DEF RowsOf, Its, Seen, TypeOK, Row, Tables
    <3>3. RowsOf(w)' = Projection(w, saving[h], secret[h])
      BY <1>0, <2>3, <3>1, <3>2 DEF Follows, Projection
    <3>4. graph'[w] = saving[h] /\ Exists(w)'
      BY <1>0, <1>1, <1>2, <2>3 DEF TypeOK, Exists
    <3> QED
      BY <3>1, <3>3, <3>4 DEF Agrees
  <2> QED
    BY <1>0, <1>7, <2>1, <2>2, <2>3 DEF Touches, DeleteRow
<1>8. ProjectionAgrees'
  BY <1>0, <1>7, AgreesIf
<1> QED
  BY <1>3, <1>4, <1>5, <1>6, <1>8 DEF Kept
-----------------------------------------------------------------------------
LEMMA Preserved ==
    ASSUME IInv, [Next]_vars PROVE IInv'
<1>1. ASSUME NEW h \in Handlers, Ask(h) \/ Handle(h) \/ Fault(h) PROVE IInv'
  <2>1. Kept(h)'
    <3>1. CASE Fault(h)
      BY <3>1, Throws DEF Fault, Mishap, Step, IInv, Shape, TypeOK
    <3> QED
      BY <1>1, <3>1, Asks, Creations, StatusUpdates, Deletions, Transactions, Finds, DeleteCalls,
         InsertCalls, Commits DEF Handle, Sync
  <2>2. \A o \in Handlers : o # h => HandlerOK(o)' /\ InTurn(o)' /\ Progress(o)' /\ SecretFound(o)'
    BY <1>1, OthersGoOn DEF Step
  <2> QED
    BY <2>1, <2>2 DEF Kept, EndpointsHaveSecrets, IInv, Shape
<1>2. CASE UNCHANGED vars
  <2> USE <1>2 DEF vars, workflowVars, localVars, requestVars
  <2>1. Shape'
    BY DEF IInv, Shape, TypeOK, HandlerOK, InTurn, Exists
  <2>2. Alone' /\ Apart'
    BY DEF IInv, Alone, Apart
  <2>3. \A w : (Exists(w)' <=> Exists(w)) /\ RowsOf(w)' = RowsOf(w) /\ Creating(w)' = Creating(w)
    BY DEF Exists, RowsOf, Creating
  <2>4. ProjectionAgrees'
    BY <2>3 DEF IInv, ProjectionAgrees
  <2>5. \A h : Follows(h)' <=> Follows(h)
    BY DEF Follows, Its, Seen
  <2>6. \A h \in Handlers : Progress(h)' /\ SecretFound(h)'
    BY <2>3, <2>5 DEF IInv, Progress, SecretFound, Exists, RowsOf
  <2> QED
    BY <2>1, <2>2, <2>4, <2>6 DEF IInv
<1> QED
  BY <1>1, <1>2 DEF Next

LEMMA Inductive == Spec => []IInv
  BY InitInv, Preserved, PTL DEF Spec

\* Rows, statuses and what handlers hold keep their types; above all, no slug is
\* ever that of two endpoints, whatever transactions are open at a time.
THEOREM StoreTypes == Spec => []TypeOK
<1>1. IInv => TypeOK
  BY DEF IInv, Shape
<1> QED
  BY <1>1, Inductive, PTL

\* The graph of a workflow and its trigger, action and endpoint rows agree, for
\* any number of requests that create, save, activate or delete it call by call
\* and fail anywhere, as long as its creation is not cut short or saved beside.
THEOREM GraphAndRowsAgree == Spec => []ProjectionAgrees
<1>1. IInv => ProjectionAgrees
  BY DEF IInv
<1> QED
  BY <1>1, Inductive, PTL
-----------------------------------------------------------------------------
LEMMA GraphsGetVersions ==
    ASSUME IInv, NEW h \in Handlers, Step(h), NEW w \in Workflows, Exists(w),
           graph'[w] \notin {graph[w], None}
    PROVE  version'[w] > version[w]
<1>0. Shape /\ TypeOK
  BY DEF IInv, Shape
<1>1. Touches(h, w)
  BY <1>0, Elsewhere
<1>2. status[w] # "none"
  BY DEF Exists
<1>3. ~(pc[h] = "create")
  BY <1>0, CreatorsWriteRows DEF workflowVars
<1>4. ~DeleteRow(h)
  BY <1>0 DEF DeleteRow, Throw, workflowVars, TypeOK
<1>5. target[h] = w /\ Commit(h)
  BY <1>1, <1>2, <1>3, <1>4 DEF Touches
<1>6. version'[w] = version[w] + 1 /\ version[w] \in Nat
  BY <1>0, <1>5 DEF Commit, GraphChanged, TypeOK
<1> QED
  BY <1>6

\* No two graphs of a workflow go by one version, whatever their savers had read.
THEOREM VersionsNameGraphs == Spec => VersionNamesGraph
<1>1. IInv /\ [Next]_vars =>
        [\A w \in Workflows :
           Exists(w) /\ graph'[w] \notin {graph[w], None} => version'[w] > version[w]]_vars
  BY GraphsGetVersions DEF Next, Step
<1> QED
  BY <1>1, Inductive, PTL DEF Spec, VersionNamesGraph
-----------------------------------------------------------------------------
LEMMA SecretsStay ==
    ASSUME IInv, IInv', NEW h \in Handlers, Step(h), NEW r \in rows, NEW q \in rows',
           r.table = "endpoint", q.table = "endpoint",
           r.workflow = q.workflow, r.key = q.key,
           Creating(r.workflow) = {}, r.workflow \notin torn \cup torn'
    PROVE  r.secret = q.secret
<1>0. Shape /\ TypeOK /\ ProjectionAgrees /\ ProjectionAgrees'
  BY DEF IInv, Shape
<1>1. PICK w \in Workflows : w = r.workflow
  BY <1>0 DEF TypeOK, Row
<1>2. r \in RowsOf(w) /\ q \in RowsOf(w)'
  BY <1>1 DEF RowsOf
<1>3. Exists(w) /\ Exists(w)'
  BY <1>0, <1>2 DEF ProjectionAgrees
<1>4. CASE ~Touches(h, w)
  <2>1. q \in RowsOf(w)
    BY <1>0, <1>2, <1>4, Elsewhere
  <2>2. PICK s \in Secrets : RowsOf(w) = Projection(w, graph[w], s)
    BY <1>0, <1>1, <1>3 DEF ProjectionAgrees
  <2>3. graph[w] \in Graphs
    BY <1>0, <1>3 DEF TypeOK
  <2>4. \A x \in RowsOf(w) : x.table = "endpoint" => x.secret = s
    BY <2>2, <2>3, RowsAre DEF Projection
  <2> QED
    BY <1>2, <2>1, <2>4
<1>5. CASE Touches(h, w)
  <2>1. target[h] = w /\ pc[h] = "update" /\ Commit(h)
    BY <1>1, <1>3, <1>5 DEF Touches, Exists, Creating
  <2>2. h \notin beside /\ rows' = Seen(h) /\ call[h] = 8
    BY <1>0, <1>1, <2>1, CallsAre DEF Commit, Seen
  <2>3. Follows(h) /\ SecretFound(h) /\ saving[h] \in Graphs /\ secret[h] \in Secrets
    BY <1>0, <2>1, <2>2 DEF IInv, Shape, Progress, HandlerOK
  <2>4. q \in EndpointRows(w, saving[h], secret[h])
    BY <1>1, <2>1, <2>2, <2>3 DEF Follows, Its
  <2>5. q.key = saving[h].key /\ q.secret = secret[h]
    BY <2>3, <2>4, RowsAre
  <2>6. r.secret = secret[h]
    BY <1>1, <1>2, <2>1, <2>2, <2>3, <2>5 DEF SecretFound
  <2> QED
    BY <2>5, <2>6
<1> QED
  BY <1>4, <1>5

\* However many saves race for it and fail, the endpoint of a trigger keeps its
\* secret: the address that was handed out stays good.
THEOREM SecretsAreKept == Spec => SecretsKept
<1>1. IInv /\ IInv' /\ [Next]_vars =>
        [\A r \in rows, q \in rows' :
           /\ r.table = "endpoint" /\ q.table = "endpoint"
           /\ r.workflow = q.workflow /\ r.key = q.key
           /\ Creating(r.workflow) = {} /\ r.workflow \notin torn \cup torn'
           => r.secret = q.secret]_vars
  BY SecretsStay DEF Next, Step
<1> QED
  BY <1>1, Inductive, PTL DEF Spec, SecretsKept
=============================================================================
