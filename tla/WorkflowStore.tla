--------------------------- MODULE WorkflowStore ---------------------------
(***************************************************************************)
(* The workflow repository (lib/data/workflows.ts) of one organization: a  *)
(* workflow's row with its graph, and the trigger, action and endpoint     *)
(* rows that syncGraphProjection derives from the graph.  updateWorkflow   *)
(* derives them inside a transaction, createWorkflow outside of one.       *)
(*                                                                         *)
(* A handler is split where it awaits.  PostgreSQL runs at READ COMMITTED: *)
(* a statement sees what is committed and what its own transaction did, an *)
(* insert waits for uncommitted rows it may collide with, and an update of *)
(* a workflow's row holds the row until the transaction ends.              *)
(***************************************************************************)
EXTENDS Integers, Sequences

CONSTANTS
    Workflows,      \* workflow ids
    Handlers,       \* requests to the API, each made once
    Graphs,         \* the graphs users save, all accepted by the schema
    Twice,          \* those of them in which two actions share a key
    None,
    MaxMishaps      \* bound: calls that throw and processes that die

\* A valid graph has one trigger: its key, the slug of its webhook (None for a
\* schedule), and the rest of the graph (None if there are no actions).
ASSUME GraphAssumption ==
    /\ \A g \in Graphs : DOMAIN g = {"key", "slug", "rest"}
    /\ Twice \subseteq {g \in Graphs : g.rest # None}
    /\ None \notin Workflows \cup Handlers \cup Graphs
ASSUME BoundAssumption == MaxMishaps \in Nat

Tables == {"trigger", "action", "endpoint"}
Statuses == {"none", "draft", "active", "paused", "deleted"}
Keys == {g.key : g \in Graphs}
Slugs == {g.slug : g \in Graphs}
Rests == {g.rest : g \in Graphs}

\* A generated secret is named for the handler that drew it, or for the
\* workflow if it was there from the start.
Secrets == Workflows \cup Handlers

Row == [table : Tables, workflow : Workflows, key : Keys \cup Rests,
        slug : Slugs \cup {None}, secret : Secrets \cup {None}]

VARIABLES
    status, graph, version,     \* the workflow rows
    rows,                       \* the committed rows of the projection
    pc, call,                   \* where a handler stands, and its next call in Script
    target, saving, read,       \* its workflow, the graph it saves, the one it read
    secret,                     \* the secret its endpoint is to have
    gone, fresh,                \* rows its open transaction deleted and inserted
    beside,                     \* history: open transactions begun beside a creation
    torn,                       \* history: workflows whose projection was cut short
    mishaps                     \* how much of the bound is used

workflowVars == <<status, graph, version>>
requestVars == <<target, saving, read>>
localVars == <<pc, call, requestVars, secret, gone, fresh, beside>>
vars == <<workflowVars, rows, localVars, torn, mishaps>>

Exists(w) == status[w] \in {"draft", "active", "paused"}
-----------------------------------------------------------------------------
(***************************************************************************)
(* What syncGraphProjection makes of a graph, and the constraints it meets.*)
(***************************************************************************)
RowOf(t, w, k, l, s) == [table |-> t, workflow |-> w, key |-> k, slug |-> l, secret |-> s]

TriggerRows(w, g) == {RowOf("trigger", w, g.key, g.slug, None)}

ActionRows(w, g) == {RowOf("action", w, k, None, None) : k \in {g.rest} \ {None}}

EndpointRows(w, g, s) == {RowOf("endpoint", w, g.key, l, s) : l \in {g.slug} \ {None}}

Projection(w, g, s) == TriggerRows(w, g) \cup ActionRows(w, g) \cup EndpointRows(w, g, s)

\* The calls of syncGraphProjection, in order.
Script == <<[does |-> "delete", table |-> "trigger"],
            [does |-> "insert", table |-> "trigger"],
            [does |-> "delete", table |-> "action"],
            [does |-> "insert", table |-> "action"],
            [does |-> "find",   table |-> "endpoint"],
            [does |-> "delete", table |-> "endpoint"],
            [does |-> "insert", table |-> "endpoint"]>>

\* Mutant: slugs are unique within a workflow only.
Unique_PerWorkflow(r) == <<r.table, r.workflow, IF r.table = "endpoint" THEN r.slug ELSE r.key>>

\* One trigger and one action per workflow and key, one endpoint per slug.
Unique(r) == IF r.table = "endpoint" THEN <<r.slug>> ELSE <<r.table, r.workflow, r.key>>

Clash(R, Q) == \E r \in R, q \in Q : r.table = q.table /\ Unique(r) = Unique(q)
-----------------------------------------------------------------------------
Init ==
    /\ graph \in [Workflows -> Graphs \cup {None}]
    /\ status = [w \in Workflows |-> IF graph[w] = None THEN "none" ELSE "draft"]
    /\ version = [w \in Workflows |-> 1]
    /\ rows = UNION {Projection(w, graph[w], w) : w \in {v \in Workflows : graph[v] # None}}
    /\ \A w, v \in {u \in Workflows : graph[u] # None} :
          graph[w].slug = graph[v].slug => w = v \/ graph[w].slug = None
    /\ \A w \in Workflows : graph[w] \notin Twice
    /\ pc = [h \in Handlers |-> "idle"]
    /\ call = [h \in Handlers |-> 1]
    /\ target = [h \in Handlers |-> None]
    /\ saving = [h \in Handlers |-> None]
    /\ read = [h \in Handlers |-> None]
    /\ secret = [h \in Handlers |-> None]
    /\ gone = [h \in Handlers |-> {}]
    /\ fresh = [h \in Handlers |-> {}]
    /\ beside = {}
    /\ torn = {}
    /\ mishaps = 0

Mishap == mishaps < MaxMishaps /\ mishaps' = mishaps + 1

Goto(h, l) == pc' = [pc EXCEPT ![h] = l]

\* Who is at work on a workflow's projection, and whose transaction has its row.
Creating(w) == {h \in Handlers : target[h] = w /\ pc[h] = "create"}
Holding(w) == {h \in Handlers : target[h] = w /\ pc[h] = "update"}

\* A handler's first call: nothing but its own state changes.
Begin(h, w, g, l) ==
    /\ pc[h] = "idle"
    /\ Exists(w)
    /\ Goto(h, l)
    /\ target' = [target EXCEPT ![h] = w]
    /\ saving' = [saving EXCEPT ![h] = g]
    /\ read' = [read EXCEPT ![h] = graph[w]]
    /\ UNCHANGED <<workflowVars, rows, call, secret, gone, fresh, beside, torn, mishaps>>

\* The handler ends, and what it held in its hands goes with it.
Leave(h) ==
    /\ Goto(h, "done")
    /\ call' = [call EXCEPT ![h] = 1]
    /\ target' = [target EXCEPT ![h] = None]
    /\ saving' = [saving EXCEPT ![h] = None]
    /\ read' = [read EXCEPT ![h] = None]
    /\ secret' = [secret EXCEPT ![h] = None]
    /\ gone' = [gone EXCEPT ![h] = {}]
    /\ fresh' = [fresh EXCEPT ![h] = {}]
    /\ beside' = beside \ {h}

\* The handler throws: an open transaction is rolled back, and what
\* createWorkflow has written stays.
Throw(h) ==
    /\ Leave(h)
    /\ torn' = IF pc[h] = "create" THEN torn \cup {target[h]} ELSE torn
    /\ UNCHANGED <<workflowVars, rows>>
-----------------------------------------------------------------------------
(***************************************************************************)
(* syncGraphProjection, one call at a time.                                *)
(***************************************************************************)
\* Mutant: updateWorkflow does not pass its transaction on.
InTransaction_Forgotten(h) == FALSE

InTransaction(h) == pc[h] = "update"

\* What a statement of the handler sees.
Seen(h) == (rows \ gone[h]) \cup fresh[h]

Its(h, t) == {r \in Seen(h) : r.table = t /\ r.workflow = target[h]}

\* The next call does this to the handler's own table.
Calls(h, does) ==
    /\ pc[h] \in {"create", "update"}
    /\ call[h] \in DOMAIN Script
    /\ Script[call[h]].does = does

Table(h) == Script[call[h]].table

Advance(h) == call' = [call EXCEPT ![h] = @ + 1]

DeleteMany(h) ==
    /\ Calls(h, "delete")
    /\ IF InTransaction(h)
         THEN gone' = [gone EXCEPT ![h] = @ \cup Its(h, Table(h))] /\ UNCHANGED rows
         ELSE rows' = rows \ Its(h, Table(h)) /\ UNCHANGED gone
    /\ Advance(h)
    /\ UNCHANGED <<workflowVars, pc, requestVars, secret, fresh, beside, torn, mishaps>>

\* Mutant: old secrets are looked up by slug.
SecretsFor_BySlug(h) ==
    {r.secret : r \in {q \in Its(h, "endpoint") : q.slug = saving[h].slug}}

SecretsFor(h) == {r.secret : r \in {q \in Its(h, "endpoint") : q.key = saving[h].key}}

\* The secret there is under the trigger's key, a new one if there is none.
FindEndpoints(h) ==
    /\ Calls(h, "find")
    /\ secret' = [secret EXCEPT ![h] = IF SecretsFor(h) = {} THEN h
                                        ELSE CHOOSE s \in SecretsFor(h) : TRUE]
    /\ Advance(h)
    /\ UNCHANGED <<workflowVars, rows, pc, requestVars, gone, fresh, beside, torn, mishaps>>

Derived(h) == {r \in Projection(target[h], saving[h], secret[h]) : r.table = Table(h)}

\* Another transaction's rows may yet come or go.
Waits(h) == \E o \in Handlers \ {h} : Clash(Derived(h), gone[o] \cup fresh[o])

Rejected(h) ==
    \/ Derived(h) # {} /\ ~Exists(target[h])
    \/ Clash(Derived(h), Seen(h))
    \/ Table(h) = "action" /\ saving[h] \in Twice

CreateMany(h) ==
    /\ Calls(h, "insert")
    /\ ~Waits(h)
    /\ \/ /\ ~Rejected(h)
          /\ IF InTransaction(h)
               THEN fresh' = [fresh EXCEPT ![h] = @ \cup Derived(h)] /\ UNCHANGED rows
               ELSE rows' = rows \cup Derived(h) /\ UNCHANGED fresh
          /\ Advance(h)
          /\ UNCHANGED <<workflowVars, pc, requestVars, secret, gone, beside, torn>>
       \/ Rejected(h) /\ Throw(h)
    /\ UNCHANGED mishaps

Synced(h) == call[h] = Len(Script) + 1
-----------------------------------------------------------------------------
(***************************************************************************)
(* The handlers.                                                           *)
(***************************************************************************)

\* createWorkflow: the row, then the projection, with no transaction around.
CreateWorkflow(h, w, g) ==
    /\ pc[h] = "idle"
    /\ status[w] = "none"
    /\ status' = [status EXCEPT ![w] = "draft"]
    /\ graph' = [graph EXCEPT ![w] = g]
    /\ Goto(h, "create")
    /\ target' = [target EXCEPT ![h] = w]
    /\ saving' = [saving EXCEPT ![h] = g]
    /\ UNCHANGED <<version, rows, call, read, secret, gone, fresh, beside, torn, mishaps>>

Created(h) ==
    /\ pc[h] = "create"
    /\ Synced(h)
    /\ Leave(h)
    /\ UNCHANGED <<workflowVars, rows, torn, mishaps>>

\* updateWorkflow: the row as it is ...
UpdateWorkflow(h, w, g) == Begin(h, w, g, "save")

\* Another transaction that has updated the row ends first.
FreeToBegin(w) == Holding(w) = {}

\* ... then a transaction, whose first call updates the row and so holds it ...
BeginTransaction(h) ==
    /\ pc[h] = "save"
    /\ FreeToBegin(target[h])
    /\ \/ /\ Exists(target[h])
          /\ Goto(h, "update")
          /\ beside' = IF Creating(target[h]) # {} THEN beside \cup {h} ELSE beside
          /\ UNCHANGED <<workflowVars, rows, call, requestVars, secret, gone, fresh, torn>>
       \/ ~Exists(target[h]) /\ Throw(h)
    /\ UNCHANGED mishaps

\* Mutant: the comparison tells a changed graph from the one that was read.
GraphChanged_Compared(h) == saving[h] # read[h]

\* JSON.stringify of a stored graph and of a parsed one: the column is jsonb,
\* which orders the keys of an object its own way ("edges" before "nodes"), so
\* the two are never the same text.
GraphChanged(h) == TRUE

\* ... and ends with everything at once.
Commit(h) ==
    /\ pc[h] = "update"
    /\ Synced(h)
    /\ LET w == target[h]
       IN  /\ graph' = [graph EXCEPT ![w] = saving[h]]
           /\ version' = [version EXCEPT ![w] = IF GraphChanged(h) THEN @ + 1 ELSE @]
           /\ torn' = IF h \in beside THEN torn \cup {w} ELSE torn \ {w}
    /\ rows' = (rows \ gone[h]) \cup fresh[h]
    /\ Leave(h)
    /\ UNCHANGED <<status, mishaps>>

\* setWorkflowStatus: the graph is validated, and valid, then the row updated.
SetWorkflowStatus(h, w, s) == Begin(h, w, None, s)

UpdateStatus(h) ==
    /\ pc[h] \in {"active", "paused"}
    /\ FreeToBegin(target[h])
    /\ \/ /\ Exists(target[h])
          /\ status' = [status EXCEPT ![target[h]] = pc[h]]
          /\ Leave(h)
          /\ UNCHANGED <<graph, version, rows, torn>>
       \/ ~Exists(target[h]) /\ Throw(h)
    /\ UNCHANGED mishaps

\* deleteWorkflow: the row goes and takes its projection with it.
DeleteWorkflow(h, w) == Begin(h, w, None, "delete")

Cascade(w) == {r \in rows : r.workflow = w}

DeleteRow(h) ==
    /\ pc[h] = "delete"
    /\ FreeToBegin(target[h])
    /\ \/ /\ Exists(target[h])
          /\ status' = [status EXCEPT ![target[h]] = "deleted"]
          /\ graph' = [graph EXCEPT ![target[h]] = None]
          /\ rows' = rows \ Cascade(target[h])
          /\ Leave(h)
          /\ UNCHANGED <<version, torn>>
       \/ ~Exists(target[h]) /\ Throw(h)
    /\ UNCHANGED mishaps

\* A call throws, its transaction times out or deadlocks, or the process dies.
Fault(h) ==
    /\ pc[h] \notin {"idle", "done"}
    /\ Mishap
    /\ Throw(h)
-----------------------------------------------------------------------------
Ask(h) ==
    \E w \in Workflows :
        \/ \E g \in Graphs : CreateWorkflow(h, w, g) \/ UpdateWorkflow(h, w, g)
        \/ \E s \in {"active", "paused"} : SetWorkflowStatus(h, w, s)
        \/ DeleteWorkflow(h, w)

Sync(h) == DeleteMany(h) \/ FindEndpoints(h) \/ CreateMany(h)

Handle(h) ==
    \/ Sync(h) \/ Created(h) \/ BeginTransaction(h) \/ Commit(h)
    \/ UpdateStatus(h) \/ DeleteRow(h)

Next == \E h \in Handlers : Ask(h) \/ Handle(h) \/ Fault(h)

Spec == Init /\ [][Next]_vars
-----------------------------------------------------------------------------
TypeOK ==
    /\ status \in [Workflows -> Statuses]
    /\ graph \in [Workflows -> Graphs \cup {None}]
    /\ \A w \in Workflows : Exists(w) <=> graph[w] # None
    /\ version \in [Workflows -> Nat]
    /\ rows \subseteq Row
    /\ pc \in [Handlers -> {"idle", "create", "save", "update", "active", "paused",
                            "delete", "done"}]
    /\ call \in [Handlers -> 1 .. Len(Script) + 1]
    /\ target \in [Handlers -> Workflows \cup {None}]
    /\ saving \in [Handlers -> Graphs \cup {None}]
    /\ read \in [Handlers -> Graphs \cup {None}]
    /\ secret \in [Handlers -> Secrets \cup {None}]
    /\ gone \in [Handlers -> SUBSET Row] /\ fresh \in [Handlers -> SUBSET Row]
    /\ \A r, q \in rows : r.table = "endpoint" /\ q.table = "endpoint" /\ r.slug = q.slug => r = q
    /\ beside \subseteq Handlers /\ torn \subseteq Workflows
    /\ mishaps \in 0 .. MaxMishaps

RowsOf(w) == {r \in rows : r.workflow = w}

\* README.md:238-239: the graph is what the triggers, actions and endpoints say,
\* for every workflow that has not been torn: one whose creation was cut short or
\* ran beside a save of the same workflow, until a later save goes through.
\* Concurrent saves, deletions and failures anywhere do not part the two, and of
\* a deleted workflow nothing is left for a webhook to find.
ProjectionAgrees ==
    \A w \in Workflows :
        /\ ~Exists(w) => RowsOf(w) = {}
        /\ Exists(w) /\ Creating(w) = {} /\ w \notin torn =>
               \E s \in Secrets : RowsOf(w) = Projection(w, graph[w], s)

\* workflows.ts:258-259: "subsequent saves keep the same secret so URLs remain
\* valid": no step gives the endpoint of a trigger another secret, however many
\* saves race for it and fail, unless one has run beside the creation and left
\* two endpoints for the trigger, of which the next save keeps one.
SecretsKept ==
    [][\A r \in rows, q \in rows' :
          /\ r.table = "endpoint" /\ q.table = "endpoint"
          /\ r.workflow = q.workflow /\ r.key = q.key
          /\ Creating(r.workflow) = {} /\ r.workflow \notin torn \cup torn'
          => r.secret = q.secret]_vars

\* A run cites the version of its graph (execute.ts:61 and 83), so no two graphs
\* of a workflow may go by one version, whatever their savers had read.
VersionNamesGraph ==
    [][\A w \in Workflows :
          Exists(w) /\ graph'[w] \notin {graph[w], None} => version'[w] > version[w]]_vars
=============================================================================
