# RelayFlow in TLA+

RelayFlow is a multi-tenant workflow platform: Next.js routes take webhooks and
user requests, BullMQ queues executions in Redis, a worker process runs them, a
scheduler process keeps cron schedules, and PostgreSQL (through Prisma) holds
everything that has to last. This directory models the parts of it in which
order, failure or concurrency decide whether the code is right. It holds TLA+
modules written from the source, small instances of them for TLC, and theorems
with proofs that TLAPS checks. `PROJECT.json` has the tables: components, runs,
mutants, the source lines behind each definition, findings, hazards, theorems.

    tlc  -workers 2 -config executions_safety.cfg MCExecutions.tla
    tlapm Executions_proofs.tla

Paths below are relative to the repository's root.

## 1. The system

### Components

| component | code | state it keeps | operations |
|---|---|---|---|
| Run execution | `lib/execute.ts`, `lib/workers.ts`, `lib/queue.ts`, `lib/data/runs.ts`, the retry and test-run routes | BullMQ's jobs with their locks; `workflow_runs`, `dead_letters` | `enqueueWorkflowRun`, `processJob`, `executeWorkflowRun`, `createRun`, `updateRun`, `recordRunFailure`, retry |
| Workflow runner and graph schema | `lib/dag/runner.ts`, `lib/dag/schema.ts` | the context of one execution; `step_logs` | `validateGraph`, `topoSort`, `runWorkflow`, `executeActionWithRetry` |
| Schedules | `lib/scheduler.ts`, `scripts/scheduler.ts`, the toggle route | BullMQ's job schedulers | `reconfigureWorkflowSchedule`, `reconcileSchedules`, the tick, parsing a schedule's id |
| Rate limiter | `lib/ratelimit.ts` | one Redis hash per bucket | the token bucket script |
| Webhook ingest | `app/api/webhooks/[org]/[endpoint]/route.ts`, `lib/sig.ts`, `lib/ids.ts`, `lib/data/webhooks.ts` | none of its own; buckets, endpoint rows and the queue | `POST`, `verifyWebhookSignature`, `deriveExecutionId` |
| Workflow repository | `lib/data/workflows.ts`, the workflow routes | `workflows`, `triggers`, `actions`, `webhook_endpoints` | create, update, delete, set status, `syncGraphProjection` |
| Accounts and sessions | `lib/data/auth.ts`, `lib/data/sessions.ts`, `lib/auth.ts`, `lib/session.ts`, the login and password routes | `users`, `sessions` | log in, second factor, recovery codes, change and reset of the password, revoking sessions |
| Invitations | `lib/data/invitations.ts`, its routes | `invitations` | invite, resolve, accept, revoke |
| Credentials | `lib/data/credentials.ts`, its routes | `credentials` | store, decrypt and note the use, delete |
| Dispatcher | `lib/dispatch/index.ts`, `lib/dag/runner.ts` | none | one action's HTTP, Slack or e-mail call, with a timeout |
| Audit log | `lib/audit.ts`, `lib/data/audit.ts` | `audit_logs` | append, list |
| Path resolution | `lib/path.ts` | none | read, write and template JSON values by path |
| Queue administration, health | `app/api/admin/queue`, `app/api/health` | none | read counters |
| Cryptography and tokens | `lib/crypto.ts`, `lib/passwords.ts`, `lib/totp.ts`, `lib/jwt.ts` | none | pure functions over library primitives |
| Support | `lib/env.ts`, `lib/logger.ts`, `lib/email.ts`, `lib/csv.ts`, `lib/db.ts`, `lib/redis.ts`, `lib/validation.ts` | connections | configuration, formatting |
| Pages | `app/(dashboard)`, `components`, `proxy.ts` | none | read the repositories, call the routes |
| Schema and seed | `prisma/` | | constraints; set-up |

### How they interact

    webhook route --limiter--> endpoint row --signature--> execution id --+
    test-run / retry route -----------------------------------------------+--> BullMQ job
    cron <- job schedulers <- toggle route, reconciler tick --------------+        |
                                                                                   v
      audit entry <- dead letter <- run row <- runWorkflow <- createRun <- worker slot
                                                  |
                                             dispatcher -> the outside world

All communication is through PostgreSQL rows and Redis: no component calls
another's code across processes. Every `await` is a point at which any other
handler, slot or process may run. Transactions are used in few places, so the
usual unit of atomicity is one call.

### What is hard, and what correctness means

- **Executions.** BullMQ delivers at least once: a job whose lock is not renewed
  is delivered again, perhaps while its first slot is still at work. A slot may
  crash, and a call may throw, between any two of the calls that create the run,
  run the pipeline, report its status, write the dead letter and the audit
  entry. Users pause, edit and delete the workflow meanwhile, and retry runs
  whatever their status. Correct means: the pipeline begins at most once per
  execution id; a status shown is the one its own pipeline returned; dead letter
  and audit entry tell the same story; every job settles.
- **Runner.** The order of a walk comes from the order in which a user drew
  nodes and edges. Retries, filters and failures end the walk in different
  places. Correct means: exactly the rooted DAGs are accepted, nothing leaves
  before everything upstream has succeeded, the retry policy is kept, and the
  status is the story the step records tell.
- **Schedules.** Toggles and ticks read the rows, then write the scheduler set a
  call at a time, and a tick may start before the last has ended. Correct means:
  the set departs from the rows only through an outdated reading, and comes back.
- **Webhook ingest.** Three buckets, two lookups, a signature and a queue are
  reached one call after another, with clock readings of the application in
  between. Correct means: a job has been paid for and is genuine, and the answer
  is true.
- **Workflow repository.** A graph and the rows derived from it are written by
  seven calls, in a transaction by one handler and without by another. Correct
  means: they agree, secrets outlive saves, a version names one graph.
- **Accounts, invitations.** Every route finds its session in one call, reads
  and checks in another and writes in a third, by an id alone. Correct means: a
  link is used once, no session of an old password outlives its change but the
  one it was made with, a second factor is one its user has, and an address gets
  one account through one invitation that nobody had revoked.
- **Dispatch, credentials, paths.** A request that timed out may still be carried
  out; the credential of an action may go between two of its attempts, or
  between two of an attempt's calls; mappings write through one another's
  containers. Correct means: what is repeated had a reason, no later attempt has
  the secret of a deleted credential, and what a mapping wrote is what the
  filter and the template after it find.

The 39 hazards in `PROJECT.json` list these at the lines where they bite, with
the properties that would catch each of them.

## 2. The modules

| module | models | lines of code behind it |
|---|---|---|
| `Executions` | a job from its request to its records, one action per awaited call | `lib/execute.ts`, `lib/workers.ts`, `lib/queue.ts`, `lib/data/runs.ts`, retry route |
| `ExecutionLedger` | abstract: requested, performed at most once, one verdict, reported or erased | |
| `GraphSchema` | `validateGraph` and `topoSort` as functions, and what a rooted DAG is | `lib/dag/schema.ts` |
| `DagRunner` | `runWorkflow`'s walk, retries, step records, the dead letter | `lib/dag/runner.ts`, `lib/execute.ts` |
| `Pipeline` | abstract: nodes done one by one after their predecessors, until a halt | |
| `Schedules` | toggles, overlapping ticks, job schedulers, the jobs they yield | `lib/scheduler.ts`, `scripts/scheduler.ts`, toggle route, `lib/workers.ts` |
| `RateLimiter` | the token bucket script and the clock its callers read | `lib/ratelimit.ts` |
| `WebhookIngest` | the webhook handler; it extends `RateLimiter`, whose buckets it shares | webhook route, `lib/sig.ts`, `lib/ids.ts`, `lib/data/webhooks.ts` |
| `Accounts` | one account: nine routes, the proxy, log-ins, passwords, second factor, reset links, sessions | `lib/data/auth.ts`, `lib/data/sessions.ts`, `lib/auth.ts`, `lib/session.ts`, `proxy.ts`, `app/api/auth` |
| `Invitations` | the invitations to one address; it extends `Accounts`, whose handlers it shares | `lib/data/invitations.ts` and its routes |
| `Paths` | `getPath`, `setPath`, `interpolate` as functions on JSON values | `lib/path.ts` |
| `Dispatch` | a transform, a filter and the action after them, its attempts, its credential; it extends `Paths` | `lib/dispatch/index.ts`, `lib/dag/runner.ts`, `lib/data/credentials.ts` |
| `WorkflowStore` | the four repository handlers and `syncGraphProjection`, with transactions | `lib/data/workflows.ts`, `prisma/schema.prisma` |
| `Induction` | lemmas: induction, folds from the left, sequences and their members | |
| `..._proofs` | theorems about `Executions`, `DagRunner` with `GraphSchema` and `Pipeline`, `Schedules`, `WebhookIngest` with `RateLimiter`, `WorkflowStore`, `Invitations` with `Accounts`, `Dispatch` with `Paths` | |
| `MC...` | instances for TLC | |

### Executions

An id of `Ids` is an execution id and, as in `enqueueWorkflowRun`, a job id.
`request[e]` is the job's data. `jobState`, `lock` and `stalls` are BullMQ's
side of a job; `pc`, `held` and `result` are a slot's locals; `run`,
`deadLetters` and `audited` the rows. `starts` and `outcome` are history: how
often the pipeline of an id was begun, and what it returned.

A slot goes `Take` (BullMQ hands over a job), `FindRun` (execute.ts:41),
`LoadWorkflow` (46-58), `CreateInvalidRun` (59-67) or `CreateRun` (81-92),
`BeginPipeline` and `EndPipeline` (runWorkflow, 95-113), `UpdateRun` (119-123,
136-140), `CreateDeadLetter` and `RecordAudit` (recordRunFailure, 124-131, and
141-146), `Finish`. `createRun` meets two constraints:
the unique execution id (P2002, answered with null) and the workflow's foreign
key (a throw). `recordAudit` swallows its errors, so its entry may be missing.
BullMQ has `attempts: 1`: a job that throws fails, and only a stalled job comes
back, `MaxStalled` times. `Crash`, `Fault` (a call that throws), `RetryFails`
and `LiveLockExpires` are the mishaps, bounded by `MaxMishaps`; the expiry of a
dead slot's lock is free.

`ExecutionLedger` is what this promises a user. `Executions` implements it under
requested = ids with a job, performed = `starts`, verdict = `outcome`, report =
`run`.

### GraphSchema, DagRunner, Pipeline

A graph is a sequence of nodes (key, type) and a sequence of edges: both orders
matter to Kahn's queue, and both repetitions matter to the checks. Node configs
and payloads are abstracted; whether a filter passes and what the outside world
answers ("ok", "retryable", "permanent") is open. A path that cannot be cut
into tokens makes a filter or a transform throw (`Throw`), and the walk ends
without a result; what becomes of the run then is `Fault` in `Executions`.
`sent` records for each attempt which outputs it saw. `Pipeline` is the abstract
specification: no order, retries or records, only predecessors before
successors. `IsGraph` is the shape zod's node and edge schemas let in, and all
that is assumed of a stored graph.

### Schedules

Each toggle request and each tick is an actor with its reading (`read`) and the
scheduler ids it has still to write (`todo`); `outdated` is history: workflows
that others changed since the actor read them. Ids are tuples of the parts
between the colons, because the parser of a scheduled job's id counts them.
`refreshAllSchedules` and `removeWorkflowSchedules` are called by nothing and
have no action; pausing and deleting remove no scheduler, the next tick does.

### RateLimiter, WebhookIngest

The script is atomic, its `now` argument is not: the caller reads its clock
first, so readings reach the script out of order. Levels are counted in
milliseconds of refill, which keeps them integers. The handler has three gates,
two lookups and a last step with the signature, the id and the job; a reading
taken between two calls is any moment between them. The secret a delivery is
signed with stands for the digest. An execution id is a record of what
`deriveExecutionId` hashes.

### WorkflowStore

One organization's workflows. `rows` are the committed trigger, action and
endpoint rows; `gone` and `fresh` are what an open transaction has deleted and
inserted. A handler walks through `Script`, the calls of `syncGraphProjection`;
inside a transaction (`updateWorkflow`) they take effect at `Commit`, outside of
one (`createWorkflow`) at once. PostgreSQL is modelled at READ COMMITTED, its
default: statements see committed rows and their own (`Seen`), an insert waits
for open transactions it may collide with (`Waits`), the update of a workflow's
row holds it until the transaction ends (`FreeToBegin`). `GraphChanged` is
always true: the comparison at `lib/data/workflows.ts:169` is between the text
of a parsed graph, whose `nodes` come first, and of one read from a `jsonb`
column, which orders `edges` before `nodes`; so every save gets a new version.

### Accounts, Invitations

One account, or an address that has none yet. A handler is one request: `pc`
says which route it is on and which of its awaited calls comes next (`Enter`,
then `VerifyPassword`, `StorePassword`, `RevokeOthers` for the password route,
and so on), `session` and `holding` are what it found and will act upon. Hashes,
signatures and ciphers are what they prove: `password` is the password hashed,
a code the secret it was made with, a token the request it was issued for. The
updates of the code name the account by its id only, so no action asks again for
what an earlier one has read. `age`, `checked`, `wrote`, `born`, `confirmed` and
`overtaken` are history: they order log-ins and changes of the password, and
note who came in between of whom. The log-in route's schema takes six digits or
nothing for a code (`WellFormed`); the recovery branch behind it is written
as far as the code is accepted; spending it is left out, since nothing reaches it. `Elsewhere` is what a request about an invitation may do to the
account, and `Invitations` refines it: there a handler has a `stage` until it
joins, makes the account in one transaction with the mark on the invitation
(`Join`), and goes on as a log-in. There is one organization: the list of
pending invitations and the look for a member, which the code confines to the
organization of the session, are of that one. `Open` is what was neither accepted
nor revoked, `Pending` the part of it that has not expired. `pruneExpiredSessions` and `resolveApiKey`
are called by nothing and have no action.

### Paths, Dispatch

A JSON value is a function from the places in it to what stands there, a place
the sequence of tokens that leads to it. That makes the two surprising sides of
`setPath` plain: it writes into nothing if it meets a scalar or a container of
the other kind on its way (`Blocked`), and it makes the containers that are
missing by the kind of the NEXT token (`Graft`). `Dispatch` runs `mappings` over
the payload, lets `filter` judge the output, and then makes attempts: `Begin`
fills in the headers, `FindCredential` and `TouchCredential` are the two calls of
`decryptCredential`, after which the rest is filled in and the request leaves,
`Respond` and `Finish` are the status and the body of the answer, `GiveUp` the
time limit and the broken connection. Whatever throws is taken for retryable
(`Throw`), an answer by its status. `wire` are the requests that may yet be
carried out, `carried` those that have been: a request given up stays on the
wire. `Deleters` are requests to delete the credential. The paths of its
transforms and filters are well-formed: one that is not ends the walk, which is
`DagRunner`'s `Throw`. The five subtypes differ
in where their texts go; two stand for them, one with templated headers, one
without.

## 3. What TLC checks

| run | instance | properties |
|---|---|---|
| `executions_safety` | 2 ids (one may retry the other), 1 workflow, 2 slots, 1 redelivery, 2 mishaps | `TypeOK`; `AtMostOnce`; `ReportsOutcome`; `DeadLettersSound`; `AuditSound`; `RetryingIsQueued`; `ReportsStand`; `LossesHaveCause`; `LedgerSpec` |
| `executions_live` | 2 ids, 1 slot, 1 mishap, fair | `JobsSettle`; `AcceptedRuns` |
| `dag_runner` | all edge sets on 3 and (diamonds included) 4 nodes with distinct keys, in two orders; 3 attempts; fair | `TypeOK`; `SeesUpstream`; `RetryPolicy`; `StatusTellsSteps`; `PipelineSpec`; `Terminates` |
| `schedules` | 2 toggles, 2 ticks, 3 triggers over 2 keys, 2 changes, 1 mishap, fair | `TypeOK`; `DriftHasCause`; `Reconciled` |
| `webhook_ingest` | 2 requests of 5 deliveries, 4 buckets, 2 secrets, clock to 2 | `TypeOK`; `RateKept`; `JobsArePaidFor`; `OnlyGenuine`; `AnsweredTruly` |
| `workflow_store` | 3 requests, 2 workflows, 4 graphs (one the tables refuse), 1 mishap | `TypeOK`; `ProjectionAgrees`; `SecretsKept`; `VersionNamesGraph` |
| `accounts` | 3 requests, 2 passwords, an account with or without second factor or none yet, 1 mishap | `TypeOK`; `RevokedOnChange`; `SingleUse`; `MfaConfirmed`; `OneAcceptance`; `RevokedStaysOut`; `OneOpenInvitation` |
| `dispatch` | transforms of 1 or 2 mappings between 3 sources and 8 targets, filters of 0 to 2 conditions, 2 subtypes, 3 attempts, 2 deleters, answers 200, 404, 503, 1 mishap | `TypeOK`; `RepeatsHaveCause`; `SecretsGoverned`; `MappedValuesArrive` |

`PipelineSpec` is also what says that the schema accepts what it should:
`Pipeline` may refuse a graph only if it is no rooted DAG and may run it only if
it is one, so an acceptance of anything else, or a refusal of a rooted DAG, is a
step `Pipeline` does not have.

Every property is stated in words above its definition, and has a mutant in
`PROJECT.json`: a bug in a mapped definition under which TLC finds it violated.

**Why the bounds are enough.** Executions of different ids meet only in the
slots, in a workflow's row, and in a retry of one by another: two ids and two
slots have all of these, and two mishaps let a slot crash and its successor
throw, or a live slot lose its lock and go on beside the next. One redelivery is
BullMQ's default. In the graphs, four nodes are the fewest with a diamond, and
three attempts are `MAX_STEP_ATTEMPTS`. Two ticks and two toggles give every
pair of actors in which one has an older reading; the three triggers let an edit
change the cron only, or the key. Two requests meet in a bucket, in an endpoint
or in an id; two clock ticks make readings overtake each other, and the slug's
bucket is slower than the others so that refusals happen at each gate. In the
store two saves race while a third request deletes or creates; a slug may be in
use by the other workflow. Three requests on one address are two that race, a
link or a session before them and one that comes in between; the second password
tells the old from the new. Two mappings are the fewest that can meet in a
container, paths of three tokens have a container in a container, and the
targets run through each other in every way: the same, above, below, beside, an
index where the other has a name. Two deletions race for one row. Where a theorem covers a property, no bound matters.

**Fairness.** `Executions`: weak fairness of a slot's own steps (the event loop
runs, `concurrency` slots), of the handing out of each waiting job, of the
expiry of a dead slot's lock, and of the stalled check, which BullMQ does
periodically. None of a user's actions or of mishaps is fair. `DagRunner`: weak
fairness of the walk; a dispatcher's call is aborted by its timeout, and backoff
sleeps are timers. `Schedules`: weak fairness of each toggle's and tick's steps
(the interval timer goes on), of a cron's firing and of the worker. The others
state no liveness: their handlers serve one request each, and a client may
go away. Deadlock checking is off only in the instances where each request is
made once, or where users may stop asking, so that the end of the world is legal.

### Disagreements with the documentation

Four runs end in a counterexample. Each checks one sentence of the repository.

| run | the sentence | what the code does |
|---|---|---|
| `dag_repeated_keys` | schema.ts:6-13, a workflow is a DAG and a malformed graph cannot reach the runner | nothing asks for unique keys; the cycle check compares counts of keys and nodes, and a repeated key hides a cycle |
| `schedules_run` | README.md:28, scheduling is implemented | a scheduled job's id is built in one format and parsed in another (`lib/workers.ts:29`): no scheduled job executes anything |
| `webhook_replay` | lib/ids.ts:8-10 and README.md:87, a replayed delivery cannot enqueue twice | the id holds the time of handling |
| `recovery_codes` | README.md:255 and mfa-section.tsx:150-151, a recovery code can be used once to sign in | the log-in route's schema refuses what is not six digits (`login/route.ts:20`): no recovery code reaches the code that takes it |

Where the code does less than one might read into it, the property says what it
does do, and its exceptions are the finding:

- a failed run has no dead letter if a crash or a throw comes between `updateRun`
  and `createDeadLetter` (execute.ts:119), and a run stays "started" if its slot
  dies before the status is written, because the job delivered again finds the
  row and does nothing (execute.ts:41); `LossesHaveCause` counts both against the
  mishaps, so that nothing else loses a run's end (that a slot which has still to
  write gets to it is the fairness of its steps);
- the dead letter is made of the last step record (execute.ts:118), a skipped
  node's if anything comes after the action that failed: it then says "Workflow
  failed." and one attempt, where runner.ts:13-14 and README.md:24 promise the
  action, its error and its attempts; `StatusTellsSteps` claims these only for an
  action that is last;
- `createWorkflow` writes the row first and the endpoint outside of a transaction
  (workflows.ts:131): with a slug in use a draft without an endpoint stays
  (`torn` in `ProjectionAgrees`);
- two resets may use one link if both had found it before either stored its
  password (auth.ts:261; `checked` in `SingleUse`); a log-in under way when the
  password changes gets a session younger than the change (auth.ts:94; `born` in
  `RevokedOnChange`); a crash between the two calls of the password route leaves
  the sessions (password/route.ts:37; only an answered change is claimed);
- a confirmation of the second factor that another enrolment, or its removal,
  overtakes leaves the factor on with a secret its user has no codes of
  (auth.ts:129-133; `overtaken` in `MfaConfirmed`);
- an invitation that is revoked while it is being accepted is both
  (invitations.ts:104; `pursued`); two requests can leave two pending invitations
  (`rivals`); an expired invitation blocks a new one until somebody revokes it,
  because the route does not ask for `expiresAt` (orgs/invitations/route.ts:48),
  although its mail says "If the link expires, ask an admin to send a new
  invitation" (:66): `Open` is what the route looks for, `Pending` what can be
  accepted, and `OneOpenInvitation` is about the latter; an invitation whose mail failed stays open without a link; the session of a new member says
  "member" whatever role the invitation gave ([token]/route.ts:67);
- an answer with a good status whose body breaks off is tried again, and was
  carried out (`RepeatsHaveCause`, second alternative); `setPath` drops what it
  cannot place without a word, and a mapping's missing source becomes a null that
  `exists` (`Free` and `Looked` in `MappedValuesArrive`).

## 4. What is proved

All theorems hold for any values of the constants that satisfy the named
assumptions: bounds are naturals (`BoundAssumption`, `ClockAssumption`), a
bucket's capacity and period are positive (`BucketAssumption`), the null values
are no members of the sets they stand beside (`NobodyAssumption`,
`NeverAssumption`, `NoneAssumption`), deliveries are well-formed and their
buckets exist (`DeliveryAssumption`), and there are finitely many requests
(`RequestAssumption`, for counting payers), toggles are not ticks
(`ActorAssumption`), stored graphs have the shape that zod's schemas let in, with
any keys, types and edges (`GraphAssumption`), the paths of mappings and the
places of a payload are sequences of tokens (`PathAssumption`), actions that need
a credential name one (`ConfigAssumption`), statuses are HTTP's
(`StatusAssumption`) and there is at least one attempt (`AttemptAssumption`,
`AttemptsAssumption`). TLC evaluates them in every run.

**Induction.** What `validateGraph`, `topoSort` and `applyTransform` compute are
folds. The library's induction theorems take an operator as a parameter and
cannot be used here, so `Induction` states its facts about sets and functions
instead: a set of numbers with 0 and the successor of each of its members has
all numbers (`NatSet`, `UpTo`, from the well-foundedness of <), there is a
function that unfolds a fold (`Unfolds`), and what it gives is the last of a
sequence of values of which each is a step from the one before (`Iterates`).
`AcceptSteps`, `QueueSteps`, `FollowSteps`, `KahnSteps`, `SpreadSteps` and
`TransformSteps` apply this to the folds of the models. After them a loop's
invariant is proved as in any proof of a program.

**DagRunner_proofs.** First the schema. `AcceptsRootedDags`: for every graph of
uniquely keyed nodes, in any order and with any edges, `ValidGraph` holds exactly
if it is a rooted DAG. Kahn's loop keeps `KahnInv`: what is left of a key's
in-degree counts the edges from nodes not yet visited, exactly the keys with
nothing left are visited or queued, none of them twice, and whoever has been
visited came after all of its predecessors. So when the queue is empty, the
unvisited nodes each have an unvisited predecessor; in an acyclic graph there are
none, and on a cycle nobody is ever visited. That the count of visited keys tells the two apart needs the
keys to be as many as the nodes. The breadth-first search visits what a path
leads to from the trigger, and nothing else.

Then the walk, whose invariant is `WalkInv`: the order is topoSort's (`Sorted`),
the step records are those of the nodes passed (`Placed`), they are all
successes or have one failure of the kind that the status names, with only skips
after it (`Story`), what succeeded has its output (`Produced`), and the dead
letter is due (`Settled`). `TypeCorrect` and `StatusTold` follow for any graph,
repeated keys included. With unique keys, whatever is upstream of a node stands
before it in the order, so `UpstreamFirst`, and `RetriesBounded` follows from what
the history says of the node at hand (`Asked`: it was asked about in the last
attempt, and nothing ahead was asked about at all; `FirstAsked`, `AskedAgain`,
`LastAnswer`). `ImplementsPipeline` is the refinement, step by step: `Parse`
refuses what `Pipeline` may refuse, an emitted success is a `Perform` that is
ready because its predecessors succeeded, a break is a `Halt`, `Return` concludes
when all keys are done. `WalksRootedDags` is the documentation's sentence
(schema.ts:6-13), which the run `dag_repeated_keys` refutes: it does hold once
keys are unique. Unique keys are a hypothesis of these theorems, not an
assumption on `StoredGraphs`, because the schema lets in graphs without them.

**Executions_proofs.** `TypeCorrect` (the types, and that what
requests, jobs and slots name has been requested), `RunsAtMostOnce`,
`StatusIsOutcome`, `LossesAreCaused`, `DeadLettersAreSound`, `AuditIsSound`, `RetriesAreQueued`, `RunsStand`,
`ImplementsLedger`. `AtMostOnce` is not inductive: a slot at
"run" may begin a pipeline that another has begun, as far as it says. What the
code relies on is the unique execution id, and, once the workflow is deleted and
its runs with it, the foreign key. So: an id is *Opened* if its run exists or
its workflow is gone; whatever was begun or concluded, or is owned by a slot
past its `createRun`, is Opened (`BegunIsOpened`); since `createRun` fails on an
Opened id, two slots never own the same (`OneOwner`); and what an owner has
still to do has not been done (`OwnersTurn`). With the types, references
(`Referenced`) and `RetryIsQueued` this is `IInv`. `ImplementsLedger` then takes
each action to a ledger step or a stutter: that `BeginPipeline` is the ledger's
`Perform`, which happens once, needs `OwnersTurn`. `RunsStand` is the action
property `ReportsStand` from the same invariant: an update can only write what a
final status shows already. `LossesAreCaused` counts. Its invariant is `LossInv`:
the lost ids (`LostIds`) are a finite set, no larger than the number of mishaps, and
a deleted workflow has no runs left (`ErasedWithWorkflow`). A step that is no mishap
adds nothing to the set, because what a slot has still to write is not lost yet
(`LostBySteps`) and what goes with its workflow is no loss; a mishap adds at most
the one id it befell (`LostByMishaps`).

**WebhookIngest_proofs.** First the limiter by itself, `LimiterKeepsRate`: what a bucket has given away and
still holds is bounded by its capacity, the time from its creation to its stamp,
and the intervals refilled twice because readings came out of order. The term
`rewound` is needed: without it the statement is false of this code.

Then the handler: `ImplementsLimiter` (a step of the handler is a step
of the limiter or leaves it alone; so `IngestKeepsRate` follows from the
limiter's theorem), `IngestTypeCorrect`, `IngestsPaidFor`, `IngestsGenuine`,
`AnswersTruly`. The invariant adds that a request in hand has the endpoint's
present row and the row it resolved among `rows`, and reads its clock after it
came in (`InHand`); that a timestamp the code accepts, in whole seconds, was due
and not too old to the millisecond (`WindowIsDue`); that every job has a maker who answered "queued" (`Makers`);
and that whoever is past a gate has paid there (`Charged`, a statement about
cardinalities: the next payer adds one to a finite set and one token to `spent`).

**Schedules_proofs.** `ScheduleTypes`, `DriftIsCaused`. The invariant: what an
actor has still to write is what its reading asks for (`Plans`, which
`ScheduleTypes` states with the types), and what it has
read of a workflow that nobody changed since is what the row asks for now
(`TicksKnow`, `TogglesKnow`). So whoever writes a scheduler without an outdated
reading writes what is due (`WritesAreDue`), and `DriftHasCause` follows.

**WorkflowStore_proofs.** `StoreTypes`, `GraphAndRowsAgree`, `SecretsAreKept`,
`VersionsNameGraphs`: all four properties of the store. `ProjectionAgrees` is not
inductive, because the rows a commit puts in place are known only by the place in
`Script` its transaction has reached. The invariant adds: one transaction holds
a row, one handler creates a workflow, and who saves beside a creation is noted
(`Alone`); what a handler sees of its workflow's rows follows `Script`
(`Follows`, `Progress`), which nobody else disturbs because a step touches no
other workflow (`Elsewhere`); open transactions whose endpoints could meet have
different slugs, since an insert waits (`Apart`); and the secret a save goes on
with is that of the rows there are (`SecretFound`). `OthersGoOn` carries what the
other handlers know over any step, so that each handler's step is proved by
itself (`Kept`).

**Invitations_proofs.** First the accounts by themselves: `AccountTypes`, `SessionsAreRevoked`, `LinksAreSingleUse`,
`FactorIsConfirmed`. Three requests act on what they read earlier, each with its
own reason why that is harmless: `FirstSession` (whatever session is created
after a change is younger than it), `LinksAreSpent` (a used link is gone and
never issued again, so whoever holds it too found it before) and `Confirming` (a
confirmation that was not overtaken still holds the current secret).

Then the invitations. `ImplementsAccounts`: a request about an invitation leaves
the account alone until it joins, so `Invitations` implements `Accounts`, and its
theorems carry over (`AccountPromises`). `InvitationTypes`, `AcceptedOnce`,
`RevokedIsOut`, `OpenOnce`: an invitation is marked only in the transaction that
makes the account (`NoneAccepted`), what is revoked under an acceptance is noted
(`Pursued`), and who has listed no open invitation where there is one now has a
rival (`Rivalry`).

**Dispatch_proofs.** `DispatchTypes`, `RepeatsAreCaused`, `SecretsAreGoverned`, for
any transforms, filters, statuses, limit of attempts and number of deleters. Only
an attempt that is not the last was given up for another, and `Attempts` says for
what reason; rows do not come back, and a secret is read after its attempt began
(`Secrets`). `SetThenGet`: getPath finds what setPath has written, for every value
and path, unless something is in the way. `MappedValuesAreRead` is
`MappedValuesArrive` for lists of mappings of any length between any paths. A
mapping that is `Free` is followed through the list: until its turn nothing comes
in its way (`OpenStays`), it lands (`Lands`), and what is written neither above nor
below leaves it and its containers as they are (`StandsStill`), so that getPath
finds it (`StandsFound`). The invariant `Filled` carries that to the requests:
the output stays what the mappings have made, an action is begun only if it
passed the filter, and a request says what its template makes of it.

**Only model-checked.** Liveness (`JobsSettle`, `AcceptedRuns`, `Terminates`,
`Reconciled`), which rests on `ENABLED`, and the prover does not
reason about that. Every invariant and every action property of the passing runs
is a theorem. `PipelineSpec`, `SeesUpstream` and `RetryPolicy` are theorems for
unique keys, which is what the run `dag_runner` has as well. The four
counterexamples are TLC's.

## 5. What is not modelled

- Cryptography, password hashing, one-time passwords and tokens as computations:
  byte-level and numeric code over library primitives. The models take "proves
  this secret" as given, a TOTP code's time window included.
- What JSON payloads hold beyond the shapes `Paths` tells apart, how the text of
  a path is cut into tokens, and how a value is written into a text.
- HTTP answers other than those a property is about (`retryAfterSeconds`, whose
  unit is wrong at ratelimit.ts:88, only changes a header).
- Roles: an admin's right to invite is a given, and the other routes ask for
  any member.
- Reading queries, pages, CSV, logging, e-mail, configuration, connections,
  health and queue counters, seed and migrations: no state a property is about.
- The expiry of a bucket's key: it comes long after the bucket is full again,
  and a full bucket answers like an absent one.
- BullMQ's own Lua scripts, PostgreSQL and Prisma: modelled from how the code
  uses them, as the map marks.

## 6. Plan

Done, in this order: `Executions` with its ledger; `GraphSchema`, `DagRunner`,
`Pipeline`; `Schedules`; `RateLimiter` and `WebhookIngest`; `WorkflowStore`;
`Accounts` and `Invitations`; `Paths` and `Dispatch`; and the proofs of all of
them. What would come next:

1. The safety half of the liveness properties as theorems: in `DagRunner` a
   measure that every step of the walk lowers, in `Schedules` that a tick which
   nobody overtakes leaves a workflow's schedule as it is due, in `Executions`
   that an unsettled job always has someone who may act on it.
2. An abstract specification of the webhook handler (an accepted delivery is one
   job), as `ExecutionLedger` is for executions, with its refinement.
3. Several organizations in `WorkflowStore` and several accounts in `Invitations`:
   they share the slugs and the addresses only.
4. The audit entries of the other routes, which now only `Executions` has.
