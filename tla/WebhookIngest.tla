--------------------------- MODULE WebhookIngest ---------------------------
(***************************************************************************)
(* The webhook endpoint app/api/webhooks/[org]/[endpoint]/route.ts, with   *)
(* the buckets of RateLimiter, the endpoint rows users edit meanwhile      *)
(* (lib/data/webhooks.ts), signatures (lib/sig.ts), execution ids          *)
(* (lib/ids.ts) and the queue the accepted events go to (lib/queue.ts).    *)
(*                                                                         *)
(* A delivery is the message a sender signed; a request transmits one, and *)
(* senders repeat deliveries.  Each call a handler awaits is a step.  The  *)
(* clock readings it takes between two calls are any moments between them. *)
(* A call that throws or a server that stops leaves its request where it   *)
(* is, for ever: nothing but the answer follows the job, so that needs no  *)
(* action of its own, nor does an answer lost on its way.                  *)
(***************************************************************************)
EXTENDS RateLimiter, FiniteSets

CONSTANTS
    Requests,       \* HTTP requests
    Deliveries,     \* what senders may transmit: records of DeliveryType
    Organizations,  \* the organizations that exist
    Addresses,      \* the endpoints: <<organization, slug>>
    Keys,           \* their HMAC secrets
    Bodies,         \* request bodies
    Prefix,         \* the first 24 bytes of each body
    None,           \* no delivery, no endpoint row, no answer, no job
    Second,         \* the milliseconds of a second
    MaxAge,         \* WEBHOOK_MAX_AGE_SECONDS
    MaxChanges      \* bound on what users do

IpBucket(d) == <<"ip", d.ip>>
TenantBucket(d) == <<"org", d.org>>
WebhookBucket(d) == <<"webhook", d.slug>>
AddressOf(d) == <<d.org, d.slug>>

\* key: the secret it is signed with; stamp: the timestamp it is signed with,
\* in seconds, which the github scheme does not have.
DeliveryType ==
    [ip : STRING, org : STRING, slug : STRING, body : Bodies, large : BOOLEAN,
     scheme : {"relay", "stripe", "github"}, stamp : Int, key : Keys]

ASSUME DeliveryAssumption ==
    /\ Deliveries \subseteq DeliveryType
    /\ \A d \in Deliveries : {IpBucket(d), TenantBucket(d), WebhookBucket(d)} \subseteq Buckets
    /\ Prefix \in [Bodies -> STRING]
ASSUME RequestAssumption == IsFiniteSet(Requests)
ASSUME BoundAssumption ==
    Second \in Nat \ {0} /\ MaxAge \in Nat /\ MaxChanges \in Nat

Answers == {"429", "413", "404", "skipped", "401", "queued"}
Rows == [key : Keys, active : BOOLEAN]
Ids == [to : Addresses, prefix : STRING, at : Nat, occurredAt : Nat]
ASSUME NoneAssumption ==
    None \notin Deliveries /\ None \notin Rows /\ None \notin Ids /\ None \notin Answers

VARIABLES
    row,        \* of each endpoint: its secret, and whether its workflow is active
    pc,         \* the call each request's handler makes next
    sent,       \* the delivery it transmits
    since,      \* when its last call returned
    resolved,   \* the row it has read
    answer,     \* what it has answered
    jobs,       \* the queue's jobs: [id, body]
    made,       \* history: the id it has enqueued
    arrived,    \* history: when it came in
    rows,       \* history: the rows its endpoint has had since
    changes

handlerVars == <<pc, sent, since, resolved, answer, made, arrived, rows>>
ingestVars == <<row, handlerVars, jobs, changes>>
vars == <<limiterVars, ingestVars>>

Init ==
    /\ LimiterInit
    /\ row \in [Addresses -> Rows \cup {None}]
    /\ pc = [r \in Requests |-> "idle"]
    /\ sent = [r \in Requests |-> None]
    /\ since = [r \in Requests |-> 0]
    /\ resolved = [r \in Requests |-> None]
    /\ answer = [r \in Requests |-> None]
    /\ jobs = {}
    /\ made = [r \in Requests |-> None]
    /\ arrived = [r \in Requests |-> 0]
    /\ rows = [r \in Requests |-> {}]
    /\ changes = 0

-----------------------------------------------------------------------------
(***************************************************************************)
(* Users replace, remove or restore an endpoint's row, and pause or        *)
(* activate its workflow.                                                  *)
(***************************************************************************)
ChangeRow(a, new) ==
    /\ row[a] # new
    /\ changes < MaxChanges
    /\ changes' = changes + 1
    /\ row' = [row EXCEPT ![a] = new]
    /\ rows' = [r \in Requests |->
                  IF pc[r] \notin {"idle", "done"} /\ AddressOf(sent[r]) = a
                    THEN rows[r] \cup {new} ELSE rows[r]]
    /\ UNCHANGED <<limiterVars, pc, sent, since, resolved, answer, made, arrived, jobs>>

-----------------------------------------------------------------------------
(***************************************************************************)
(* The handler, POST.                                                      *)
(***************************************************************************)
RowOf(d) == IF AddressOf(d) \in Addresses THEN row[AddressOf(d)] ELSE None

Answer(r, a) ==
    /\ pc' = [pc EXCEPT ![r] = "done"]
    /\ since' = [since EXCEPT ![r] = 0]
    /\ answer' = [answer EXCEPT ![r] = a]

Proceed(r, step) ==
    /\ pc' = [pc EXCEPT ![r] = step]
    /\ since' = [since EXCEPT ![r] = clock]
    /\ UNCHANGED answer

Receive(r, d) ==
    /\ pc[r] = "idle"
    /\ Proceed(r, "ipGate")
    /\ sent' = [sent EXCEPT ![r] = d]
    /\ arrived' = [arrived EXCEPT ![r] = clock]
    /\ rows' = [rows EXCEPT ![r] = {RowOf(d)}]
    /\ UNCHANGED <<limiterVars, row, resolved, made, jobs, changes>>

\* A gate takes from its bucket with a reading since the last call.
Gate(r, step, b, next) ==
    /\ pc[r] = step
    /\ \E now \in since[r] .. clock :
           /\ Consume(b, now)
           /\ IF Allowed(b, now) THEN Proceed(r, next) ELSE Answer(r, "429")
    /\ UNCHANGED <<row, sent, resolved, made, arrived, rows, jobs, changes>>

IpGate(r) == Gate(r, "ipGate", IpBucket(sent[r]), "organization")

\* The body's size, then the organization.
ResolveOrganization(r) ==
    /\ pc[r] = "organization"
    /\ \/ sent[r].large /\ Answer(r, "413")
       \/ ~sent[r].large /\ sent[r].org \notin Organizations /\ Answer(r, "404")
       \/ ~sent[r].large /\ sent[r].org \in Organizations /\ Proceed(r, "tenantGate")
    /\ UNCHANGED <<limiterVars, row, sent, resolved, made, arrived, rows, jobs, changes>>

TenantGate(r) == Gate(r, "tenantGate", TenantBucket(sent[r]), "endpointGate")

\* Mutant: the organization's bucket again.
EndpointGate_Tenant(r) == Gate(r, "endpointGate", TenantBucket(sent[r]), "endpoint")

EndpointGate(r) == Gate(r, "endpointGate", WebhookBucket(sent[r]), "endpoint")

\* The row as the database has it now.
ResolveEndpoint(r) ==
    /\ pc[r] = "endpoint"
    /\ \/ RowOf(sent[r]) = None /\ Answer(r, "404") /\ UNCHANGED resolved
       \/ /\ RowOf(sent[r]) # None
          /\ \/ ~RowOf(sent[r]).active /\ Answer(r, "skipped")
             \/ RowOf(sent[r]).active /\ Proceed(r, "deliver")
          /\ resolved' = [resolved EXCEPT ![r] = RowOf(sent[r])]
    /\ UNCHANGED <<limiterVars, row, sent, made, arrived, rows, jobs, changes>>

\* Mutant: a timestamp ahead of the clock will do.
IsWithinWindow_Ahead(stamp, now) == (now \div Second) - stamp <= MaxAge

\* isWithinWindow, on whole seconds.
IsWithinWindow(stamp, now) ==
    LET age == (now \div Second) - stamp
    IN  age >= 0 /\ age <= MaxAge

\* verifyWebhookSignature; github's scheme has no timestamp.
Verified(d, secret, now) ==
    /\ d.scheme = "github" \/ IsWithinWindow(d.stamp, now)
    /\ d.key = secret

\* deriveExecutionId over an event whose id is the body's first bytes and a reading.
IdOf(d, at, occurredAt) ==
    [to |-> AddressOf(d), prefix |-> Prefix[d.body], at |-> at, occurredAt |-> occurredAt]

\* Mutant: one job at a time for an endpoint.
Add_OnePerEndpoint(id, body) ==
    jobs' = IF \E j \in jobs : j.id.to = id.to THEN jobs ELSE jobs \cup {[id |-> id, body |-> body]}

\* Queue.add: an id the queue has already is not added again.
Add(id, body) ==
    jobs' = IF \E j \in jobs : j.id = id THEN jobs ELSE jobs \cup {[id |-> id, body |-> body]}

\* The signature, the event and its id, and the job.
Deliver(r) ==
    /\ pc[r] = "deliver"
    /\ \E now \in since[r] .. clock :
         \/ /\ ~Verified(sent[r], resolved[r].key, now)
            /\ Answer(r, "401")
            /\ UNCHANGED <<jobs, made>>
         \/ /\ Verified(sent[r], resolved[r].key, now)
            /\ \E at \in now .. clock : \E occurredAt \in at .. clock :
                 LET id == IdOf(sent[r], at, occurredAt)
                 IN  /\ Add(id, sent[r].body)
                     /\ made' = [made EXCEPT ![r] = id]
            /\ Answer(r, "queued")
    /\ UNCHANGED <<limiterVars, row, sent, resolved, arrived, rows, changes>>

IngestTick == Tick /\ UNCHANGED ingestVars

Handle(r) ==
    \/ IpGate(r) \/ ResolveOrganization(r) \/ TenantGate(r) \/ EndpointGate(r)
    \/ ResolveEndpoint(r) \/ Deliver(r)

Next ==
    \/ IngestTick
    \/ \E a \in Addresses, new \in Rows \cup {None} : ChangeRow(a, new)
    \/ \E r \in Requests :
          \/ \E d \in Deliveries : Receive(r, d)
          \/ Handle(r)

Spec == Init /\ [][Next]_vars

-----------------------------------------------------------------------------
Steps == {"idle", "ipGate", "organization", "tenantGate", "endpointGate", "endpoint", "deliver", "done"}

\* What every variable holds: limiter, rows, handlers, jobs and the bounds.
TypeOK ==
    /\ LimiterTypeOK
    /\ row \in [Addresses -> Rows \cup {None}]
    /\ pc \in [Requests -> Steps]
    /\ sent \in [Requests -> Deliveries \cup {None}]
    /\ since \in [Requests -> 0 .. clock]
    /\ resolved \in [Requests -> Rows \cup {None}]
    /\ answer \in [Requests -> Answers \cup {None}]
    /\ jobs \subseteq [id : Ids, body : Bodies]
    /\ made \in [Requests -> Ids \cup {None}]
    /\ arrived \in [Requests -> 0 .. clock]
    /\ rows \in [Requests -> SUBSET (Rows \cup {None})]
    /\ \A r \in Requests : pc[r] = "idle" <=> sent[r] = None
    /\ \A r \in Requests : pc[r] = "done" <=> answer[r] # None
    /\ \A r \in Requests : pc[r] = "deliver" => resolved[r] # None
    /\ changes \in 0 .. MaxChanges

(***************************************************************************)
(* Nothing enters the queue for free: an endpoint's jobs, across all of    *)
(* the requests that made them, have each cost a token of the ip's, the    *)
(* organization's and the slug's bucket.  (The order of the gates, their   *)
(* early returns, and the queue.)                                          *)
(***************************************************************************)
MadeThrough(b) ==
    {r \in Requests : made[r] # None
                      /\ b \in {IpBucket(sent[r]), TenantBucket(sent[r]), WebhookBucket(sent[r])}}

JobsArePaidFor ==
    /\ \A b \in Buckets : Cardinality(MadeThrough(b)) * Period[b] <= spent[b]
    /\ \A j \in jobs : \E r \in Requests : made[r] = j.id

(***************************************************************************)
(* A job stands for a delivery that was signed with a secret its endpoint  *)
(* had, on behalf of a workflow that was active, at one and the same       *)
(* moment since the request came in, and whose timestamp was due and no    *)
(* older than MaxAge seconds, the one it is in not counted, at some moment *)
(* since then.  (The row is read in one step, the clock in a later one,    *)
(* and users edit the row meanwhile; the code compares whole seconds, this *)
(* is in milliseconds.)                                                    *)
(***************************************************************************)
OnlyGenuine ==
    \A r \in Requests : made[r] # None =>
        /\ [key |-> sent[r].key, active |-> TRUE] \in rows[r]
        /\ \/ sent[r].scheme = "github"
           \/ \E now \in arrived[r] .. made[r].at :
                 /\ sent[r].stamp * Second <= now
                 /\ now < (sent[r].stamp + MaxAge + 1) * Second

(***************************************************************************)
(* A sender told "queued" has a job under the id it was given, with its    *)
(* own body, unless a body with the same first 24 bytes took the very same *)
(* id first.  And no refused request has a job.                            *)
(***************************************************************************)
AnsweredTruly ==
    \A r \in Requests :
        /\ answer[r] = "queued" =>
               \E j \in jobs :
                   /\ j.id = made[r]
                   /\ \/ j.body = sent[r].body
                      \/ \E q \in Requests \ {r} : made[q] = made[r] /\ sent[q].body = j.body
        /\ answer[r] \notin {None, "queued"} => made[r] = None

(***************************************************************************)
(* lib/ids.ts:8-10: "The same delivery always maps to the same execution   *)
(* so a replayed webhook cannot produce a duplicate run"; README.md:87: "a *)
(* replayed delivery cannot enqueue twice".  (The event's id holds the     *)
(* time at which the request was handled.)                                 *)
(***************************************************************************)
ReplayIsOneRun ==
    \A r, q \in Requests :
        made[r] # None /\ made[q] # None /\ sent[r] = sent[q] => made[r] = made[q]
=============================================================================
