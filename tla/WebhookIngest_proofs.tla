------------------------ MODULE WebhookIngest_proofs ------------------------
(***************************************************************************)
(* Theorems about RateLimiter, for any number of buckets, any capacities   *)
(* and any order of clock readings, and about WebhookIngest, for any sets  *)
(* of requests, deliveries and endpoints and any buckets.                  *)
(*                                                                         *)
(* The argument. What a bucket has given away and what it holds are at     *)
(* most its capacity and what time has refilled. Every reading a gate      *)
(* takes is a time, so every step is a step of the limiter or leaves it    *)
(* alone. While a request is handled, rows holds what its endpoint is now  *)
(* and the row it has resolved; its readings come after its arrival.       *)
(* Whoever is past a gate has paid there, and every job has a maker whose  *)
(* answer was "queued".                                                    *)
(***************************************************************************)
EXTENDS WebhookIngest, TLAPS, FiniteSetTheorems
-----------------------------------------------------------------------------
(***************************************************************************)
(* The limiter (lib/ratelimit.ts).                                         *)
(***************************************************************************)

\* A full bucket is worth at least one token.
LEMMA FullIsPositive ==
    ASSUME NEW b \in Buckets
    PROVE  /\ Full(b) \in Nat
           /\ Period[b] \in Nat \ {0}
           /\ Period[b] <= Full(b)
<1>1. Capacity[b] \in Nat \ {0} /\ Period[b] \in Nat \ {0}
  BY BucketAssumption
<1>2. ASSUME NEW c \in Nat \ {0}, NEW p \in Nat \ {0}
      PROVE  c * p \in Nat /\ p <= c * p
  OBVIOUS
<1> QED
  BY <1>1, <1>2 DEF Full

\* What a script finds in a bucket, when its reading is a time.
LEMMA HeldBounds ==
    ASSUME LimiterTypeOK, NEW b \in Buckets, NEW now \in Nat
    PROVE  /\ Held(b, now) \in 0 .. Full(b)
           /\ ts[b] # Never =>
                 Held(b, now) <= level[b] + (IF now > ts[b] THEN now - ts[b] ELSE 0)
<1>1. Full(b) \in Nat
  BY FullIsPositive
<1>2. level[b] \in 0 .. Full(b) /\ ts[b] \in Nat \cup {Never}
  BY DEF LimiterTypeOK
<1>3. CASE ts[b] = Never
  BY <1>1, <1>2, <1>3 DEF Held
<1>4. CASE ts[b] # Never
  BY <1>1, <1>2, <1>4 DEF Held, Refilled
<1> QED
  BY <1>3, <1>4

\* A bucket without a hash has given nothing away.
Untouched == \A b \in Buckets : ts[b] = Never => spent[b] = 0

LimiterInv == LimiterTypeOK /\ Untouched /\ RateKept

LEMMA InitHolds == LimiterInit => LimiterInv
<1> SUFFICES ASSUME LimiterInit PROVE LimiterInv
  OBVIOUS
<1>1. \A b \in Buckets : Full(b) \in Nat
  BY FullIsPositive
<1>2. LimiterTypeOK
  BY <1>1, ClockAssumption DEF LimiterInit, LimiterTypeOK
<1>3. RateKept
  BY DEF LimiterInit, RateKept
<1>4. Untouched
  BY DEF LimiterInit, Untouched
<1> QED
  BY <1>2, <1>3, <1>4 DEF LimiterInv

\* One run of the script keeps the buckets' types.
LEMMA ConsumeKeepsType ==
    ASSUME LimiterTypeOK, NEW b \in Buckets, NEW now \in 0 .. clock, Consume(b, now)
    PROVE  LimiterTypeOK'
<1> DEFINE held == Held(b, now)
           gone == IF Allowed(b, now) THEN Period[b] ELSE 0
<1>1. Full(b) \in Nat /\ Period[b] \in Nat
  BY FullIsPositive
<1>2. now \in Nat /\ clock' = clock
  BY DEF LimiterTypeOK, Consume
<1>3. held \in 0 .. Full(b)
  BY <1>2, HeldBounds
<1>4. gone \in Nat /\ held - gone \in 0 .. Full(b)
  BY <1>1, <1>3 DEF Allowed
<1>5. level' = [level EXCEPT ![b] = held - gone]
  BY DEF Consume
<1>6. level' \in [Buckets -> Nat] /\ \A c \in Buckets : level'[c] \in 0 .. Full(c)
  <2> HIDE DEF held, gone
  <2> QED BY <1>1, <1>4, <1>5 DEF LimiterTypeOK
<1>7. ts' \in [Buckets -> Nat \cup {Never}]
  BY <1>2 DEF LimiterTypeOK, Consume, Stamp
<1>8. first' \in [Buckets -> Nat]
  BY <1>2 DEF LimiterTypeOK, Consume
<1>9. spent' \in [Buckets -> Nat]
  <2>1. spent' = [spent EXCEPT ![b] = spent[b] + gone]
    BY DEF Consume
  <2> HIDE DEF gone
  <2> QED BY <1>4, <2>1 DEF LimiterTypeOK
<1>10. rewound' \in [Buckets -> Nat]
  BY <1>2, NeverAssumption DEF LimiterTypeOK, Consume
<1> QED
  BY <1>2, <1>6, <1>7, <1>8, <1>9, <1>10 DEF LimiterTypeOK, Full

\* It spends out of what the bucket held, or what the time since has refilled.
LEMMA ConsumeKeepsRate ==
    ASSUME LimiterTypeOK, Untouched, RateKept, NEW b \in Buckets, NEW now \in 0 .. clock, Consume(b, now)
    PROVE  RateKept'
<1> SUFFICES ASSUME NEW c \in Buckets, ts'[c] # Never
             PROVE  spent'[c] + level'[c] <= Full(c) + (ts'[c] - first'[c]) + rewound'[c]
  BY DEF RateKept, Full
<1> DEFINE held == Held(b, now)
           gone == IF Allowed(b, now) THEN Period[b] ELSE 0
<1>1. CASE c # b
  BY <1>1 DEF LimiterTypeOK, RateKept, Consume
<1>2. CASE c = b
  <2>1. /\ Full(b) \in Nat /\ Period[b] \in Nat /\ now \in Nat
        /\ level[b] \in Nat /\ spent[b] \in Nat /\ first[b] \in Nat /\ rewound[b] \in Nat
    BY FullIsPositive DEF LimiterTypeOK
  <2>2. /\ level'[b] = held - gone
        /\ spent'[b] = spent[b] + gone
        /\ ts'[b] = now
        /\ first'[b] = IF ts[b] = Never THEN now ELSE first[b]
        /\ rewound'[b] = IF ts[b] # Never /\ now < ts[b]
                           THEN rewound[b] + (ts[b] - now) ELSE rewound[b]
    BY DEF LimiterTypeOK, Consume, Stamp
  <2>3. held \in Nat /\ gone \in Nat
    BY <2>1, HeldBounds
  <2>4. CASE ts[b] = Never
    <3>1. held = Full(b) /\ spent[b] = 0
      BY <2>4 DEF Held, Untouched
    <3> QED
      BY <1>2, <2>1, <2>2, <2>3, <2>4, <3>1
  <2>5. CASE ts[b] # Never
    <3>1. ts[b] \in Nat
      BY <2>5 DEF LimiterTypeOK
    <3>2. held <= level[b] + (IF now > ts[b] THEN now - ts[b] ELSE 0)
      BY <2>1, <2>5, HeldBounds
    <3>3. spent[b] + level[b] <= Full(b) + (ts[b] - first[b]) + rewound[b]
      BY <2>5 DEF RateKept
    <3> HIDE DEF held, gone
    <3> QED
      BY <1>2, <2>1, <2>2, <2>3, <2>5, <3>1, <3>2, <3>3
  <2> QED
    BY <2>4, <2>5
<1> QED
  BY <1>1, <1>2

\* A step of the limiter, or one that leaves it alone, keeps the invariant.
LEMMA StepKeepsLimiter ==
    ASSUME LimiterInv, [LimiterNext]_limiterVars
    PROVE  LimiterInv'
<1>1. CASE Tick
  <2>1. clock' \in 0 .. MaxClock
    BY <1>1, ClockAssumption DEF Tick, LimiterInv, LimiterTypeOK
  <2> QED
    BY <1>1, <2>1 DEF Tick, LimiterInv, LimiterTypeOK, Untouched, RateKept, Full
<1>2. ASSUME NEW b \in Buckets, NEW now \in 0 .. clock, Consume(b, now)
      PROVE  LimiterInv'
  <2>1. LimiterTypeOK'
    BY <1>2, ConsumeKeepsType DEF LimiterInv
  <2>2. RateKept'
    BY <1>2, ConsumeKeepsRate DEF LimiterInv
  <2>3. now # Never
    BY NeverAssumption DEF LimiterInv, LimiterTypeOK
  <2>4. Untouched'
    BY <1>2, <2>3 DEF LimiterInv, LimiterTypeOK, Untouched, Consume, Stamp
  <2> QED
    BY <2>1, <2>2, <2>4 DEF LimiterInv
<1>3. CASE UNCHANGED limiterVars
  BY <1>3 DEF limiterVars, LimiterInv, LimiterTypeOK, Untouched, RateKept, Full
<1> QED
  BY <1>1, <1>2, <1>3 DEF LimiterNext

(***************************************************************************)
(* Whatever the order of the readings, a bucket gives away no more than    *)
(* its capacity, the time since its creation and the intervals refilled    *)
(* twice: the promise of TOKEN_BUCKET_SCRIPT.                              *)
(***************************************************************************)
THEOREM LimiterKeepsRate == LimiterSpec => [](LimiterTypeOK /\ RateKept)
<1>1. LimiterInit => LimiterInv
  BY InitHolds
<1>2. LimiterInv /\ [LimiterNext]_limiterVars => LimiterInv'
  BY StepKeepsLimiter
<1>3. LimiterInv => LimiterTypeOK /\ RateKept
  BY DEF LimiterInv
<1> QED
  BY <1>1, <1>2, <1>3, PTL DEF LimiterSpec

-----------------------------------------------------------------------------
(***************************************************************************)
(* The route (app/api/hooks).                                              *)
(***************************************************************************)

Handling(r) == pc[r] \notin {"idle", "done"}

\* What a request in hand has seen.
InHand ==
    /\ \A r \in Requests : Handling(r) => RowOf(sent[r]) \in rows[r] /\ arrived[r] <= since[r]
    /\ \A r \in Requests : pc[r] = "deliver" =>
           /\ resolved[r] \in rows[r]
           /\ resolved[r].active
           /\ AddressOf(sent[r]) \in Addresses

\* Jobs, their makers, and the answers.
Makers ==
    /\ \A r \in Requests : made[r] # None <=> answer[r] = "queued"
    /\ \A r \in Requests : made[r] # None => \E j \in jobs : j.id = made[r]
    /\ \A j \in jobs : \E q \in Requests : made[q] = j.id /\ sent[q].body = j.body

PastEndpointGate == {"endpoint", "deliver"}
PastTenantGate == PastEndpointGate \cup {"endpointGate"}
PastIpGate == PastTenantGate \cup {"organization", "tenantGate"}

\* Who has paid a token of b for a job that is made or may still be.
Paid(r, b) ==
    \/ b = IpBucket(sent[r]) /\ (pc[r] \in PastIpGate \/ made[r] # None)
    \/ b = TenantBucket(sent[r]) /\ (pc[r] \in PastTenantGate \/ made[r] # None)
    \/ b = WebhookBucket(sent[r]) /\ (pc[r] \in PastEndpointGate \/ made[r] # None)
Payers(b) == {r \in Requests : Paid(r, b)}

Charged == \A b \in Buckets : Cardinality(Payers(b)) * Period[b] <= spent[b]

IInv == TypeOK /\ Untouched /\ RateKept /\ InHand /\ OnlyGenuine /\ Makers /\ Charged

-----------------------------------------------------------------------------
USE DEF handlerVars, ingestVars

\* A request in hand transmits a delivery, and its buckets exist.
LEMMA SentFacts ==
    ASSUME TypeOK, NEW r \in Requests, pc[r] # "idle"
    PROVE  /\ sent[r] \in Deliveries
           /\ sent[r] \in DeliveryType
           /\ {IpBucket(sent[r]), TenantBucket(sent[r]), WebhookBucket(sent[r])} \subseteq Buckets
  BY DeliveryAssumption DEF TypeOK

LEMMA TypeInit == Init => TypeOK
<1> SUFFICES ASSUME Init PROVE TypeOK
  OBVIOUS
<1>1. LimiterTypeOK
  BY InitHolds DEF Init, LimiterInv
<1>2. clock = 0
  BY DEF Init, LimiterInit
<1> QED
  BY <1>1, <1>2, NoneAssumption, BoundAssumption
     DEF Init, TypeOK, Steps, Answers

\* Answering and going on are all that the handler does with pc, since and answer.
LEMMA TypeAnswer ==
    ASSUME TypeOK, NEW r \in Requests, NEW a \in Answers, Answer(r, a)
    PROVE  /\ pc' \in [Requests -> Steps]
           /\ since' \in [Requests -> 0 .. clock]
           /\ answer' \in [Requests -> Answers \cup {None}]
  BY DEF TypeOK, LimiterTypeOK, Answer, Steps

LEMMA TypeProceed ==
    ASSUME TypeOK, NEW r \in Requests, NEW s \in Steps, Proceed(r, s)
    PROVE  /\ pc' \in [Requests -> Steps]
           /\ since' \in [Requests -> 0 .. clock]
           /\ answer' \in [Requests -> Answers \cup {None}]
  BY DEF TypeOK, LimiterTypeOK, Proceed

\* A gate: the script, with a reading that is a time, and the step it leads to.
LEMMA GateFacts ==
    ASSUME TypeOK, NEW r \in Requests, NEW step \in Steps \ {"idle", "done"}, NEW b \in Buckets,
           NEW next \in Steps, Gate(r, step, b, next)
    PROVE  /\ \E now \in 0 .. clock :
                 /\ Consume(b, now)
                 /\ IF Allowed(b, now) THEN Proceed(r, next) ELSE Answer(r, "429")
           /\ pc[r] = step
           /\ UNCHANGED <<row, sent, resolved, made, arrived, rows, jobs, changes>>
  BY DEF Gate, TypeOK, LimiterTypeOK

LEMMA GateKeepsType ==
    ASSUME TypeOK, NEW r \in Requests, NEW step \in Steps \ {"idle", "done"}, NEW b \in Buckets,
           NEW next \in Steps \ {"idle", "done", "deliver"}, Gate(r, step, b, next)
    PROVE  TypeOK'
<1>1. PICK now \in 0 .. clock :
         /\ Consume(b, now)
         /\ IF Allowed(b, now) THEN Proceed(r, next) ELSE Answer(r, "429")
  BY GateFacts
<1>2. pc[r] = step /\ UNCHANGED <<row, sent, resolved, made, arrived, rows, jobs, changes>>
  BY GateFacts
<1>3. LimiterTypeOK'
  BY <1>1, ConsumeKeepsType DEF TypeOK
<1>4. clock' = clock
  BY <1>1 DEF Consume
<1>5. /\ pc' \in [Requests -> Steps]
      /\ since' \in [Requests -> 0 .. clock]
      /\ answer' \in [Requests -> Answers \cup {None}]
  BY <1>1, TypeAnswer, TypeProceed DEF Answers
<1>6. "429" # None
  BY NoneAssumption DEF Answers
<1>7. /\ \A q \in Requests : pc'[q] = "idle" <=> sent'[q] = None
      /\ \A q \in Requests : pc'[q] = "done" <=> answer'[q] # None
      /\ \A q \in Requests : pc'[q] = "deliver" => resolved'[q] # None
  BY <1>1, <1>2, <1>6 DEF TypeOK, Answer, Proceed, Steps
<1> QED
  BY <1>2, <1>3, <1>4, <1>5, <1>7 DEF TypeOK

\* The steps of the handler that consume nothing.
LEMMA HandlerKeepsType ==
    ASSUME TypeOK, InHand, NEW r \in Requests,
           ResolveOrganization(r) \/ ResolveEndpoint(r) \/ Deliver(r)
    PROVE  TypeOK'
<1> USE NoneAssumption
<1>1. LimiterTypeOK' /\ clock' = clock
  BY DEF TypeOK, ResolveOrganization, ResolveEndpoint, Deliver, limiterVars, LimiterTypeOK, Full
<1>2. CASE ResolveOrganization(r)
  <2>1. \/ \E a \in Answers : Answer(r, a)
        \/ Proceed(r, "tenantGate")
    BY <1>2 DEF ResolveOrganization, Answers
  <2>2. /\ pc' \in [Requests -> Steps]
        /\ since' \in [Requests -> 0 .. clock]
        /\ answer' \in [Requests -> Answers \cup {None}]
    BY <2>1, TypeAnswer, TypeProceed DEF Steps
  <2>3. /\ \A q \in Requests : pc'[q] = "idle" <=> sent'[q] = None
        /\ \A q \in Requests : pc'[q] = "done" <=> answer'[q] # None
        /\ \A q \in Requests : pc'[q] = "deliver" => resolved'[q] # None
    BY <1>2, <2>1 DEF ResolveOrganization, TypeOK, Answer, Proceed, Steps
  <2> QED
    BY <1>1, <1>2, <2>2, <2>3 DEF ResolveOrganization, TypeOK
<1>3. CASE ResolveEndpoint(r)
  <2>1. \/ \E a \in Answers : Answer(r, a)
        \/ Proceed(r, "deliver") /\ resolved'[r] # None
    BY <1>3 DEF ResolveEndpoint, Answers, TypeOK
  <2>2. /\ pc' \in [Requests -> Steps]
        /\ since' \in [Requests -> 0 .. clock]
        /\ answer' \in [Requests -> Answers \cup {None}]
    BY <2>1, TypeAnswer, TypeProceed DEF Steps
  <2>3. resolved' \in [Requests -> Rows \cup {None}]
    BY <1>3 DEF ResolveEndpoint, RowOf, TypeOK
  <2>4. /\ \A q \in Requests : pc'[q] = "idle" <=> sent'[q] = None
        /\ \A q \in Requests : pc'[q] = "done" <=> answer'[q] # None
        /\ \A q \in Requests : pc'[q] = "deliver" => resolved'[q] # None
    BY <1>3, <2>1 DEF ResolveEndpoint, TypeOK, Answer, Proceed, Steps
  <2> QED
    BY <1>1, <1>3, <2>2, <2>3, <2>4 DEF ResolveEndpoint, TypeOK
<1>4. CASE Deliver(r)
  <2>1. \E a \in Answers : Answer(r, a)
    BY <1>4 DEF Deliver, Answers
  <2>2. /\ pc' \in [Requests -> Steps]
        /\ since' \in [Requests -> 0 .. clock]
        /\ answer' \in [Requests -> Answers \cup {None}]
    BY <2>1, TypeAnswer
  <2>3. /\ \A q \in Requests : pc'[q] = "idle" <=> sent'[q] = None
        /\ \A q \in Requests : pc'[q] = "done" <=> answer'[q] # None
        /\ \A q \in Requests : pc'[q] = "deliver" => resolved'[q] # None
    BY <1>4, <2>1 DEF Deliver, TypeOK, Answer, Steps
  <2>4. jobs' \subseteq [id : Ids, body : Bodies] /\ made' \in [Requests -> Ids \cup {None}]
    <3>1. CASE UNCHANGED <<jobs, made>>
      BY <3>1 DEF TypeOK
    <3>2. CASE ~UNCHANGED <<jobs, made>>
      <4>1. PICK at \in Nat, occurredAt \in Nat :
              /\ Add(IdOf(sent[r], at, occurredAt), sent[r].body)
              /\ made' = [made EXCEPT ![r] = IdOf(sent[r], at, occurredAt)]
        BY <1>4, <3>2 DEF Deliver, TypeOK, LimiterTypeOK
      <4>2. sent[r] \in DeliveryType /\ AddressOf(sent[r]) \in Addresses
        BY <1>4, SentFacts DEF Deliver, InHand
      <4>3. IdOf(sent[r], at, occurredAt) \in Ids /\ sent[r].body \in Bodies
        BY <4>2, DeliveryAssumption DEF IdOf, Ids, DeliveryType
      <4> QED
        BY <4>1, <4>3 DEF Add, TypeOK
    <3> QED
      BY <3>1, <3>2
  <2> QED
    BY <1>1, <1>4, <2>2, <2>3, <2>4 DEF Deliver, TypeOK
<1> QED
  BY <1>2, <1>3, <1>4

\* Users, arrivals and the clock.
LEMMA SurroundingsKeepType ==
    ASSUME TypeOK,
           \/ IngestTick
           \/ \E a \in Addresses, new \in Rows \cup {None} : ChangeRow(a, new)
           \/ \E r \in Requests, d \in Deliveries : Receive(r, d)
    PROVE  TypeOK'
<1>1. CASE IngestTick
  <2>1. clock' \in 0 .. MaxClock /\ clock' = clock + 1
    BY <1>1, ClockAssumption DEF IngestTick, Tick, TypeOK, LimiterTypeOK
  <2>2. LimiterTypeOK'
    BY <1>1, <2>1 DEF IngestTick, Tick, TypeOK, LimiterTypeOK, Full
  <2>3. since' \in [Requests -> 0 .. clock'] /\ arrived' \in [Requests -> 0 .. clock']
    BY <1>1, <2>1 DEF IngestTick, TypeOK, LimiterTypeOK
  <2> QED
    BY <1>1, <2>2, <2>3 DEF IngestTick, TypeOK
<1>2. ASSUME NEW a \in Addresses, NEW new \in Rows \cup {None}, ChangeRow(a, new)
      PROVE  TypeOK'
  <2>1. LimiterTypeOK' /\ clock' = clock
    BY <1>2 DEF ChangeRow, TypeOK, limiterVars, LimiterTypeOK, Full
  <2>2. row' \in [Addresses -> Rows \cup {None}] /\ rows' \in [Requests -> SUBSET (Rows \cup {None})]
    BY <1>2 DEF ChangeRow, TypeOK
  <2>3. changes' \in 0 .. MaxChanges
    BY <1>2, BoundAssumption DEF ChangeRow, TypeOK
  <2> QED
    BY <1>2, <2>1, <2>2, <2>3 DEF ChangeRow, TypeOK
<1>3. ASSUME NEW r \in Requests, NEW d \in Deliveries, Receive(r, d)
      PROVE  TypeOK'
  <2>1. LimiterTypeOK' /\ clock' = clock
    BY <1>3 DEF Receive, TypeOK, limiterVars, LimiterTypeOK, Full
  <2>2. /\ pc' \in [Requests -> Steps]
        /\ since' \in [Requests -> 0 .. clock]
        /\ answer' \in [Requests -> Answers \cup {None}]
    BY <1>3, TypeProceed DEF Receive, Steps
  <2>3. rows' \in [Requests -> SUBSET (Rows \cup {None})] /\ arrived' \in [Requests -> 0 .. clock]
    BY <1>3 DEF Receive, TypeOK, RowOf, LimiterTypeOK
  <2>4. d # None
    BY NoneAssumption
  <2>5. /\ \A q \in Requests : pc'[q] = "idle" <=> sent'[q] = None
        /\ \A q \in Requests : pc'[q] = "done" <=> answer'[q] # None
        /\ \A q \in Requests : pc'[q] = "deliver" => resolved'[q] # None
    BY <1>3, <2>4 DEF Receive, Proceed, TypeOK, Steps
  <2> QED
    BY <1>3, <2>1, <2>2, <2>3, <2>5 DEF Receive, TypeOK
<1> QED
  BY <1>1, <1>2, <1>3

-----------------------------------------------------------------------------
\* What the environment and the gates leave alone keeps its facts.
LEMMA InHandSurroundings ==
    ASSUME TypeOK, InHand, OnlyGenuine, Makers,
           \/ IngestTick
           \/ \E a \in Addresses, new \in Rows \cup {None} : ChangeRow(a, new)
           \/ \E r \in Requests, d \in Deliveries : Receive(r, d)
    PROVE  InHand' /\ OnlyGenuine'
<1>1. CASE IngestTick
  BY <1>1 DEF IngestTick, InHand, OnlyGenuine, Handling, RowOf
<1>2. ASSUME NEW a \in Addresses, NEW new \in Rows \cup {None}, ChangeRow(a, new)
      PROVE  InHand' /\ OnlyGenuine'
  <2>1. \A r \in Requests : rows[r] \subseteq rows'[r]
    BY <1>2 DEF ChangeRow, TypeOK
  <2>2. ASSUME NEW r \in Requests, Handling(r)
        PROVE  RowOf(sent[r])' \in rows'[r]
    <3>1. CASE AddressOf(sent[r]) = a
      <4>1. RowOf(sent[r])' = new
        BY <1>2, <3>1 DEF ChangeRow, RowOf, TypeOK, AddressOf
      <4>2. new \in rows'[r]
        BY <1>2, <2>2, <3>1 DEF ChangeRow, Handling
      <4> QED
        BY <4>1, <4>2
    <3>2. CASE AddressOf(sent[r]) # a
      <4>1. RowOf(sent[r])' = RowOf(sent[r])
        BY <1>2, <3>2 DEF ChangeRow, RowOf, TypeOK, AddressOf
      <4> QED
        BY <2>1, <2>2, <4>1 DEF InHand
    <3> QED
      BY <3>1, <3>2
  <2>3. InHand'
    BY <1>2, <2>1, <2>2 DEF ChangeRow, InHand, Handling, AddressOf
  <2>4. OnlyGenuine'
    BY <1>2, <2>1 DEF ChangeRow, OnlyGenuine
  <2> QED
    BY <2>3, <2>4
<1>3. ASSUME NEW r \in Requests, NEW d \in Deliveries, Receive(r, d)
      PROVE  InHand' /\ OnlyGenuine'
  <2>1. /\ \A q \in Requests \ {r} :
             /\ pc'[q] = pc[q] /\ sent'[q] = sent[q] /\ rows'[q] = rows[q]
             /\ arrived'[q] = arrived[q] /\ since'[q] = since[q]
        /\ UNCHANGED <<row, resolved, made>>
    BY <1>3 DEF Receive, Proceed, TypeOK
  <2>2. /\ pc'[r] = "ipGate" /\ sent'[r] = d /\ rows'[r] = {RowOf(d)}
        /\ arrived'[r] = clock /\ since'[r] = clock
    BY <1>3 DEF Receive, Proceed, TypeOK
  <2>3. \A q \in Requests \ {r} : RowOf(sent[q])' = RowOf(sent[q])
    BY <2>1 DEF RowOf, AddressOf
  <2>4. RowOf(sent[r])' = RowOf(d)
    BY <2>1, <2>2 DEF RowOf, AddressOf
  <2>5. ASSUME NEW q \in Requests, Handling(q)'
        PROVE  RowOf(sent[q])' \in rows'[q] /\ arrived'[q] <= since'[q]
    BY <2>1, <2>2, <2>3, <2>4, <2>5 DEF InHand, Handling, TypeOK, LimiterTypeOK
  <2>6. ASSUME NEW q \in Requests, pc'[q] = "deliver"
        PROVE  /\ resolved'[q] \in rows'[q] /\ resolved'[q].active
               /\ AddressOf(sent'[q]) \in Addresses
    BY <2>1, <2>2, <2>6 DEF InHand
  <2>7. InHand'
    BY <2>5, <2>6 DEF InHand, AddressOf
  <2>8. made[r] = None
    BY <1>3, NoneAssumption DEF Receive, Makers, TypeOK, Answers
  <2>9. OnlyGenuine'
    BY <2>1, <2>8 DEF OnlyGenuine
  <2> QED
    BY <2>7, <2>9
<1> QED
  BY <1>1, <1>2, <1>3

\* A gate goes on to another call, or answers.
LEMMA InHandGate ==
    ASSUME TypeOK, InHand, OnlyGenuine,
           NEW r \in Requests, NEW step \in Steps \ {"idle", "done"}, NEW b \in Buckets,
           NEW next \in Steps \ {"idle", "done", "deliver"}, Gate(r, step, b, next)
    PROVE  InHand' /\ OnlyGenuine'
<1>1. PICK now \in 0 .. clock :
         /\ Consume(b, now)
         /\ IF Allowed(b, now) THEN Proceed(r, next) ELSE Answer(r, "429")
  BY GateFacts
<1>2. pc[r] = step /\ UNCHANGED <<row, sent, resolved, made, arrived, rows, jobs, changes>>
  BY GateFacts
<1>3. \A q \in Requests : RowOf(sent[q])' = RowOf(sent[q])
  BY <1>2 DEF RowOf, AddressOf
<1>4. \A q \in Requests \ {r} : pc'[q] = pc[q] /\ since'[q] = since[q]
  BY <1>1 DEF Proceed, Answer, TypeOK
<1>5. pc'[r] = "done" \/ (pc'[r] = next /\ since'[r] = clock)
  BY <1>1 DEF Proceed, Answer, TypeOK
<1>6. InHand'
  <2>1. ASSUME NEW q \in Requests, Handling(q)'
        PROVE  RowOf(sent[q])' \in rows'[q] /\ arrived'[q] <= since'[q]
    BY <1>2, <1>3, <1>4, <1>5, <2>1 DEF InHand, Handling, TypeOK, LimiterTypeOK
  <2>2. ASSUME NEW q \in Requests, pc'[q] = "deliver"
        PROVE  q # r
    BY <1>5, <2>2
  <2> QED
    BY <1>2, <1>4, <2>1, <2>2 DEF InHand, AddressOf
<1>7. OnlyGenuine'
  BY <1>2 DEF OnlyGenuine
<1> QED
  BY <1>6, <1>7

\* What the code asks of whole seconds, in milliseconds.
LEMMA WindowIsDue ==
    ASSUME NEW stamp \in Int, NEW now \in Nat, IsWithinWindow(stamp, now)
    PROVE  stamp * Second <= now /\ now < (stamp + MaxAge + 1) * Second
<1> DEFINE seconds == now \div Second
<1>1. /\ seconds \in Nat
      /\ seconds * Second <= now /\ now < (seconds + 1) * Second
  BY BoundAssumption
<1>2. stamp <= seconds /\ seconds + 1 <= stamp + MaxAge + 1
  BY <1>1, BoundAssumption DEF IsWithinWindow
<1>3. \A m, n \in Int : m <= n => m * Second <= n * Second
  BY BoundAssumption
<1>4. stamp * Second <= seconds * Second
  BY <1>1, <1>2, <1>3
<1>5. (seconds + 1) * Second <= (stamp + MaxAge + 1) * Second
  BY <1>1, <1>2, <1>3, BoundAssumption
<1>6. now \in Int /\ seconds * Second \in Int /\ stamp * Second \in Int
      /\ (seconds + 1) * Second \in Int /\ (stamp + MaxAge + 1) * Second \in Int
  BY <1>1, BoundAssumption
<1> HIDE DEF seconds
<1> QED
  BY <1>1, <1>4, <1>5, <1>6

\* The calls that consume nothing, and the job at last.
LEMMA InHandHandler ==
    ASSUME TypeOK, InHand, OnlyGenuine, NEW r \in Requests,
           ResolveOrganization(r) \/ ResolveEndpoint(r) \/ Deliver(r)
    PROVE  InHand' /\ OnlyGenuine'
<1>1. UNCHANGED <<row, sent, arrived, rows>>
  BY DEF ResolveOrganization, ResolveEndpoint, Deliver
<1>2. \A q \in Requests : RowOf(sent[q])' = RowOf(sent[q])
  BY <1>1 DEF RowOf, AddressOf
<1>3. /\ \A q \in Requests \ {r} :
           pc'[q] = pc[q] /\ since'[q] = since[q] /\ resolved'[q] = resolved[q] /\ made'[q] = made[q]
      /\ pc'[r] = "done" \/ since'[r] = clock
      /\ Handling(r)
  BY DEF ResolveOrganization, ResolveEndpoint, Deliver, Answer, Proceed, TypeOK, Handling
<1>4. ASSUME NEW q \in Requests, Handling(q)'
      PROVE  RowOf(sent[q])' \in rows'[q] /\ arrived'[q] <= since'[q]
  BY <1>1, <1>2, <1>3, <1>4 DEF InHand, Handling, TypeOK, LimiterTypeOK
<1>5. ASSUME pc'[r] = "deliver"
      PROVE  /\ resolved'[r] \in rows'[r] /\ resolved'[r].active
             /\ AddressOf(sent'[r]) \in Addresses
  <2>1. /\ RowOf(sent[r]) # None /\ RowOf(sent[r]).active
        /\ resolved'[r] = RowOf(sent[r])
    BY <1>5 DEF ResolveOrganization, ResolveEndpoint, Deliver, Answer, Proceed, TypeOK
  <2> QED
    BY <1>1, <1>3, <2>1 DEF InHand, RowOf
<1>6. InHand'
  <2>1. ASSUME NEW q \in Requests, pc'[q] = "deliver"
        PROVE  /\ resolved'[q] \in rows'[q] /\ resolved'[q].active
               /\ AddressOf(sent'[q]) \in Addresses
    <3>1. CASE q = r
      BY <1>5, <2>1, <3>1
    <3>2. CASE q # r
      BY <1>1, <1>3, <2>1, <3>2 DEF InHand
    <3> QED
      BY <3>1, <3>2
  <2> QED
    BY <1>4, <2>1 DEF InHand, AddressOf
<1>7. ASSUME made'[r] # made[r]
      PROVE  /\ [key |-> sent[r].key, active |-> TRUE] \in rows[r]
             /\ \/ sent[r].scheme = "github"
                \/ \E now \in arrived[r] .. made'[r].at :
                      /\ sent[r].stamp * Second <= now
                      /\ now < (sent[r].stamp + MaxAge + 1) * Second
  <2>1. PICK now \in since[r] .. clock :
          /\ Verified(sent[r], resolved[r].key, now)
          /\ \E at \in now .. clock : \E occurredAt \in at .. clock :
               made' = [made EXCEPT ![r] = IdOf(sent[r], at, occurredAt)]
    BY <1>7 DEF ResolveOrganization, ResolveEndpoint, Deliver
  <2>2. PICK at \in now .. clock : \E occurredAt \in at .. clock :
               made'[r] = IdOf(sent[r], at, occurredAt)
    BY <2>1 DEF TypeOK
  <2>3. made'[r].at = at
    BY <2>2 DEF IdOf
  <2>4. pc[r] = "deliver"
    BY <1>7 DEF ResolveOrganization, ResolveEndpoint, Deliver
  <2>5. resolved[r] \in Rows /\ resolved[r] \in rows[r] /\ resolved[r].active
    BY <2>4 DEF InHand, TypeOK
  <2>6. resolved[r] = [key |-> sent[r].key, active |-> TRUE]
    BY <2>1, <2>5 DEF Rows, Verified
  <2>7. arrived[r] <= since[r]
    BY <1>3 DEF InHand
  <2>8. now \in arrived[r] .. at
    BY <2>7 DEF TypeOK, LimiterTypeOK
  <2>9. ASSUME sent[r].scheme # "github"
        PROVE  sent[r].stamp * Second <= now /\ now < (sent[r].stamp + MaxAge + 1) * Second
    <3>1. sent[r].stamp \in Int /\ now \in Nat
      BY <1>1, <2>4, <2>8, DeliveryAssumption DEF TypeOK, LimiterTypeOK, DeliveryType
    <3> QED
      BY <2>1, <2>9, <3>1, WindowIsDue DEF Verified
  <2> QED
    BY <2>3, <2>5, <2>6, <2>8, <2>9
<1>8. OnlyGenuine'
  BY <1>1, <1>3, <1>7 DEF OnlyGenuine
<1> QED
  BY <1>6, <1>8

-----------------------------------------------------------------------------
\* A step that makes no job, and answers "queued" to nobody, keeps the makers.
LEMMA MakersQuiet ==
    ASSUME TypeOK, Makers, UNCHANGED <<jobs, made>>,
           \A q \in Requests : made[q] # None => sent'[q] = sent[q],
           \A q \in Requests : answer'[q] = "queued" <=> answer[q] = "queued"
    PROVE  Makers'
<1>1. ASSUME NEW j \in jobs PROVE \E q \in Requests : made'[q] = j.id /\ sent'[q].body = j.body
  <2>1. PICK q \in Requests : made[q] = j.id /\ sent[q].body = j.body
    BY DEF Makers
  <2>2. made[q] # None
    BY <2>1, NoneAssumption DEF TypeOK
  <2> QED
    BY <2>1, <2>2
<1> QED
  BY <1>1 DEF Makers

\* The job made is there, under the id answered, or one with that id was already.
LEMMA MakersDeliver ==
    ASSUME TypeOK, InHand, Makers, NEW r \in Requests, Deliver(r), ~UNCHANGED <<jobs, made>>
    PROVE  Makers'
<1>1. PICK at \in Nat, occurredAt \in Nat :
        /\ Add(IdOf(sent[r], at, occurredAt), sent[r].body)
        /\ made' = [made EXCEPT ![r] = IdOf(sent[r], at, occurredAt)]
        /\ Answer(r, "queued")
  BY DEF Deliver, TypeOK, LimiterTypeOK
<1> DEFINE id == IdOf(sent[r], at, occurredAt)
<1>2. sent[r] \in DeliveryType /\ AddressOf(sent[r]) \in Addresses
  BY SentFacts DEF Deliver, InHand
<1>3. id \in Ids /\ id # None
  BY <1>2, DeliveryAssumption, NoneAssumption DEF IdOf, Ids, DeliveryType
<1>4. made[r] = None /\ sent' = sent
  BY NoneAssumption DEF Deliver, Makers, TypeOK, Answers
<1> HIDE DEF id
<1>5. jobs' = IF \E j \in jobs : j.id = id THEN jobs ELSE jobs \cup {[id |-> id, body |-> sent[r].body]}
  BY <1>1 DEF Add, id
<1>6. made' = [made EXCEPT ![r] = id]
  BY <1>1 DEF id
<1>7. \A q \in Requests : made'[q] # None <=> answer'[q] = "queued"
  BY <1>1, <1>3, <1>6 DEF Makers, Answer, TypeOK
<1>8. ASSUME NEW q \in Requests, made'[q] # None
      PROVE  \E j \in jobs' : j.id = made'[q]
  <2>1. jobs \subseteq jobs'
    BY <1>5
  <2>2. \E j \in jobs' : j.id = id
    <3>1. CASE \E j \in jobs : j.id = id
      BY <2>1, <3>1
    <3>2. CASE ~\E j \in jobs : j.id = id
      <4>1. [id |-> id, body |-> sent[r].body] \in jobs'
        BY <1>5, <3>2
      <4> QED
        BY <4>1
    <3> QED
      BY <3>1, <3>2
  <2>3. CASE q = r
    BY <1>6, <2>2, <2>3 DEF TypeOK
  <2>4. CASE q # r
    BY <1>6, <1>8, <2>1, <2>4 DEF Makers, TypeOK
  <2> QED
    BY <2>3, <2>4
<1>9. ASSUME NEW j \in jobs' PROVE \E q \in Requests : made'[q] = j.id /\ sent'[q].body = j.body
  <2>1. CASE j \in jobs
    <3>1. PICK q \in Requests : made[q] = j.id /\ sent[q].body = j.body
      BY <2>1 DEF Makers
    <3>2. q # r
      BY <1>4, <2>1, <3>1, NoneAssumption DEF TypeOK
    <3> QED
      BY <1>4, <1>6, <3>1, <3>2 DEF TypeOK
  <2>2. CASE j \notin jobs
    <3>1. j = [id |-> id, body |-> sent[r].body]
      BY <1>5, <2>2
    <3>2. made'[r] = j.id /\ sent'[r].body = j.body
      BY <1>4, <1>6, <3>1 DEF TypeOK
    <3> QED
      BY <3>2
  <2> QED
    BY <2>1, <2>2
<1> QED
  BY <1>7, <1>8, <1>9 DEF Makers

-----------------------------------------------------------------------------
LEMMA PayersFinite ==
    ASSUME NEW S \in SUBSET Requests
    PROVE  IsFiniteSet(S) /\ Cardinality(S) \in Nat
  BY RequestAssumption, FS_Subset, FS_CardinalityType

\* Nobody new among those who have paid.
LEMMA ChargedQuiet ==
    ASSUME TypeOK, NEW b \in Buckets, Cardinality(Payers(b)) * Period[b] <= spent[b],
           Payers(b)' \subseteq Payers(b), spent'[b] \in Nat, spent[b] <= spent'[b]
    PROVE  Cardinality(Payers(b)') * Period[b] <= spent'[b]
<1>1. IsFiniteSet(Payers(b)) /\ Payers(b) \subseteq Requests
  BY PayersFinite DEF Payers
<1>2. /\ Cardinality(Payers(b)') \in Nat /\ Cardinality(Payers(b)) \in Nat
      /\ Cardinality(Payers(b)') <= Cardinality(Payers(b))
  BY <1>1, FS_Subset, FS_CardinalityType
<1>3. Period[b] \in Nat /\ spent[b] \in Nat
  BY BucketAssumption DEF TypeOK, LimiterTypeOK
<1>4. \A m, n, p \in Nat : m <= n => m * p <= n * p
  OBVIOUS
<1>5. Cardinality(Payers(b)') * Period[b] <= Cardinality(Payers(b)) * Period[b]
  BY <1>2, <1>3, <1>4
<1>6. Cardinality(Payers(b)') * Period[b] \in Nat /\ Cardinality(Payers(b)) * Period[b] \in Nat
  BY <1>2, <1>3
<1> QED
  BY <1>3, <1>5, <1>6

\* One more, and its token with it.
LEMMA ChargedOne ==
    ASSUME TypeOK, NEW b \in Buckets, Cardinality(Payers(b)) * Period[b] <= spent[b],
           NEW r \in Requests, Payers(b)' \subseteq Payers(b) \cup {r},
           spent'[b] = spent[b] + Period[b]
    PROVE  Cardinality(Payers(b)') * Period[b] <= spent'[b]
<1>1. IsFiniteSet(Payers(b)) /\ IsFiniteSet(Payers(b) \cup {r})
  BY PayersFinite, FS_AddElement DEF Payers
<1>2. /\ Cardinality(Payers(b)') \in Nat /\ Cardinality(Payers(b)) \in Nat
      /\ Cardinality(Payers(b)') <= Cardinality(Payers(b)) + 1
  <2>1. Cardinality(Payers(b) \cup {r}) <= Cardinality(Payers(b)) + 1
    BY <1>1, FS_AddElement, FS_CardinalityType
  <2>2. Cardinality(Payers(b)') <= Cardinality(Payers(b) \cup {r}) /\ IsFiniteSet(Payers(b)')
    BY <1>1, FS_Subset
  <2> QED
    BY <1>1, <2>1, <2>2, FS_CardinalityType
<1>3. Period[b] \in Nat /\ spent[b] \in Nat
  BY BucketAssumption DEF TypeOK, LimiterTypeOK
<1>4. \A m, n, p \in Nat : m <= n + 1 => m * p <= n * p + p
  <2> SUFFICES ASSUME NEW m \in Nat, NEW n \in Nat, NEW p \in Nat, m <= n + 1
               PROVE  m * p <= n * p + p
    OBVIOUS
  <2>1. m * p <= (n + 1) * p
    OBVIOUS
  <2>2. (n + 1) * p = n * p + p
    OBVIOUS
  <2> QED
    BY <2>1, <2>2
<1>5. Cardinality(Payers(b)') * Period[b] <= Cardinality(Payers(b)) * Period[b] + Period[b]
  BY <1>2, <1>3, <1>4
<1>6. Cardinality(Payers(b)') * Period[b] \in Nat /\ Cardinality(Payers(b)) * Period[b] \in Nat
  BY <1>2, <1>3
<1> QED
  BY <1>3, <1>5, <1>6

\* A step that spends nothing, and takes nobody past a gate.
LEMMA ChargedElsewhere ==
    ASSUME TypeOK, Charged, UNCHANGED spent,
           \A b \in Buckets : Payers(b)' \subseteq Payers(b)
    PROVE  Charged'
<1> SUFFICES ASSUME NEW b \in Buckets
             PROVE  Cardinality(Payers(b)') * Period[b] <= spent'[b]
  BY DEF Charged
<1> QED
  BY ChargedQuiet DEF Charged, TypeOK, LimiterTypeOK

\* Where nobody gets past a gate without the gate.
LEMMA PayersKept ==
    ASSUME TypeOK, UNCHANGED <<sent, made>>,
           NEW r \in Requests, \A q \in Requests \ {r} : pc'[q] = pc[q],
           pc'[r] \in PastIpGate => pc[r] \in PastIpGate,
           pc'[r] \in PastTenantGate => pc[r] \in PastTenantGate,
           pc'[r] \in PastEndpointGate => pc[r] \in PastEndpointGate,
           NEW b
    PROVE  Payers(b)' \subseteq Payers(b)
<1> SUFFICES ASSUME NEW q \in Requests, Paid(q, b)' PROVE Paid(q, b)
  BY DEF Payers
<1> QED
  BY DEF Paid, IpBucket, TenantBucket, WebhookBucket

LEMMA ChargedGate ==
    ASSUME TypeOK, Charged,
           NEW r \in Requests, NEW step \in Steps \ {"idle", "done"}, NEW b \in Buckets,
           NEW next \in Steps \ {"idle", "done", "deliver"}, Gate(r, step, b, next), TypeOK',
           next \in PastIpGate => step \in PastIpGate \/ b = IpBucket(sent[r]),
           next \in PastTenantGate => step \in PastTenantGate \/ b = TenantBucket(sent[r]),
           next \in PastEndpointGate => step \in PastEndpointGate \/ b = WebhookBucket(sent[r])
    PROVE  Charged'
<1>1. PICK now \in 0 .. clock :
         /\ Consume(b, now)
         /\ IF Allowed(b, now) THEN Proceed(r, next) ELSE Answer(r, "429")
  BY GateFacts
<1>2. pc[r] = step /\ UNCHANGED <<sent, made>>
  BY GateFacts
<1>3. \A q \in Requests \ {r} : pc'[q] = pc[q]
  BY <1>1 DEF Proceed, Answer, TypeOK
<1>4. CASE ~Allowed(b, now)
  <2>1. UNCHANGED spent
    BY <1>1, <1>4 DEF Consume, TypeOK, LimiterTypeOK
  <2>2. pc'[r] = "done"
    BY <1>1, <1>4 DEF Answer, TypeOK
  <2>3. \A c \in Buckets : Payers(c)' \subseteq Payers(c)
    BY <1>2, <1>3, <2>2, PayersKept DEF PastIpGate, PastTenantGate, PastEndpointGate
  <2> QED
    BY <2>1, <2>3, ChargedElsewhere
<1>5. CASE Allowed(b, now)
  <2>1. /\ spent'[b] = spent[b] + Period[b]
        /\ \A c \in Buckets \ {b} : spent'[c] = spent[c]
    BY <1>1, <1>5 DEF Consume, TypeOK, LimiterTypeOK
  <2>2. pc'[r] = next
    BY <1>1, <1>5 DEF Proceed, TypeOK
  <2>3. ASSUME NEW c \in Buckets, NEW q \in Requests, Paid(q, c)', ~Paid(q, c)
        PROVE  q = r /\ c = b
    BY <1>2, <1>3, <2>2, <2>3 DEF Paid, IpBucket, TenantBucket, WebhookBucket
  <2>4. ASSUME NEW c \in Buckets \ {b}
        PROVE  Cardinality(Payers(c)') * Period[c] <= spent'[c]
    <3>1. Payers(c)' \subseteq Payers(c)
      BY <2>3, <2>4 DEF Payers
    <3> QED
      BY <2>1, <3>1, ChargedQuiet DEF Charged, TypeOK, LimiterTypeOK
  <2>5. Cardinality(Payers(b)') * Period[b] <= spent'[b]
    <3>1. Payers(b)' \subseteq Payers(b) \cup {r}
      BY <2>3 DEF Payers
    <3> QED
      BY <2>1, <3>1, ChargedOne DEF Charged
  <2> QED
    BY <2>4, <2>5 DEF Charged
<1> QED
  BY <1>4, <1>5

\* Who answers or goes on past no gate, makes no job or makes it past them all.
LEMMA ChargedHandler ==
    ASSUME TypeOK, Charged, InHand, NEW r \in Requests,
           ResolveOrganization(r) \/ ResolveEndpoint(r) \/ Deliver(r)
    PROVE  Charged'
<1>1. UNCHANGED <<sent, spent>>
  BY DEF ResolveOrganization, ResolveEndpoint, Deliver, limiterVars
<1>2. \A q \in Requests \ {r} : pc'[q] = pc[q] /\ made'[q] = made[q]
  BY DEF ResolveOrganization, ResolveEndpoint, Deliver, Answer, Proceed, TypeOK
<1>3. \/ pc'[r] = "done"
      \/ pc[r] = "organization" /\ pc'[r] = "tenantGate"
      \/ pc[r] = "endpoint" /\ pc'[r] = "deliver"
  BY DEF ResolveOrganization, ResolveEndpoint, Deliver, Answer, Proceed, TypeOK
<1>4. made'[r] # made[r] => pc[r] = "deliver"
  BY DEF ResolveOrganization, ResolveEndpoint, Deliver
<1>5. ASSUME NEW b \in Buckets, NEW q \in Requests, Paid(q, b)'
      PROVE  Paid(q, b)
  BY <1>1, <1>2, <1>3, <1>4, <1>5
     DEF Paid, IpBucket, TenantBucket, WebhookBucket, PastIpGate, PastTenantGate, PastEndpointGate
<1>6. \A b \in Buckets : Payers(b)' \subseteq Payers(b)
  BY <1>5 DEF Payers
<1> QED
  BY <1>1, <1>6, ChargedElsewhere

LEMMA ChargedSurroundings ==
    ASSUME TypeOK, Charged, Makers,
           \/ IngestTick
           \/ \E a \in Addresses, new \in Rows \cup {None} : ChangeRow(a, new)
           \/ \E r \in Requests, d \in Deliveries : Receive(r, d)
    PROVE  Charged'
<1>1. UNCHANGED <<spent, made>>
  BY DEF IngestTick, Tick, ChangeRow, Receive, limiterVars
<1>2. ASSUME NEW b \in Buckets, NEW q \in Requests, Paid(q, b)'
      PROVE  Paid(q, b)
  <2>1. CASE IngestTick
    BY <1>2, <2>1 DEF IngestTick, Paid, IpBucket, TenantBucket, WebhookBucket
  <2>2. CASE \E a \in Addresses, new \in Rows \cup {None} : ChangeRow(a, new)
    BY <1>2, <2>2 DEF ChangeRow, Paid, IpBucket, TenantBucket, WebhookBucket
  <2>3. ASSUME NEW r \in Requests, NEW d \in Deliveries, Receive(r, d)
        PROVE  Paid(q, b)
    <3>1. made[r] = None
      BY <2>3, NoneAssumption DEF Receive, Makers, TypeOK, Answers
    <3>2. pc'[r] = "ipGate"
      BY <2>3 DEF Receive, Proceed, TypeOK
    <3>3. q # r
      BY <1>1, <1>2, <3>1, <3>2 DEF Paid, PastIpGate, PastTenantGate, PastEndpointGate
    <3>4. pc'[q] = pc[q] /\ sent'[q] = sent[q]
      BY <2>3, <3>3 DEF Receive, Proceed, TypeOK
    <3> QED
      BY <1>1, <1>2, <3>4 DEF Paid, IpBucket, TenantBucket, WebhookBucket
  <2> QED
    BY <2>1, <2>2, <2>3
<1>3. \A b \in Buckets : Payers(b)' \subseteq Payers(b)
  BY <1>2 DEF Payers
<1> QED
  BY <1>1, <1>3, ChargedElsewhere

-----------------------------------------------------------------------------
\* A gate keeps the whole invariant but the limiter's own part.
LEMMA GateKeeps ==
    ASSUME IInv,
           NEW r \in Requests, NEW step \in Steps \ {"idle", "done"}, NEW b \in Buckets,
           NEW next \in Steps \ {"idle", "done", "deliver"}, Gate(r, step, b, next),
           next \in PastIpGate => step \in PastIpGate \/ b = IpBucket(sent[r]),
           next \in PastTenantGate => step \in PastTenantGate \/ b = TenantBucket(sent[r]),
           next \in PastEndpointGate => step \in PastEndpointGate \/ b = WebhookBucket(sent[r])
    PROVE  TypeOK' /\ InHand' /\ OnlyGenuine' /\ Makers' /\ Charged'
<1>1. TypeOK'
  BY GateKeepsType DEF IInv
<1>2. InHand' /\ OnlyGenuine'
  BY InHandGate DEF IInv
<1>3. Makers'
  <2>1. UNCHANGED <<jobs, made, sent>>
    BY DEF Gate
  <2>2. answer[r] = None
    BY DEF Gate, IInv, TypeOK
  <2>3. \E a \in {None, "429"} : answer' = [answer EXCEPT ![r] = a]
    BY <2>2 DEF Gate, Proceed, Answer, IInv, TypeOK
  <2>4. \A q \in Requests : answer'[q] = "queued" <=> answer[q] = "queued"
    BY <2>2, <2>3, NoneAssumption DEF IInv, TypeOK, Answers
  <2> QED
    BY <2>1, <2>4, MakersQuiet DEF IInv
<1>4. Charged'
  BY <1>1, ChargedGate DEF IInv
<1> QED
  BY <1>1, <1>2, <1>3, <1>4

LEMMA HandlerKeeps ==
    ASSUME IInv, NEW r \in Requests,
           ResolveOrganization(r) \/ ResolveEndpoint(r) \/ Deliver(r)
    PROVE  TypeOK' /\ InHand' /\ OnlyGenuine' /\ Makers' /\ Charged'
<1>1. TypeOK'
  BY HandlerKeepsType DEF IInv
<1>2. InHand' /\ OnlyGenuine'
  BY InHandHandler DEF IInv
<1>3. Makers'
  <2>1. CASE ~UNCHANGED <<jobs, made>>
    BY <2>1, MakersDeliver DEF ResolveOrganization, ResolveEndpoint, IInv
  <2>2. CASE UNCHANGED <<jobs, made>>
    <3>1. UNCHANGED sent
      BY DEF ResolveOrganization, ResolveEndpoint, Deliver
    <3>2. answer[r] = None
      BY DEF ResolveOrganization, ResolveEndpoint, Deliver, IInv, TypeOK
    <3>3. answer'[r] # "queued"
      <4>1. CASE ResolveOrganization(r) \/ ResolveEndpoint(r)
        BY <3>2, <4>1, NoneAssumption
           DEF ResolveOrganization, ResolveEndpoint, Answer, Proceed, IInv, TypeOK, Answers
      <4>2. CASE Deliver(r)
        <5>1. made[r] = None
          BY <3>2, NoneAssumption DEF IInv, Makers, Answers
        <5>2. \/ answer'[r] = "401"
              \/ \E at \in Nat, occurredAt \in Nat : made'[r] = IdOf(sent[r], at, occurredAt)
          <6>1. since[r] \in Nat /\ clock \in Nat
            BY DEF IInv, TypeOK, LimiterTypeOK
          <6>2. \/ Answer(r, "401")
                \/ \E at \in Nat, occurredAt \in Nat :
                        made' = [made EXCEPT ![r] = IdOf(sent[r], at, occurredAt)]
            BY <4>2, <6>1 DEF Deliver
          <6> QED
            BY <6>2 DEF Answer, IInv, TypeOK
        <5>3. sent[r] \in DeliveryType /\ AddressOf(sent[r]) \in Addresses
          BY <4>2, SentFacts DEF Deliver, IInv, InHand
        <5>4. \A at \in Nat, occurredAt \in Nat : IdOf(sent[r], at, occurredAt) # None
          BY <5>3, DeliveryAssumption, NoneAssumption DEF IdOf, Ids, DeliveryType
        <5> QED
          BY <2>2, <5>1, <5>2, <5>4
      <4> QED
        BY <4>1, <4>2
    <3>4. \A q \in Requests \ {r} : answer'[q] = answer[q]
      BY DEF ResolveOrganization, ResolveEndpoint, Deliver, Answer, Proceed, IInv, TypeOK
    <3>5. \A q \in Requests : answer'[q] = "queued" <=> answer[q] = "queued"
      BY <3>2, <3>3, <3>4, NoneAssumption DEF Answers
    <3> QED
      BY <2>2, <3>1, <3>5, MakersQuiet DEF IInv
  <2> QED
    BY <2>1, <2>2
<1>4. Charged'
  BY ChargedHandler DEF IInv
<1> QED
  BY <1>1, <1>2, <1>3, <1>4

LEMMA SurroundingsKeep ==
    ASSUME IInv,
           \/ IngestTick
           \/ \E a \in Addresses, new \in Rows \cup {None} : ChangeRow(a, new)
           \/ \E r \in Requests, d \in Deliveries : Receive(r, d)
    PROVE  TypeOK' /\ InHand' /\ OnlyGenuine' /\ Makers' /\ Charged'
<1>1. TypeOK'
  BY SurroundingsKeepType DEF IInv
<1>2. InHand' /\ OnlyGenuine'
  BY InHandSurroundings DEF IInv
<1>3. Makers'
  <2>1. UNCHANGED <<jobs, made, answer>>
    BY DEF IngestTick, ChangeRow, Receive, Proceed
  <2>2. ASSUME NEW r \in Requests, NEW d \in Deliveries, Receive(r, d)
        PROVE  made[r] = None /\ \A q \in Requests \ {r} : sent'[q] = sent[q]
    BY <2>2, NoneAssumption DEF Receive, IInv, Makers, TypeOK, Answers
  <2>3. \A q \in Requests : made[q] # None => sent'[q] = sent[q]
    BY <2>2 DEF IngestTick, ChangeRow
  <2> QED
    BY <2>1, <2>3, MakersQuiet DEF IInv
<1>4. Charged'
  BY ChargedSurroundings DEF IInv
<1> QED
  BY <1>1, <1>2, <1>3, <1>4

-----------------------------------------------------------------------------
LEMMA InitKeeps == Init => IInv
<1> SUFFICES ASSUME Init PROVE IInv
  OBVIOUS
<1>1. TypeOK
  BY TypeInit
<1>2. Untouched /\ RateKept
  BY InitHolds DEF Init, LimiterInv
<1>3. InHand /\ OnlyGenuine
  BY DEF Init, InHand, OnlyGenuine, Handling
<1>4. Makers
  BY NoneAssumption DEF Init, Makers, Answers
<1>5. Charged
  <2> SUFFICES ASSUME NEW b \in Buckets
               PROVE  Cardinality(Payers(b)) * Period[b] <= spent[b]
    BY DEF Charged
  <2>1. Payers(b) = {}
    BY DEF Init, Payers, Paid, PastIpGate, PastTenantGate, PastEndpointGate
  <2>2. Period[b] \in Nat
    BY BucketAssumption
  <2> QED
    BY <2>1, <2>2, FS_EmptySet DEF Init, LimiterInit
<1> QED
  BY <1>1, <1>2, <1>3, <1>4, <1>5 DEF IInv

\* Each reading is one the limiter allows.
LEMMA StepIsLimiters ==
    ASSUME TypeOK, [Next]_vars
    PROVE  [LimiterNext]_limiterVars
<1>1. CASE IngestTick
  BY <1>1 DEF IngestTick, LimiterNext
<1>2. ASSUME NEW a \in Addresses, NEW new \in Rows \cup {None}, ChangeRow(a, new)
      PROVE  UNCHANGED limiterVars
  BY <1>2 DEF ChangeRow
<1>3. ASSUME NEW r \in Requests, NEW d \in Deliveries, Receive(r, d)
      PROVE  UNCHANGED limiterVars
  BY <1>3 DEF Receive
<1>4. ASSUME NEW r \in Requests, Handle(r)
      PROVE  [LimiterNext]_limiterVars
  <2>1. CASE ResolveOrganization(r) \/ ResolveEndpoint(r) \/ Deliver(r)
    BY <2>1 DEF ResolveOrganization, ResolveEndpoint, Deliver
  <2>2. CASE IpGate(r) \/ TenantGate(r) \/ EndpointGate(r)
    <3>1. /\ IpBucket(sent[r]) \in Buckets /\ TenantBucket(sent[r]) \in Buckets
          /\ WebhookBucket(sent[r]) \in Buckets
      BY <2>2, SentFacts DEF IpGate, TenantGate, EndpointGate, Gate
    <3>2. \E b \in Buckets : \E now \in since[r] .. clock : Consume(b, now)
      BY <2>2, <3>1 DEF IpGate, TenantGate, EndpointGate, Gate
    <3>3. \E b \in Buckets : \E now \in 0 .. clock : Consume(b, now)
      BY <3>2 DEF TypeOK, LimiterTypeOK
    <3> QED
      BY <3>3 DEF LimiterNext
  <2> QED
    BY <1>4, <2>1, <2>2 DEF Handle
<1>5. CASE UNCHANGED vars
  BY <1>5 DEF vars
<1> QED
  BY <1>1, <1>2, <1>3, <1>4, <1>5 DEF Next

LEMMA StepKeeps ==
    ASSUME IInv, [Next]_vars
    PROVE  IInv'
<1>1. Untouched' /\ RateKept'
  BY StepIsLimiters, StepKeepsLimiter DEF IInv, TypeOK, LimiterInv
<1>2. TypeOK' /\ InHand' /\ OnlyGenuine' /\ Makers' /\ Charged'
  <2>1. CASE \/ IngestTick
             \/ \E a \in Addresses, new \in Rows \cup {None} : ChangeRow(a, new)
             \/ \E r \in Requests, d \in Deliveries : Receive(r, d)
    BY <2>1, SurroundingsKeep
  <2>2. ASSUME NEW r \in Requests, ResolveOrganization(r) \/ ResolveEndpoint(r) \/ Deliver(r)
        PROVE  TypeOK' /\ InHand' /\ OnlyGenuine' /\ Makers' /\ Charged'
    BY <2>2, HandlerKeeps
  <2>3. ASSUME NEW r \in Requests, IpGate(r)
        PROVE  TypeOK' /\ InHand' /\ OnlyGenuine' /\ Makers' /\ Charged'
    <3>1. IpBucket(sent[r]) \in Buckets
      BY <2>3, SentFacts DEF IpGate, Gate, IInv
    <3>2. "organization" \notin PastTenantGate
      BY DEF PastTenantGate, PastEndpointGate
    <3>3. "organization" \notin PastEndpointGate
      BY DEF PastEndpointGate
    <3> QED
      BY <2>3, <3>1, <3>2, <3>3, GateKeeps DEF IpGate, Steps
  <2>4. ASSUME NEW r \in Requests, TenantGate(r)
        PROVE  TypeOK' /\ InHand' /\ OnlyGenuine' /\ Makers' /\ Charged'
    <3>1. TenantBucket(sent[r]) \in Buckets
      BY <2>4, SentFacts DEF TenantGate, Gate, IInv
    <3>2. "tenantGate" \in PastIpGate
      BY DEF PastIpGate
    <3>3. "endpointGate" \notin PastEndpointGate
      BY DEF PastEndpointGate
    <3> QED
      BY <2>4, <3>1, <3>2, <3>3, GateKeeps DEF TenantGate, Steps
  <2>5. ASSUME NEW r \in Requests, EndpointGate(r)
        PROVE  TypeOK' /\ InHand' /\ OnlyGenuine' /\ Makers' /\ Charged'
    <3>1. WebhookBucket(sent[r]) \in Buckets
      BY <2>5, SentFacts DEF EndpointGate, Gate, IInv
    <3>2. "endpointGate" \in PastTenantGate /\ "endpointGate" \in PastIpGate
      BY DEF PastTenantGate, PastIpGate
    <3> QED
      BY <2>5, <3>1, <3>2, GateKeeps DEF EndpointGate, Steps
  <2>6. CASE UNCHANGED vars
    BY <2>6 DEF vars, limiterVars, IInv, TypeOK, LimiterTypeOK, Full, InHand, Handling, RowOf, OnlyGenuine,
                Makers, Charged, Payers, Paid
  <2> QED
    BY <2>1, <2>2, <2>3, <2>4, <2>5, <2>6 DEF Next, Handle
<1> QED
  BY <1>1, <1>2 DEF IInv

LEMMA Invariance == Spec => []IInv
<1>1. IInv /\ [Next]_vars => IInv'
  BY StepKeeps
<1> QED
  BY <1>1, InitKeeps, PTL DEF Spec

(***************************************************************************)
(* The variables of the endpoint, its rows, its queue and its buckets keep *)
(* their types, whatever requests and users do.                            *)
(***************************************************************************)
THEOREM IngestTypeCorrect == Spec => []TypeOK
  BY Invariance, PTL DEF IInv

(***************************************************************************)
(* The endpoint uses its buckets as the limiter allows: every step is one  *)
(* run of the script with a reading that is a time, a tick, or none of the *)
(* limiter's business.                                                     *)
(***************************************************************************)
THEOREM ImplementsLimiter == Spec => LimiterSpec
<1>1. Init => LimiterInit
  BY DEF Init
<1>2. TypeOK /\ [Next]_vars => [LimiterNext]_limiterVars
  BY StepIsLimiters
<1> QED
  BY <1>1, <1>2, IngestTypeCorrect, PTL DEF Spec, LimiterSpec

(***************************************************************************)
(* So its buckets give away no more than they may.                         *)
(***************************************************************************)
THEOREM IngestKeepsRate == Spec => []RateKept
  BY ImplementsLimiter, LimiterKeepsRate, PTL

(***************************************************************************)
(* Every job stands for a delivery signed with a secret the endpoint had   *)
(* while its request was handled, for a workflow active at that moment,    *)
(* within the window.                                                      *)
(***************************************************************************)
THEOREM IngestsGenuine == Spec => []OnlyGenuine
  BY Invariance, PTL DEF IInv

(***************************************************************************)
(* A request told "queued" has its job, or an equal id took its place; a   *)
(* refused one has none.                                                   *)
(***************************************************************************)
THEOREM AnswersTruly == Spec => []AnsweredTruly
<1>1. IInv => AnsweredTruly
  BY DEF IInv, Makers, AnsweredTruly
<1> QED
  BY <1>1, Invariance, PTL

(***************************************************************************)
(* However requests interleave, jobs have each cost a token in each of the *)
(* three buckets.                                                          *)
(***************************************************************************)
THEOREM IngestsPaidFor == Spec => []JobsArePaidFor
<1>1. ASSUME IInv PROVE JobsArePaidFor
  <2>1. ASSUME NEW b \in Buckets
        PROVE  Cardinality(MadeThrough(b)) * Period[b] <= spent[b]
    <3>1. MadeThrough(b) \subseteq Payers(b) /\ Payers(b) \subseteq Requests
      BY DEF MadeThrough, Payers, Paid
    <3>2. /\ Cardinality(MadeThrough(b)) \in Nat /\ Cardinality(Payers(b)) \in Nat
          /\ Cardinality(MadeThrough(b)) <= Cardinality(Payers(b))
      BY <3>1, PayersFinite, FS_Subset, FS_CardinalityType
    <3>3. Period[b] \in Nat /\ spent[b] \in Nat
      BY <1>1, BucketAssumption DEF IInv, TypeOK, LimiterTypeOK
    <3>4. \A m, n, p \in Nat : m <= n => m * p \in Nat /\ n * p \in Nat /\ m * p <= n * p
      OBVIOUS
    <3>5. /\ Cardinality(MadeThrough(b)) * Period[b] \in Nat /\ Cardinality(Payers(b)) * Period[b] \in Nat
          /\ Cardinality(MadeThrough(b)) * Period[b] <= Cardinality(Payers(b)) * Period[b]
      BY <3>2, <3>3, <3>4
    <3>6. Cardinality(Payers(b)) * Period[b] <= spent[b]
      BY <1>1 DEF IInv, Charged
    <3> QED
      BY <3>3, <3>5, <3>6
  <2>2. \A j \in jobs : \E r \in Requests : made[r] = j.id
    BY <1>1 DEF IInv, Makers
  <2> QED
    BY <2>1, <2>2 DEF JobsArePaidFor
<1> QED
  BY <1>1, Invariance, PTL
=============================================================================
