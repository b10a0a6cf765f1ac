---------------------------- MODULE RateLimiter ----------------------------
(***************************************************************************)
(* The token buckets of lib/ratelimit.ts, each a Redis hash { tokens, ts } *)
(* that one atomic Lua script refills and takes from.                      *)
(*                                                                         *)
(* Time is in milliseconds.  A bucket's level is counted in milliseconds   *)
(* of refill: a token is worth Period[b] of them, and a millisecond        *)
(* refills one.  The caller reads its clock before it calls the script, so *)
(* the reading a script runs with may be older than the last one's.        *)
(*                                                                         *)
(* EXPIRE is left out: its ttl, counted in seconds, is a thousand times    *)
(* what an empty bucket takes to fill, and by then a full bucket and an    *)
(* absent one give the same answers.                                       *)
(***************************************************************************)
EXTENDS Integers

CONSTANTS
    Buckets,        \* the keys
    Capacity,       \* of each bucket, in tokens
    Period,         \* the milliseconds in which each regains a token
    Never,          \* the timestamp of a bucket that has no hash yet
    MaxClock        \* bound on the clock

ASSUME BucketAssumption ==
    /\ Capacity \in [Buckets -> Nat \ {0}]
    /\ Period \in [Buckets -> Nat \ {0}]
ASSUME NeverAssumption == Never \notin Nat
ASSUME ClockAssumption == MaxClock \in Nat

VARIABLES
    clock,      \* the time
    level,      \* what each bucket held after its last script
    ts,         \* the reading that script ran with
    first,      \* history: the reading a bucket was created with
    spent,      \* history: what each bucket has given away
    rewound     \* history: how far readings older than ts have set ts back

limiterVars == <<clock, level, ts, first, spent, rewound>>

Full(b) == Capacity[b] * Period[b]

LimiterInit ==
    /\ clock = 0
    /\ level = [b \in Buckets |-> Full(b)]
    /\ ts = [b \in Buckets |-> Never]
    /\ first = [b \in Buckets |-> 0]
    /\ spent = [b \in Buckets |-> 0]
    /\ rewound = [b \in Buckets |-> 0]

\* min(capacity, tokens + max(0, now - ts) * refill)
Refilled(b, now) ==
    LET held == level[b] + (IF now > ts[b] THEN now - ts[b] ELSE 0)
    IN  IF held > Full(b) THEN Full(b) ELSE held

Held(b, now) == IF ts[b] = Never THEN Full(b) ELSE Refilled(b, now)

\* Mutant: one token too many.
Allowed_AtZero(b, now) == Held(b, now) >= 0

Allowed(b, now) == Held(b, now) >= Period[b]

\* Mutant: ts is written only with the hash.
Stamp_Once(b, now) == IF ts[b] = Never THEN now ELSE ts[b]

\* ts is set to the reading, even to one that is older.
Stamp(b, now) == now

\* One run of the script.
Consume(b, now) ==
    /\ level' = [level EXCEPT ![b] = Held(b, now) - (IF Allowed(b, now) THEN Period[b] ELSE 0)]
    /\ ts' = [ts EXCEPT ![b] = Stamp(b, now)]
    /\ first' = [first EXCEPT ![b] = IF ts[b] = Never THEN now ELSE @]
    /\ spent' = [spent EXCEPT ![b] = @ + (IF Allowed(b, now) THEN Period[b] ELSE 0)]
    /\ rewound' = [rewound EXCEPT ![b] = IF ts[b] # Never /\ now < ts[b] THEN @ + (ts[b] - now) ELSE @]
    /\ UNCHANGED clock

Tick ==
    /\ clock < MaxClock
    /\ clock' = clock + 1
    /\ UNCHANGED <<level, ts, first, spent, rewound>>

LimiterNext == Tick \/ \E b \in Buckets, now \in 0 .. clock : Consume(b, now)

LimiterSpec == LimiterInit /\ [][LimiterNext]_limiterVars

-----------------------------------------------------------------------------
LimiterTypeOK ==
    /\ clock \in 0 .. MaxClock
    /\ \A b \in Buckets : level[b] \in 0 .. Full(b)
    /\ level \in [Buckets -> Nat]
    /\ ts \in [Buckets -> Nat \cup {Never}]
    /\ first \in [Buckets -> Nat]
    /\ spent \in [Buckets -> Nat]
    /\ rewound \in [Buckets -> Nat]

(***************************************************************************)
(* A bucket gives away no more than its capacity, what the time since its  *)
(* creation refills, and the intervals that readings out of order made it  *)
(* refill twice; what it still holds counts too.  (The script refills from *)
(* ts to the caller's reading, and every other caller may have come in     *)
(* between.)                                                               *)
(***************************************************************************)
RateKept ==
    \A b \in Buckets :
        ts[b] # Never => spent[b] + level[b] <= Full(b) + (ts[b] - first[b]) + rewound[b]
=============================================================================
