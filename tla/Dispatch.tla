------------------------------ MODULE Dispatch ------------------------------
(***************************************************************************)
(* A transform node, a filter and the action after them: applyTransform's  *)
(* mappings, evaluateConditions, the attempts of executeActionWithRetry,   *)
(* dispatchStep's request with its template and its credential             *)
(* (lib/dispatch), and the credential's row (lib/data/credentials), which  *)
(* users create and delete meanwhile.                                      *)
(*                                                                         *)
(* The other side is not this program: a request that has left may be      *)
(* carried out at any time until it is answered, also long after the       *)
(* sender has given it up, and its answer may stop half way.               *)
(***************************************************************************)
EXTENDS Paths, SequencesExt

CONSTANTS
    Nodes,          \* an action's config, the filter and the mappings before it
    Numbers,        \* the scalars that are numbers, and what they are
    Texts,          \* which texts contain, start with, end with and match which
    Payload,        \* what a mapping reads from
    Reads,          \* the path in the action's template
    Deleters,       \* requests to delete the credential
    Statuses,       \* what the other side may answer
    MaxAttempts,    \* MAX_STEP_ATTEMPTS
    MaxMishaps      \* bound: database calls that throw

\* The subtypes but http differ in where their texts go, and always have a
\* credential.  A malformed path makes a template throw when it is filled in.
Config == [subtype : {"http", "slack"}, auth : {"none", "credential"},
           malformed : {"none", "header", "body"}]

ASSUME ConfigAssumption ==
    \A c \in {node.config : node \in Nodes} :
        c \in Config /\ (c.subtype = "slack" => c.auth = "credential" /\ c.malformed # "header")
\* path.ts cuts a path's text into tokens, and a JSON value has places only.
ASSUME PathAssumption ==
    /\ DOMAIN Payload \subseteq Seq(Token)
    /\ \A node \in Nodes : node.mappings \in Seq([from : Seq(Token), to : Seq(Token)])
ASSUME StatusAssumption == Statuses \subseteq 200 .. 599
ASSUME AttemptAssumption == MaxAttempts \in Nat \ {0} /\ MaxMishaps \in Nat

VARIABLES
    config, mappings, filter,
    output,         \* the transform's, which filter and action read
    phase,          \* where the action stands
    tries,          \* its attempts, the last one under way
    wire,           \* the attempts whose request is out and may yet be carried out
    carried,        \* the attempts whose request has been
    row,            \* the credential's row: "none", "present" or "deleted"
    lastUsed,       \* whether it has a lastUsedAt
    deleter,        \* where a request to delete it stands
    mishaps

vars == <<config, mappings, filter, output, phase, tries, wire, carried, row, lastUsed, deleter, mishaps>>
worldVars == <<config, mappings, filter, output, row, lastUsed, deleter>>

Phases == {"transform", "filter", "filtered", "begin", "find", "touch", "wait", "body", "backoff", "succeeded", "failed"}

\* An attempt: whether its request left, what that said, and whether with the
\* secret; the status that came back, 0 for none, and whether all of the answer
\* did; and whether the credential was gone when the attempt began.
NewTry == [sent |-> FALSE, content |-> Leaf(""), secret |-> FALSE,
           status |-> 0, whole |-> FALSE, late |-> row = "deleted"]
Attempt == Len(tries)
Current == tries[Attempt]

Init ==
    /\ \E node \in Nodes :
          config = node.config /\ mappings = node.mappings /\ filter = node.filter
    /\ output = EmptyObject
    /\ phase = "transform"
    /\ tries = <<>> /\ wire = {} /\ carried = {}
    /\ row = "none" /\ lastUsed = FALSE
    /\ deleter = [d \in Deleters |-> "idle"]
    /\ mishaps = 0
-----------------------------------------------------------------------------
(***************************************************************************)
(* The transform.                                                          *)
(***************************************************************************)
\* lookup.found ? lookup.value : null
Looked(from) == IF GetPath(Payload, from).found THEN GetPath(Payload, from).value ELSE Leaf("null")

ApplyTransform(list) ==
    FoldLeft(LAMBDA out, mapping : SetPath(out, mapping.to, Looked(mapping.from)), EmptyObject, list)

Transform ==
    /\ phase = "transform"
    /\ output' = ApplyTransform(mappings)
    /\ phase' = "filter"
    /\ UNCHANGED <<config, mappings, filter, tries, wire, carried, row, lastUsed, deleter, mishaps>>
-----------------------------------------------------------------------------
(***************************************************************************)
(* The filter.                                                             *)
(***************************************************************************)
\* What a condition finds at its path, if that is a scalar; an object or an array
\* is the same as no value a condition can give.
Scalar(value) == IF DOMAIN value = {<<>>} THEN value[<<>>] ELSE "object"

Compares(operator, x, y) ==
    /\ x \in DOMAIN Numbers /\ y \in DOMAIN Numbers
    /\ CASE operator = "gt"  -> Numbers[x] > Numbers[y]
         [] operator = "gte" -> Numbers[x] >= Numbers[y]
         [] operator = "lt"  -> Numbers[x] < Numbers[y]
         [] operator = "lte" -> Numbers[x] <= Numbers[y]

\* What a condition says of a lookup.
Says(condition, lookup) ==
    LET value == lookup.value
        x == Scalar(value)
        y == condition.value
    IN  CASE condition.operator = "exists"     -> lookup.found
          [] condition.operator = "not_exists" -> ~lookup.found
          [] condition.operator = "eq"         -> x = y
          [] condition.operator = "neq"        -> x # y
          [] condition.operator \in {"gt", "gte", "lt", "lte"} -> Compares(condition.operator, x, y)
          [] condition.operator = "contains" /\ value[<<>>] = "array" ->
                \E place \in DOMAIN value : Len(place) = 1 /\ value[place] = y
         [] OTHER                             -> <<condition.operator, x, y>> \in Texts

\* evaluateConditions.
Passes ==
    LET said == {Says(c, GetPath(output, c.path)) : c \in filter.conditions}
    IN  IF filter.mode = "any" THEN TRUE \in said ELSE FALSE \notin said

Filter ==
    /\ phase = "filter"
    /\ phase' = IF Passes THEN "begin" ELSE "filtered"
    /\ UNCHANGED <<worldVars, tries, wire, carried, mishaps>>
-----------------------------------------------------------------------------
(***************************************************************************)
(* An attempt.                                                             *)
(***************************************************************************)
Ok(status) == status >= 200 /\ status < 300

\* Mutant: an error of the caller's is tried again, too.
Retryable_Client(status) == status >= 400

Retryable(status) == status >= 500

\* Mutant: one attempt too many.
Conclusion_OffByOne(n, ok, retryable) ==
    IF ok THEN "succeeded" ELSE IF retryable /\ n <= MaxAttempts THEN "backoff" ELSE "failed"

\* What executeActionWithRetry makes of the n-th attempt.
Conclusion(n, ok, retryable) ==
    IF ok THEN "succeeded" ELSE IF retryable /\ n < MaxAttempts THEN "backoff" ELSE "failed"

\* What dispatchStep throws is not told apart from what may pass.
Throw(n) == phase' = Conclusion(n, FALSE, TRUE)

\* The request leaves, with what its template and its credential give.
Sent(try, secret) ==
    [try EXCEPT !.sent = TRUE, !.secret = secret, !.content = Interpolate(output, Reads)]
Send(n) == wire' = wire \cup {n} /\ phase' = "wait"

\* dispatchStep up to its first await: an http action fills in its headers and,
\* with no credential to ask for, all of the request.
Begin ==
    /\ phase \in {"begin", "backoff"}
    /\ LET fits == \/ config.malformed = "none"
                   \/ config.malformed = "body" /\ config.auth = "credential"
       IN  \/ /\ ~fits
              /\ tries' = Append(tries, NewTry)
              /\ Throw(Attempt + 1) /\ UNCHANGED wire
           \/ /\ fits /\ config.auth = "credential"
              /\ tries' = Append(tries, NewTry)
              /\ phase' = "find" /\ UNCHANGED wire
           \/ /\ fits /\ config.auth = "none"
              /\ tries' = Append(tries, Sent(NewTry, FALSE))
              /\ Send(Attempt + 1)
    /\ UNCHANGED <<worldVars, carried, mishaps>>

\* Mutant: a row that was read once is good for ever.
Resolves_Cached == row # "none"

Resolves == row = "present"

\* decryptCredential reads the row ...
FindCredential ==
    /\ phase = "find"
    /\ \/ Resolves /\ phase' = "touch"
       \/ ~Resolves /\ Throw(Attempt)
    /\ UNCHANGED <<worldVars, tries, wire, carried, mishaps>>

\* ... and notes its use, which is no error if there is no row any more; then the
\* other texts are filled in and the request leaves.
TouchCredential ==
    /\ phase = "touch"
    /\ lastUsed' = (row = "present")
    /\ \/ /\ config.malformed = "none"
          /\ tries' = [tries EXCEPT ![Attempt] = Sent(@, TRUE)]
          /\ Send(Attempt)
       \/ config.malformed = "body" /\ Throw(Attempt) /\ UNCHANGED <<tries, wire>>
    /\ UNCHANGED <<config, mappings, filter, output, row, deleter, carried, mishaps>>

\* A call to the database throws, or the secret cannot be decrypted.
Mishap ==
    /\ phase \in {"find", "touch"}
    /\ mishaps < MaxMishaps /\ mishaps' = mishaps + 1
    /\ Throw(Attempt)
    /\ UNCHANGED <<worldVars, tries, wire, carried>>

\* httpFetch: the status arrives, ...
Respond(status) ==
    /\ phase = "wait"
    /\ Ok(status) => Attempt \in carried
    /\ status \in 300 .. 499 => Attempt \notin carried
    /\ tries' = [tries EXCEPT ![Attempt].status = status]
    /\ wire' = IF status >= 500 THEN wire ELSE wire \ {Attempt}
    /\ phase' = "body"
    /\ UNCHANGED <<worldVars, carried, mishaps>>

\* ... the rest of the answer, ...
Finish ==
    /\ phase = "body"
    /\ tries' = [tries EXCEPT ![Attempt].whole = TRUE]
    /\ phase' = Conclusion(Attempt, Ok(Current.status), Retryable(Current.status))
    /\ UNCHANGED <<worldVars, wire, carried, mishaps>>

\* ... or the time is up or the connection gone before it has.
GiveUp ==
    /\ phase \in {"wait", "body"}
    /\ Throw(Attempt)
    /\ UNCHANGED <<worldVars, tries, wire, carried, mishaps>>

\* The other side does what a request says.
CarryOut(n) ==
    /\ n \in wire \ carried
    /\ carried' = carried \cup {n}
    /\ UNCHANGED <<worldVars, phase, tries, wire, mishaps>>
-----------------------------------------------------------------------------
(***************************************************************************)
(* The credential the action names.                                        *)
(***************************************************************************)
Named == config.auth = "credential"

CreateCredential ==
    /\ Named /\ row = "none" /\ phase = "transform"
    /\ row' = "present"
    /\ UNCHANGED <<config, mappings, filter, output, phase, tries, wire, carried, lastUsed, deleter, mishaps>>

\* deleteCredential looks for the row ...
FindExisting(d) ==
    /\ Named /\ deleter[d] = "idle"
    /\ deleter' = [deleter EXCEPT ![d] = IF row = "present" THEN "found" ELSE "failed"]
    /\ UNCHANGED <<config, mappings, filter, output, phase, tries, wire, carried, row, lastUsed, mishaps>>

\* ... and deletes it, which is an error if there is none any more.
DeleteCredential(d) ==
    /\ deleter[d] = "found"
    /\ \/ /\ row = "present"
          /\ row' = "deleted" /\ lastUsed' = FALSE
          /\ deleter' = [deleter EXCEPT ![d] = "done"]
       \/ /\ row # "present"
          /\ deleter' = [deleter EXCEPT ![d] = "failed"]
          /\ UNCHANGED <<row, lastUsed>>
    /\ UNCHANGED <<config, mappings, filter, output, phase, tries, wire, carried, mishaps>>
-----------------------------------------------------------------------------
DispatchStep ==
    \/ Begin \/ FindCredential \/ TouchCredential \/ Mishap \/ Finish \/ GiveUp
    \/ \E status \in Statuses : Respond(status)

Next ==
    \/ Transform \/ Filter \/ DispatchStep \/ CreateCredential
    \/ \E n \in 1 .. MaxAttempts : CarryOut(n)
    \/ \E d \in Deleters : FindExisting(d) \/ DeleteCredential(d)

Spec == Init /\ [][Next]_vars
-----------------------------------------------------------------------------
Tries == [sent : BOOLEAN, content : {Leaf(""), Interpolate(output, Reads)}, secret : BOOLEAN,
          status : Statuses \cup {0}, whole : BOOLEAN, late : BOOLEAN]

TypeOK ==
    /\ config \in Config
    /\ phase \in Phases
    /\ tries \in Seq(Tries) /\ Len(tries) <= MaxAttempts
    /\ phase \in {"find", "touch", "wait", "body"} => tries # <<>>
    /\ wire \cup carried \subseteq {n \in 1 .. Len(tries) : tries[n].sent}
    /\ row \in {"none", "present", "deleted"} /\ lastUsed \in BOOLEAN
    /\ lastUsed => row = "present"
    /\ deleter \in [Deleters -> {"idle", "found", "done", "failed"}]
    /\ mishaps \in 0 .. MaxMishaps

\* dispatch/index.ts:10-12, "4xx responses are treated as permanent": the other
\* side is asked again only where it said that it failed or its answer did not
\* arrive whole, and a step that succeeded was carried out by its last attempt;
\* what came of the earlier ones may still be carried out, too, even later.
RepeatsHaveCause ==
    /\ \A n \in 1 .. Len(tries) - 1 :
          tries[n].sent => tries[n].status >= 500 \/ ~tries[n].whole
    /\ phase = "succeeded" => Attempt \in carried /\ Current.whole

\* dispatch/index.ts:14-16, secrets are resolved "at execution time": no attempt
\* that begins after the credential is gone has it, whatever the earlier ones of
\* the same action had; and as long as there is a row, it tells that it was used.
SecretsGoverned ==
    /\ \A n \in 1 .. Len(tries) : tries[n].secret => ~tries[n].late
    /\ row = "present" /\ (\E n \in 1 .. Len(tries) : tries[n].secret) => lastUsed

\* Two paths part after their first k tokens.
Fork(p, q, k) == k < Len(p) /\ k < Len(q) /\ Upto(p, k) = Upto(q, k)

\* Nothing the other mappings write is in the way of what the i-th one does: none
\* after it writes there, above or below, none before it has put a value above,
\* and none has made an object where it needs an array, or the other way round.
Free(i) ==
    LET p == mappings[i].to
    IN  /\ p # <<>> /\ ~p[1].index
        /\ \A j \in DOMAIN mappings :
              LET q == mappings[j].to
              IN  /\ j > i => ~Within(p, q) /\ ~Within(q, p)
                  /\ j < i /\ Within(p, q) /\ p # q =>
                        q # <<>> /\ Looked(mappings[j].from) \in {Leaf(x) : x \in Nothing}
                  /\ \A k \in 0 .. Len(p) :
                        j < i /\ Fork(p, q, k) => p[k + 1].index = q[k + 1].index

\* What a mapping writes is what the filter and the template after it find at its
\* path, however the containers on the way were made, replaced or extended by the
\* mappings before and after it: a filter that asks for all of its conditions lets
\* an action be tried only if they hold of that value, and the request says it.  A
\* source that is not there is a null that is.
MappedValuesArrive ==
    \A n \in 1 .. Len(tries), i \in DOMAIN mappings :
        Free(i) =>
            LET written == [found |-> TRUE, value |-> Looked(mappings[i].from)]
            IN  /\ tries[n].sent /\ mappings[i].to = Reads => tries[n].content = written.value
                /\ \A c \in filter.conditions :
                      filter.mode = "all" /\ c.path = mappings[i].to => Says(c, written)
=============================================================================
