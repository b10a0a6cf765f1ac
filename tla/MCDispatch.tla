----------------------------- MODULE MCDispatch -----------------------------
(* A small instance of Dispatch: paths of up to three tokens from two names *)
(* and two indexes, which run through each other in every way, and a        *)
(* payload with an object, a scalar and nothing at all to map.              *)
EXTENDS Dispatch, TLC

A == Name(0)
B == Name(1)

MCReads == <<A, Index(1), B>>

Sources == {<<A>>, <<A, B>>, <<B>>}
MCPayload == (<<>> :> "object") @@ (<<A>> :> "object") @@ (<<A, B>> :> "scalar")

Targets == {MCReads, <<A>>, <<A, Index(1)>>, <<A, Index(0)>>, <<A, B>>, <<A, Index(1), A>>, <<>>, <<Index(0)>>}
Mapping == [from : Sources, to : Targets]

\* Every transform of two mappings of which one writes what the template reads,
\* before the plainest action; the filters below before it;
\* and every action after the plainest transform and no filter.
Transforms == {list \in BoundedSeq(Mapping, 2) : \E i \in DOMAIN list : list[i].to = MCReads}

Plain == [subtype |-> "http", auth |-> "none", malformed |-> "none"]
Direct == <<[from |-> <<A, B>>, to |-> MCReads]>>
Element == <<[from |-> <<A, B>>, to |-> <<A, Index(1)>>]>>
NoFilter == [mode |-> "all", conditions |-> {}]

\* Every condition at what the direct transform writes, some above it and beside
\* it, and some pairs of them.
MCNumbers == ("scalar" :> 1) @@ ("more" :> 2)
MCTexts == {<<"starts_with", "scalar", "scalar">>}
Above == [path : {<<A>>}, operator : {"exists", "contains"}, value : {"scalar"}]
Beside == [path : {<<A, Index(0)>>, <<A, Index(0), A>>}, operator : {"exists", "not_exists"}, value : {"null"}]
There == [path : {MCReads}, operator : {"eq", "neq", "gt", "gte", "lt", "lte", "starts_with"}, value : {"scalar", "more"}]
InArray == [path : {<<A>>}, operator : {"contains"}, value : {"scalar", "more"}]
Pairs == {{c, d} : c \in Beside, d \in {e \in There : e.operator = "eq"}}
Filters == [mode : {"all"}, conditions : {{c} : c \in Above \cup Beside \cup There \cup InArray} \cup Pairs] \cup
           [mode : {"any"}, conditions : Pairs \cup {{}}]

MCNodes ==
    {[config |-> Plain, filter |-> NoFilter, mappings |-> list] : list \in Transforms} \cup
    {[config |-> Plain, filter |-> f, mappings |-> Direct] : f \in Filters} \cup
    {[config |-> Plain, filter |-> f, mappings |-> Element] :
        f \in [mode : {"all"}, conditions : {{c} : c \in InArray}]} \cup
    {[config |-> c, filter |-> NoFilter, mappings |-> Direct] :
        c \in {d \in Config : d.subtype = "slack" => d.auth = "credential" /\ d.malformed # "header"}}

MCStatuses == {200, 404, 503}
=============================================================================
