------------------------------- MODULE Paths -------------------------------
(***************************************************************************)
(* JSON values and the paths into them (lib/path.ts).                      *)
(*                                                                         *)
(* A value is a function from the places in it to what stands there: an    *)
(* "object", an "array" or a scalar.  A place is the sequence of tokens    *)
(* that leads to it, the empty one for the value as a whole; a token is a  *)
(* name or an index, and every place lies in a container of its kind.  An  *)
(* array is as long as its last index tells, what is missing before it is  *)
(* a hole.  The text of a path is its tokens.                              *)
(***************************************************************************)
EXTENDS Integers, Sequences

Name(n) == [index |-> FALSE, at |-> n]
Index(n) == [index |-> TRUE, at |-> n]
Token == [index : BOOLEAN, at : Nat]

Leaf(scalar) == [place \in {<<>>} |-> scalar]
EmptyObject == Leaf("object")

\* The first i tokens of a place, and what follows them.
Upto(p, i) == SubSeq(p, 1, i)
After(p, i) == SubSeq(p, i + 1, Len(p))

\* Place r is q or lies in it.
Within(r, q) == Len(q) <= Len(r) /\ Upto(r, Len(q)) = q

\* typeof next === "number" ? [] : {}
KindFor(token) == IF token.index THEN "array" ELSE "object"

\* What setPath takes for missing, besides what is.
Nothing == {"null", "undefined"}
-----------------------------------------------------------------------------
\* An array reaches up to its last element, holes included; an object has the
\* names that are in it.
Has(v, q, token) ==
    /\ q \in DOMAIN v
    /\ v[q] = KindFor(token)
    /\ IF token.index
         THEN \E r \in DOMAIN v : Len(r) = Len(q) + 1 /\ Within(r, q) /\ token.at <= r[Len(r)].at
         ELSE Append(q, token) \in DOMAIN v

\* What stands at a place and in it.
Part(v, p) ==
    [q \in {After(r, Len(p)) : r \in {s \in DOMAIN v : Within(s, p)}} |-> v[p \o q]]

NotFound == [found |-> FALSE, value |-> Leaf("undefined")]

\* getPath, of a path that is not empty.
GetPath(v, p) ==
    IF \A i \in 1 .. Len(p) : Has(v, Upto(p, i - 1), p[i])
      THEN [found |-> TRUE, value |-> IF p \in DOMAIN v THEN Part(v, p) ELSE Leaf("undefined")]
      ELSE NotFound

\* On its way setPath meets something that cannot hold the next token.  Then it
\* writes into a container of its own making that hangs on nothing.  What is
\* null is replaced, unless it is the whole.
Blocked(v, p) ==
    \E i \in 0 .. Len(p) - 1 :
        LET q == Upto(p, i)
        IN  /\ q \in DOMAIN v
            /\ v[q] # KindFor(p[i + 1])
            /\ i = 0 \/ v[q] \notin Nothing

\* Mutant: the container is of the kind that holds it, not of the kind it holds.
Graft_Outer(v, p, new) ==
    LET ways == {Upto(p, i) : i \in 0 .. Len(p) - 1}
        kept == {r \in DOMAIN v : ~Within(r, p)}
        made == {p \o s : s \in DOMAIN new}
    IN  [r \in ways \cup kept \cup made |->
            IF r \in made THEN new[After(r, Len(p))]
            ELSE IF r \in kept /\ ~(r \in ways /\ v[r] \in Nothing) THEN v[r]
            ELSE KindFor(p[IF r = <<>> THEN 1 ELSE Len(r)])]

\* The containers on the way are made where there is nothing, and the new value
\* takes the place of what stood there.
Graft(v, p, new) ==
    LET ways == {Upto(p, i) : i \in 0 .. Len(p) - 1}
        kept == {r \in DOMAIN v : ~Within(r, p)}
        made == {p \o s : s \in DOMAIN new}
    IN  [r \in ways \cup kept \cup made |->
            IF r \in made THEN new[After(r, Len(p))]
            ELSE IF r \in kept /\ ~(r \in ways /\ v[r] \in Nothing) THEN v[r]
            ELSE KindFor(p[Len(r) + 1])]

\* setPath.
SetPath(v, p, new) ==
    IF p = <<>> THEN new ELSE IF Blocked(v, p) THEN v ELSE Graft(v, p, new)

\* interpolate, of one path: what is not there is the empty string, the rest is
\* written out.
Interpolate(v, p) == IF GetPath(v, p).found THEN GetPath(v, p).value ELSE Leaf("")
=============================================================================
