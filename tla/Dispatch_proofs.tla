-------------------------- MODULE Dispatch_proofs --------------------------
(***************************************************************************)
(* Theorems about Dispatch, for any transforms, filters, paths, answers,   *)
(* limit of attempts and number of requests to delete the credential.      *)
(*                                                                         *)
(* The argument.  Only an attempt that is not the last can have been given *)
(* up for another, and Conclusion tells which: its answer was a 5xx or did *)
(* not arrive whole.  A request that asks for the credential holds it only *)
(* if the row was there after the attempt began, and rows do not come back *)
(* once they are deleted.                                                  *)
(*                                                                         *)
(* What a mapping writes is followed through the list: until its turn      *)
(* nothing is in its way (OpenStays), it lands (Lands), and the mappings   *)
(* after it leave it where it is (StandsStill), containers included, so    *)
(* that getPath finds it (StandsFound).                                    *)
(***************************************************************************)
EXTENDS Dispatch, Induction

(***************************************************************************)
(* Places (lib/path.ts).                                                   *)
(***************************************************************************)
Path == Seq(Token)

\* The first tokens of a place, and the others.
LEMMA UptoOf ==
    ASSUME NEW p \in Path, NEW n \in 0 .. Len(p)
    PROVE  /\ Upto(p, n) \in Path /\ Len(Upto(p, n)) = n
           /\ \A i \in 1 .. n : Upto(p, n)[i] = p[i]
  BY DEF Upto, Path

LEMMA AfterOf ==
    ASSUME NEW p \in Path, NEW n \in 0 .. Len(p)
    PROVE  /\ After(p, n) \in Path /\ Len(After(p, n)) = Len(p) - n
           /\ \A i \in 1 .. Len(p) - n : After(p, n)[i] = p[i + n]
  BY DEF After, Path

\* One place after the other.
LEMMA JoinOf ==
    ASSUME NEW p \in Path, NEW s \in Path
    PROVE  /\ p \o s \in Path /\ Len(p \o s) = Len(p) + Len(s)
           /\ \A i \in 1 .. Len(p) : (p \o s)[i] = p[i]
           /\ \A i \in 1 .. Len(s) : (p \o s)[i + Len(p)] = s[i]
  BY DEF Path

\* Places of the same tokens are the same.
LEMMA SamePlace ==
    ASSUME NEW p \in Path, NEW q \in Path, Len(p) = Len(q), \A i \in 1 .. Len(p) : p[i] = q[i]
    PROVE  p = q
  BY DEF Path

\* A place lies in another if it begins with the other's tokens.
LEMMA WithinOf ==
    ASSUME NEW r \in Path, NEW q \in Path
    PROVE  Within(r, q) <=> Len(q) <= Len(r) /\ \A i \in 1 .. Len(q) : r[i] = q[i]
<1>1. Len(q) \in Nat /\ Len(r) \in Nat
  BY DEF Path
<1>2. CASE Len(q) <= Len(r)
  <2>1. Len(q) \in 0 .. Len(r)
    BY <1>1, <1>2
  <2>2. /\ Upto(r, Len(q)) \in Path /\ Len(Upto(r, Len(q))) = Len(q)
        /\ \A i \in 1 .. Len(q) : Upto(r, Len(q))[i] = r[i]
    BY <2>1, UptoOf
  <2>3. (\A i \in 1 .. Len(q) : r[i] = q[i]) => Upto(r, Len(q)) = q
    BY <2>2, SamePlace
  <2> QED
    BY <1>2, <2>2, <2>3 DEF Within
<1> QED
  BY <1>2 DEF Within

\* What lies in two places, one of them lies in the other.
LEMMA WithinBoth ==
    ASSUME NEW r \in Path, NEW p \in Path, NEW q \in Path, Within(r, p), Within(r, q)
    PROVE  Within(p, q) \/ Within(q, p)
<1>1. Len(q) \in Nat /\ Len(p) \in Nat
  BY DEF Path
<1> QED
  BY <1>1, WithinOf

\* What lies in a place that lies in another lies in that.
LEMMA WithinChain ==
    ASSUME NEW r \in Path, NEW p \in Path, NEW q \in Path, Within(r, p), Within(p, q)
    PROVE  Within(r, q)
<1>1. Len(q) \in Nat /\ Len(p) \in Nat /\ Len(r) \in Nat
  BY DEF Path
<1> QED
  BY <1>1, WithinOf

\* A place lies in whatever it begins with.
LEMMA WithinUpto ==
    ASSUME NEW p \in Path, NEW n \in 0 .. Len(p)
    PROVE  Within(p, Upto(p, n))
<1>1. Len(p) \in Nat
  BY DEF Path
<1> QED
  BY <1>1, UptoOf, WithinOf

\* A place is what it lies in and what follows.
LEMMA WithinJoin ==
    ASSUME NEW r \in Path, NEW p \in Path, Within(r, p)
    PROVE  After(r, Len(p)) \in Path /\ p \o After(r, Len(p)) = r
<1>1. Len(p) \in 0 .. Len(r) /\ Len(r) \in Nat /\ Len(p) \in Nat
  BY WithinOf DEF Path
<1> DEFINE s == After(r, Len(p))
<1>2. /\ s \in Path /\ Len(s) = Len(r) - Len(p)
      /\ \A i \in 1 .. Len(r) - Len(p) : s[i] = r[i + Len(p)]
  BY <1>1, AfterOf
<1> HIDE DEF s
<1>3. /\ p \o s \in Path /\ Len(p \o s) = Len(r)
      /\ \A i \in 1 .. Len(p) : (p \o s)[i] = r[i]
      /\ \A i \in 1 .. Len(s) : (p \o s)[i + Len(p)] = s[i]
  <2>1. Len(p) + Len(s) = Len(r) /\ \A i \in 1 .. Len(p) : p[i] = r[i]
    BY <1>1, <1>2, WithinOf
  <2> QED
    BY <1>2, <2>1, JoinOf
<1>4. ASSUME NEW i \in 1 .. Len(r) PROVE (p \o s)[i] = r[i]
  <2>1. CASE i \in 1 .. Len(p)
    BY <1>3, <2>1
  <2>2. CASE i \notin 1 .. Len(p)
    <3>1. i - Len(p) \in 1 .. Len(s) /\ (i - Len(p)) + Len(p) = i
      BY <1>1, <1>2, <2>2
    <3> QED
      BY <1>2, <1>3, <3>1
  <2> QED
    BY <2>1, <2>2
<1>5. p \o s = r
  BY <1>3, <1>4, SamePlace
<1> QED
  BY <1>2, <1>5 DEF s

\* What follows a place and a place after it is that place.
LEMMA JoinWithin ==
    ASSUME NEW p \in Path, NEW s \in Path
    PROVE  Within(p \o s, p) /\ After(p \o s, Len(p)) = s
<1> DEFINE r == p \o s
<1>1. Len(p) \in Nat /\ Len(s) \in Nat
  BY DEF Path
<1>2. /\ r \in Path /\ Len(r) = Len(p) + Len(s)
      /\ \A i \in 1 .. Len(p) : r[i] = p[i]
      /\ \A i \in 1 .. Len(s) : r[i + Len(p)] = s[i]
  BY JoinOf
<1> HIDE DEF r
<1>3. Within(r, p)
  BY <1>1, <1>2, WithinOf
<1>4. /\ After(r, Len(p)) \in Path /\ Len(After(r, Len(p))) = Len(s)
      /\ \A i \in 1 .. Len(s) : After(r, Len(p))[i] = r[i + Len(p)]
  <2>1. Len(p) \in 0 .. Len(r) /\ Len(r) - Len(p) = Len(s)
    BY <1>1, <1>2
  <2> QED
    BY <1>2, <2>1, AfterOf
<1>5. After(r, Len(p)) = s
  BY <1>2, <1>4, SamePlace
<1> QED
  BY <1>3, <1>5 DEF r

\* The places two places have in common are as far as they agree.
LEMMA UptoSame ==
    ASSUME NEW p \in Path, NEW q \in Path, NEW k \in 0 .. Len(p), NEW l \in 0 .. Len(q),
           Upto(p, k) = Upto(q, l)
    PROVE  k = l /\ \A i \in 0 .. k : Upto(p, i) = Upto(q, i)
<1>1. Len(p) \in Nat /\ Len(q) \in Nat
  BY DEF Path
<1>2. k = l
  BY UptoOf
<1>3. \A i \in 1 .. k : p[i] = q[i]
  <2>1. \A i \in 1 .. k : Upto(p, k)[i] = p[i]
    BY UptoOf
  <2>2. \A i \in 1 .. k : Upto(q, k)[i] = q[i]
    BY <1>2, UptoOf
  <2> QED
    BY <1>2, <2>1, <2>2
<1>4. ASSUME NEW i \in 0 .. k PROVE Upto(p, i) = Upto(q, i)
  <2>1. i \in 0 .. Len(p) /\ i \in 0 .. Len(q) /\ \A h \in 1 .. i : h \in 1 .. k
    BY <1>1, <1>2
  <2>2. /\ Upto(p, i) \in Path /\ Len(Upto(p, i)) = i
        /\ \A h \in 1 .. i : Upto(p, i)[h] = p[h]
    BY <2>1, UptoOf
  <2>3. /\ Upto(q, i) \in Path /\ Len(Upto(q, i)) = i
        /\ \A h \in 1 .. i : Upto(q, i)[h] = q[h]
    BY <2>1, UptoOf
  <2> QED
    BY <1>3, <2>1, <2>2, <2>3, SamePlace
<1> QED
  BY <1>2, <1>4

\* All of its tokens are a place, and none of them the whole value.
LEMMA UptoAll ==
    ASSUME NEW p \in Path PROVE Upto(p, Len(p)) = p
<1>1. Len(p) \in 0 .. Len(p)
  BY DEF Path
<1> QED
  BY <1>1, UptoOf, SamePlace

LEMMA UptoNone ==
    ASSUME NEW p \in Path PROVE Upto(p, 0) = <<>> /\ <<>> \in Path
<1>1. 0 \in 0 .. Len(p) /\ <<>> \in Path /\ Len(<<>>) = 0
  BY DEF Path
<1>2. Upto(p, 0) \in Path /\ Len(Upto(p, 0)) = 0
  BY <1>1, UptoOf
<1> QED
  BY <1>1, <1>2, SamePlace

-----------------------------------------------------------------------------
(***************************************************************************)
(* Values, and what setPath makes of them.                                 *)
(***************************************************************************)
\* What may stand at a place, and the values made of it.
Kinds == {Payload[q] : q \in DOMAIN Payload} \cup {"object", "array", "null", "undefined"}
Values == UNION {[D -> Kinds] : D \in SUBSET Path}

\* A value is a function of places, and every such function is one.
LEMMA ValueOf ==
    ASSUME NEW v \in Values
    PROVE  /\ DOMAIN v \subseteq Path /\ v = [r \in DOMAIN v |-> v[r]]
           /\ \A r \in DOMAIN v : v[r] \in Kinds
  BY DEF Values

LEMMA IsValue ==
    ASSUME NEW v, DOMAIN v \subseteq Path, v = [r \in DOMAIN v |-> v[r]],
           \A r \in DOMAIN v : v[r] \in Kinds
    PROVE  v \in Values
<1>1. v \in [DOMAIN v -> Kinds]
  OBVIOUS
<1> QED
  BY <1>1 DEF Values

\* A scalar by itself.
LEMMA LeafOf ==
    ASSUME NEW x
    PROVE  /\ DOMAIN Leaf(x) = {<<>>} /\ Leaf(x)[<<>>] = x
           /\ Leaf(x) = [r \in DOMAIN Leaf(x) |-> Leaf(x)[r]]
           /\ x \in Kinds => Leaf(x) \in Values
<1>1. /\ DOMAIN Leaf(x) = {<<>>} /\ Leaf(x)[<<>>] = x
      /\ Leaf(x) = [r \in DOMAIN Leaf(x) |-> Leaf(x)[r]]
  BY DEF Leaf
<1>2. <<>> \in Path
  BY DEF Path
<1>3. ASSUME x \in Kinds PROVE Leaf(x) \in Values
  BY <1>1, <1>2, <1>3, IsValue
<1> QED
  BY <1>1, <1>3

\* What a mapping reads is a value, and a whole one.
LEMMA LookedOf ==
    ASSUME NEW from \in Path
    PROVE  /\ Looked(from) \in Values /\ <<>> \in DOMAIN Looked(from)
<1>1. CASE Looked(from) \in {Leaf("null"), Leaf("undefined")}
  <2>1. "null" \in Kinds /\ "undefined" \in Kinds
    BY DEF Kinds
  <2> QED
    BY <1>1, <2>1, LeafOf
<1>2. CASE from \in DOMAIN Payload /\ Looked(from) = Part(Payload, from)
  <2> DEFINE v == Part(Payload, from)
             D == {After(r, Len(from)) : r \in {s \in DOMAIN Payload : Within(s, from)}}
  <2>1. DOMAIN Payload \subseteq Path
    BY PathAssumption DEF Path
  <2>2. DOMAIN v = D /\ v = [r \in DOMAIN v |-> v[r]] /\ \A r \in D : v[r] = Payload[from \o r]
    BY DEF Part
  <2>3. ASSUME NEW r \in DOMAIN Payload, Within(r, from)
        PROVE  After(r, Len(from)) \in Path /\ from \o After(r, Len(from)) \in DOMAIN Payload
    BY <2>1, <2>3, WithinJoin
  <2>4. \A r \in D : r \in Path /\ from \o r \in DOMAIN Payload
    BY <2>3
  <2>5. <<>> \in D
    <3>1. <<>> \in Path /\ from \o <<>> = from
      BY DEF Path
    <3>2. Within(from, from) /\ After(from, Len(from)) = <<>>
      BY <3>1, JoinWithin
    <3> QED
      BY <1>2, <3>2
  <2>6. v \in Values
    <3> HIDE DEF D, v
    <3>1. \A r \in DOMAIN v : v[r] \in Kinds
      BY <2>2, <2>4 DEF Kinds
    <3> QED
      BY <2>2, <2>4, <3>1, IsValue
  <2> QED
    BY <1>2, <2>2, <2>5, <2>6
<1>3. Looked(from) \in {Leaf("null"), Leaf("undefined"), Part(Payload, from)}
  BY DEF Looked, GetPath, NotFound
<1>4. from \notin DOMAIN Payload => Looked(from) \in {Leaf("null"), Leaf("undefined")}
  BY DEF Looked, GetPath, NotFound
<1> QED
  BY <1>1, <1>2, <1>3, <1>4

\* The containers on the way to a path.
Ways(p) == {Upto(p, i) : i \in 0 .. Len(p) - 1}

\* What stands where after setPath has put a new value at a path.
LEMMA GraftOf ==
    ASSUME NEW v \in Values, NEW new \in Values, NEW p \in Path
    PROVE  LET w == Graft(v, p, new)
           IN  /\ w \in Values
               /\ \A r \in DOMAIN w :
                     r \in Ways(p) \/ (r \in DOMAIN v /\ ~Within(r, p)) \/ \E s \in DOMAIN new : r = p \o s
               /\ \A s \in DOMAIN new : p \o s \in DOMAIN w /\ w[p \o s] = new[s]
               /\ \A k \in 0 .. Len(p) - 1 :
                     /\ Upto(p, k) \in DOMAIN w
                     /\ w[Upto(p, k)] = IF Upto(p, k) \in DOMAIN v /\ v[Upto(p, k)] \notin Nothing
                                          THEN v[Upto(p, k)] ELSE KindFor(p[k + 1])
               /\ \A r \in DOMAIN v \ Ways(p) :
                     ~Within(r, p) => r \in DOMAIN w /\ w[r] = v[r]
<1> DEFINE w == Graft(v, p, new)
           kept == {r \in DOMAIN v : ~Within(r, p)}
           made == {p \o s : s \in DOMAIN new}
           E(r) == IF r \in made THEN new[After(r, Len(p))]
                   ELSE IF r \in kept /\ ~(r \in Ways(p) /\ v[r] \in Nothing) THEN v[r]
                   ELSE KindFor(p[Len(r) + 1])
<1>1. w = [r \in Ways(p) \cup kept \cup made |-> E(r)]
  BY DEF Graft, Ways
<1>2. /\ DOMAIN v \subseteq Path /\ \A r \in DOMAIN v : v[r] \in Kinds
      /\ DOMAIN new \subseteq Path /\ \A r \in DOMAIN new : new[r] \in Kinds
  BY ValueOf
<1>3. ASSUME NEW s \in DOMAIN new PROVE Within(p \o s, p) /\ After(p \o s, Len(p)) = s /\ p \o s \in Path
  BY <1>2, JoinWithin, JoinOf
<1>4. ASSUME NEW k \in 0 .. Len(p) - 1
      PROVE  /\ Upto(p, k) \in Path /\ Len(Upto(p, k)) = k /\ ~Within(Upto(p, k), p)
             /\ Upto(p, k) \notin made
  <2>1. Len(p) \in Nat
    BY DEF Path
  <2>2. k \in 0 .. Len(p) /\ k < Len(p)
    BY <2>1
  <2>3. Upto(p, k) \in Path /\ Len(Upto(p, k)) = k
    BY <2>2, UptoOf
  <2>4. ~Within(Upto(p, k), p)
    BY <2>1, <2>2, <2>3, WithinOf
  <2> QED
    BY <1>3, <2>3, <2>4
<1>5. \A r \in made : w[r] = new[After(r, Len(p))]
  BY <1>1
<1>6. \A s \in DOMAIN new : p \o s \in DOMAIN w /\ w[p \o s] = new[s]
  BY <1>1, <1>3, <1>5
<1>7. ASSUME NEW k \in 0 .. Len(p) - 1
      PROVE  /\ Upto(p, k) \in DOMAIN w
             /\ w[Upto(p, k)] = IF Upto(p, k) \in DOMAIN v /\ v[Upto(p, k)] \notin Nothing
                                  THEN v[Upto(p, k)] ELSE KindFor(p[k + 1])
  <2>1. Upto(p, k) \in Ways(p) /\ (Upto(p, k) \in kept <=> Upto(p, k) \in DOMAIN v)
    BY <1>4 DEF Ways
  <2>2. Upto(p, k) \in DOMAIN w /\ w[Upto(p, k)] = E(Upto(p, k))
    BY <1>1, <2>1
  <2>3. Upto(p, k) \notin made /\ Len(Upto(p, k)) = k
    BY <1>4
  <2> HIDE DEF w, kept, made
  <2> QED
    BY <2>1, <2>2, <2>3
<1>8. ASSUME NEW r \in DOMAIN v \ Ways(p), ~Within(r, p) PROVE r \in DOMAIN w /\ w[r] = v[r]
  <2>1. r \in kept /\ r \notin made
    BY <1>3, <1>8
  <2> QED
    BY <1>1, <1>8, <2>1
<1>9. DOMAIN w = Ways(p) \cup kept \cup made
  BY <1>1
<1>10. w \in Values
  <2>1. DOMAIN w \subseteq Path
    BY <1>2, <1>3, <1>4, <1>9 DEF Ways
  <2>2. ASSUME NEW r \in DOMAIN w PROVE w[r] \in Kinds
    <3>1. CASE r \in made
      BY <1>2, <1>6, <3>1
    <3>2. CASE r \in Ways(p)
      <4>1. PICK k \in 0 .. Len(p) - 1 : r = Upto(p, k)
        BY <3>2 DEF Ways
      <4>2. KindFor(p[k + 1]) \in Kinds
        BY DEF KindFor, Kinds
      <4> HIDE DEF w
      <4> QED
        BY <1>2, <1>7, <4>1, <4>2
    <3>3. CASE r \in kept /\ r \notin Ways(p)
      BY <1>2, <1>8, <3>3
    <3> QED
      BY <1>9, <3>1, <3>2, <3>3
  <2>3. w = [r \in DOMAIN w |-> w[r]]
    BY <1>1
  <2> HIDE DEF w
  <2> QED
    BY <2>1, <2>2, <2>3, IsValue
<1>11. \A r \in DOMAIN w :
          r \in Ways(p) \/ (r \in DOMAIN v /\ ~Within(r, p)) \/ \E s \in DOMAIN new : r = p \o s
  BY <1>9
<1> HIDE DEF w
<1> QED
  BY <1>6, <1>7, <1>8, <1>10, <1>11 DEF w

\* setPath yields a value.
LEMMA SetPathType ==
    ASSUME NEW v \in Values, NEW new \in Values, NEW p \in Path PROVE SetPath(v, p, new) \in Values
<1>1. Graft(v, p, new) \in Values
  BY GraftOf
<1> QED
  BY <1>1 DEF SetPath

\* Nothing is in the way of what is to be written at a path.
LEMMA OpenOf ==
    ASSUME NEW v, NEW p \in Path
    PROVE  ~Blocked(v, p) <=>
              \A k \in 0 .. Len(p) - 1 :
                 Upto(p, k) \in DOMAIN v =>
                    \/ v[Upto(p, k)] = KindFor(p[k + 1])
                    \/ k # 0 /\ v[Upto(p, k)] \in Nothing
  BY DEF Blocked

\* No kind of container is taken for missing.
LEMMA KindIsThere == ASSUME NEW token PROVE KindFor(token) \notin Nothing
  BY DEF KindFor, Nothing

\* It remains so when something is written that makes the same containers, or
\* something that is taken for missing.
LEMMA OpenStays ==
    ASSUME NEW v \in Values, NEW new \in Values, NEW p \in Path, NEW q \in Path, p # <<>>,
           ~Blocked(v, p),
           Within(p, q) /\ p # q => q # <<>> /\ new \in {Leaf(x) : x \in Nothing},
           \A k \in 0 .. Len(p) : Fork(p, q, k) => p[k + 1].index = q[k + 1].index
    PROVE  ~Blocked(SetPath(v, q, new), p)
<1> DEFINE w == Graft(v, q, new)
<1>1. Len(p) \in Nat \ {0} /\ Len(q) \in Nat
  BY DEF Path
<1>2. q # <<>>
  <2>1. ASSUME q = <<>> PROVE Within(p, q)
    BY <1>1, <2>1, WithinOf
  <2> QED
    BY <2>1
<1>3. /\ \A r \in DOMAIN w :
            r \in Ways(q) \/ (r \in DOMAIN v /\ ~Within(r, q)) \/ \E s \in DOMAIN new : r = q \o s
      /\ \A s \in DOMAIN new : q \o s \in DOMAIN w /\ w[q \o s] = new[s]
      /\ \A k \in 0 .. Len(q) - 1 :
            /\ Upto(q, k) \in DOMAIN w
            /\ w[Upto(q, k)] = IF Upto(q, k) \in DOMAIN v /\ v[Upto(q, k)] \notin Nothing
                                 THEN v[Upto(q, k)] ELSE KindFor(q[k + 1])
      /\ \A r \in DOMAIN v \ Ways(q) :
            ~Within(r, q) => r \in DOMAIN w /\ w[r] = v[r]
  BY GraftOf
<1>4. DOMAIN new \subseteq Path
  BY ValueOf
<1> HIDE DEF w
<1>5. ASSUME NEW k \in 0 .. Len(p) - 1, Upto(p, k) \in DOMAIN w
      PROVE  w[Upto(p, k)] = KindFor(p[k + 1]) \/ (k # 0 /\ w[Upto(p, k)] \in Nothing)
  <2> DEFINE u == Upto(p, k)
  <2>1. k \in 0 .. Len(p) /\ k < Len(p)
    BY <1>1
  <2>2. u \in Path /\ Len(u) = k /\ Within(p, u)
    BY <2>1, UptoOf, WithinUpto
  <2>3. u \in DOMAIN v => v[u] = KindFor(p[k + 1]) \/ (k # 0 /\ v[u] \in Nothing)
    BY OpenOf
  <2>4. CASE u \in Ways(q)
    <3>1. PICK l \in 0 .. Len(q) - 1 : u = Upto(q, l)
      BY <2>4 DEF Ways
    <3>2. l \in 0 .. Len(q) /\ l < Len(q)
      BY <1>1
    <3>3. l = k
      BY <2>1, <3>1, <3>2, UptoSame
    <3>4. Fork(p, q, k)
      BY <2>1, <3>1, <3>2, <3>3 DEF Fork
    <3>5. KindFor(p[k + 1]) = KindFor(q[k + 1])
      BY <2>1, <3>4 DEF KindFor
    <3>6. w[u] = IF u \in DOMAIN v /\ v[u] \notin Nothing THEN v[u] ELSE KindFor(q[k + 1])
      BY <1>3, <3>1, <3>3
    <3> QED
      BY <2>3, <3>5, <3>6
  <2>5. CASE u \in DOMAIN v /\ ~Within(u, q) /\ u \notin Ways(q)
    BY <1>3, <2>3, <2>5
  <2>6. CASE \E s \in DOMAIN new : u = q \o s
    <3>1. PICK s \in DOMAIN new : u = q \o s
      BY <2>6
    <3>2. Within(u, q)
      BY <1>4, <3>1, JoinWithin
    <3>3. Within(p, q) /\ Len(q) <= k
      BY <1>1, <2>2, <3>2, WithinChain, WithinOf
    <3>4. p # q
      BY <1>1, <2>1, <3>3
    <3>5. PICK x \in Nothing : new = Leaf(x)
      BY <3>3, <3>4
    <3>6. s = <<>> /\ new[s] = x
      BY <3>1, <3>5, LeafOf
    <3>7. w[u] \in Nothing
      BY <1>3, <3>1, <3>6
    <3>8. Len(q) # 0
      BY <1>2 DEF Path
    <3> QED
      BY <1>1, <3>3, <3>7, <3>8
  <2> QED
    BY <1>3, <1>5, <2>4, <2>5, <2>6
<1>6. ~Blocked(w, p)
  BY <1>5, OpenOf
<1> QED
  BY <1>2, <1>6 DEF SetPath, w

\* A value stands at a path as a whole, in containers of the right kinds.
Stands(v, p, new) ==
    /\ \A k \in 0 .. Len(p) - 1 : Upto(p, k) \in DOMAIN v /\ v[Upto(p, k)] = KindFor(p[k + 1])
    /\ \A s \in DOMAIN new : p \o s \in DOMAIN v /\ v[p \o s] = new[s]
    /\ \A r \in DOMAIN v : Within(r, p) => After(r, Len(p)) \in DOMAIN new

\* It does when it has been written with nothing in the way.
LEMMA Lands ==
    ASSUME NEW v \in Values, NEW new \in Values, NEW p \in Path, p # <<>>, ~Blocked(v, p)
    PROVE  Stands(SetPath(v, p, new), p, new)
<1> DEFINE w == Graft(v, p, new)
<1>1. Len(p) \in Nat \ {0} /\ DOMAIN new \subseteq Path
  BY ValueOf DEF Path
<1>3. /\ \A r \in DOMAIN w :
            r \in Ways(p) \/ (r \in DOMAIN v /\ ~Within(r, p)) \/ \E s \in DOMAIN new : r = p \o s
      /\ \A s \in DOMAIN new : p \o s \in DOMAIN w /\ w[p \o s] = new[s]
      /\ \A k \in 0 .. Len(p) - 1 :
            /\ Upto(p, k) \in DOMAIN w
            /\ w[Upto(p, k)] = IF Upto(p, k) \in DOMAIN v /\ v[Upto(p, k)] \notin Nothing
                                 THEN v[Upto(p, k)] ELSE KindFor(p[k + 1])
  BY GraftOf
<1> HIDE DEF w
<1>4. \A k \in 0 .. Len(p) - 1 : Upto(p, k) \in DOMAIN w /\ w[Upto(p, k)] = KindFor(p[k + 1])
  BY <1>3, OpenOf
<1>5. ASSUME NEW r \in DOMAIN w, Within(r, p) PROVE After(r, Len(p)) \in DOMAIN new
  <2>1. r \notin Ways(p)
    <3>1. ASSUME NEW k \in 0 .. Len(p) - 1 PROVE ~Within(Upto(p, k), p)
      <4>1. k \in 0 .. Len(p) /\ k < Len(p)
        BY <1>1
      <4>2. Upto(p, k) \in Path /\ Len(Upto(p, k)) = k
        BY <4>1, UptoOf
      <4> QED
        BY <1>1, <4>1, <4>2, WithinOf
    <3> QED
      BY <1>5, <3>1 DEF Ways
  <2>2. PICK s \in DOMAIN new : r = p \o s
    BY <1>3, <1>5, <2>1
  <2> QED
    BY <1>1, <2>2, JoinWithin
<1>6. Stands(w, p, new)
  BY <1>3, <1>4, <1>5 DEF Stands
<1> QED
  BY <1>6 DEF SetPath, w

\* What is written neither above nor below it leaves it as it is.
LEMMA StandsStill ==
    ASSUME NEW v \in Values, NEW new \in Values, NEW p \in Path, NEW q \in Path,
           NEW value \in Values, Stands(v, p, value), ~Within(p, q), ~Within(q, p)
    PROVE  Stands(SetPath(v, q, new), p, value)
<1> DEFINE w == Graft(v, q, new)
<1>1. Len(p) \in Nat /\ Len(q) \in Nat /\ DOMAIN new \subseteq Path /\ DOMAIN v \subseteq Path
      /\ DOMAIN value \subseteq Path
  BY ValueOf DEF Path
<1>2. q # <<>>
  <2>1. ASSUME q = <<>> PROVE Within(p, q)
    BY <1>1, <2>1, WithinOf
  <2> QED
    BY <2>1
<1>3. /\ \A r \in DOMAIN w :
            r \in Ways(q) \/ (r \in DOMAIN v /\ ~Within(r, q)) \/ \E s \in DOMAIN new : r = q \o s
      /\ \A k \in 0 .. Len(q) - 1 :
            /\ Upto(q, k) \in DOMAIN w
            /\ w[Upto(q, k)] = IF Upto(q, k) \in DOMAIN v /\ v[Upto(q, k)] \notin Nothing
                                 THEN v[Upto(q, k)] ELSE KindFor(q[k + 1])
      /\ \A r \in DOMAIN v \ Ways(q) :
            ~Within(r, q) => r \in DOMAIN w /\ w[r] = v[r]
  BY GraftOf
<1> HIDE DEF w
<1>4. ASSUME NEW k \in 0 .. Len(q) - 1 PROVE ~Within(Upto(q, k), p)
  <2>1. k \in 0 .. Len(q)
    BY <1>1
  <2>2. Upto(q, k) \in Path /\ Within(q, Upto(q, k))
    BY <2>1, UptoOf, WithinUpto
  <2> QED
    BY <2>2, WithinChain
<1>5. ASSUME NEW k \in 0 .. Len(p) - 1
      PROVE  Upto(p, k) \in DOMAIN w /\ w[Upto(p, k)] = KindFor(p[k + 1])
  <2> DEFINE u == Upto(p, k)
  <2>1. k \in 0 .. Len(p)
    BY <1>1
  <2>2. u \in Path /\ Within(p, u)
    BY <2>1, UptoOf, WithinUpto
  <2>3. ~Within(u, q)
    BY <2>2, WithinChain
  <2>4. u \in DOMAIN v /\ v[u] = KindFor(p[k + 1]) /\ v[u] \notin Nothing
    BY KindIsThere DEF Stands
  <2>5. CASE u \in Ways(q)
    <3>1. PICK l \in 0 .. Len(q) - 1 : u = Upto(q, l)
      BY <2>5 DEF Ways
    <3> QED
      BY <1>3, <2>4, <3>1
  <2>6. CASE u \notin Ways(q)
    BY <1>3, <2>3, <2>4, <2>6
  <2> QED
    BY <2>5, <2>6
<1>6. ASSUME NEW s \in DOMAIN value PROVE p \o s \in DOMAIN w /\ w[p \o s] = value[s]
  <2> DEFINE u == p \o s
  <2>1. u \in Path /\ Within(u, p)
    BY <1>1, JoinWithin, JoinOf
  <2>2. ~Within(u, q)
    BY <2>1, WithinBoth
  <2>3. u \notin Ways(q)
    BY <1>4, <2>1 DEF Ways
  <2>4. u \in DOMAIN v /\ v[u] = value[s]
    BY DEF Stands
  <2> QED
    BY <1>3, <2>2, <2>3, <2>4
<1>7. ASSUME NEW r \in DOMAIN w, Within(r, p) PROVE After(r, Len(p)) \in DOMAIN value
  <2>1. r \notin Ways(q)
    BY <1>4, <1>7 DEF Ways
  <2>2. ASSUME NEW s \in DOMAIN new, r = q \o s PROVE FALSE
    <3>1. r \in Path /\ Within(r, q)
      BY <1>1, <2>2, JoinWithin, JoinOf
    <3> QED
      BY <1>7, <3>1, WithinBoth
  <2>3. r \in DOMAIN v
    BY <1>3, <2>1, <2>2
  <2> QED
    BY <1>7, <2>3 DEF Stands
<1>8. Stands(w, p, value)
  BY <1>5, <1>6, <1>7 DEF Stands
<1> QED
  BY <1>2, <1>8 DEF SetPath, w

\* getPath finds it.
LEMMA StandsFound ==
    ASSUME NEW v \in Values, NEW p \in Path, p # <<>>, NEW new \in Values, <<>> \in DOMAIN new,
           Stands(v, p, new)
    PROVE  GetPath(v, p) = [found |-> TRUE, value |-> new]
<1>1. Len(p) \in Nat \ {0} /\ DOMAIN new \subseteq Path /\ DOMAIN v \subseteq Path
  BY ValueOf DEF Path
<1>2. p \in DOMAIN v
  <2>1. p \o <<>> \in DOMAIN v
    BY DEF Stands
  <2>2. p \o <<>> = p
    BY DEF Path
  <2> QED
    BY <2>1, <2>2
<1>3. ASSUME NEW i \in 1 .. Len(p) PROVE Has(v, Upto(p, i - 1), p[i])
  <2> DEFINE q == Upto(p, i - 1)
             r == Upto(p, i)
  <2>1. i - 1 \in 0 .. Len(p) - 1 /\ i - 1 \in 0 .. Len(p) /\ i \in 0 .. Len(p) /\ (i - 1) + 1 = i
    BY <1>1
  <2>2. q \in DOMAIN v /\ v[q] = KindFor(p[i])
    BY <2>1 DEF Stands
  <2>3. /\ q \in Path /\ Len(q) = i - 1 /\ \A h \in 1 .. i - 1 : q[h] = p[h]
        /\ r \in Path /\ Len(r) = i /\ \A h \in 1 .. i : r[h] = p[h]
    BY <2>1, UptoOf
  <2>4. r \in DOMAIN v
    <3>1. CASE i = Len(p)
      BY <1>2, <3>1, UptoAll
    <3>2. CASE i # Len(p)
      <4>1. i \in 0 .. Len(p) - 1
        BY <1>1, <3>2
      <4> QED
        BY <4>1 DEF Stands
    <3> QED
      BY <3>1, <3>2
  <2>5. p[i] \in Token
    BY DEF Path
  <2>6. Append(q, p[i]) = r
    <3>1. /\ Append(q, p[i]) \in Path /\ Len(Append(q, p[i])) = i
          /\ \A h \in 1 .. i : Append(q, p[i])[h] = p[h]
      BY <2>3, <2>5 DEF Path
    <3> QED
      BY <2>3, <3>1, SamePlace
  <2>7. Len(r) = Len(q) + 1 /\ Within(r, q) /\ p[i].at <= r[Len(r)].at
    <3>1. Len(r) = Len(q) + 1 /\ r[Len(r)] = p[i]
      BY <2>1, <2>3
    <3>2. Within(r, q)
      BY <2>1, <2>3, WithinOf
    <3>3. p[i].at \in Nat
      BY <2>5 DEF Token
    <3> QED
      BY <3>1, <3>2, <3>3
  <2> HIDE DEF q, r
  <2> QED
    BY <2>2, <2>4, <2>6, <2>7 DEF Has, q
<1>4. Part(v, p) = new
  <2> DEFINE D == {After(r, Len(p)) : r \in {s \in DOMAIN v : Within(s, p)}}
  <2>1. D \subseteq DOMAIN new
    BY DEF Stands
  <2>2. ASSUME NEW s \in DOMAIN new PROVE s \in D /\ v[p \o s] = new[s]
    <3>1. p \o s \in DOMAIN v /\ v[p \o s] = new[s]
      BY DEF Stands
    <3>2. Within(p \o s, p) /\ After(p \o s, Len(p)) = s
      BY <1>1, JoinWithin
    <3> QED
      BY <3>1, <3>2
  <2>3. D = DOMAIN new
    BY <2>1, <2>2
  <2>4. Part(v, p) = [q \in D |-> v[p \o q]]
    BY DEF Part
  <2>5. new = [q \in DOMAIN new |-> new[q]]
    BY ValueOf
  <2> HIDE DEF D
  <2> QED
    BY <2>2, <2>3, <2>4, <2>5
<1> QED
  BY <1>2, <1>3, <1>4 DEF GetPath

\* Where nothing is in the way, getPath finds what setPath has written, as it was
\* written, whatever containers had to be made for it (path.ts).
THEOREM SetThenGet ==
    ASSUME NEW v \in Values, NEW new \in Values, <<>> \in DOMAIN new,
           NEW p \in Path, p # <<>>, ~Blocked(v, p)
    PROVE  GetPath(SetPath(v, p, new), p) = [found |-> TRUE, value |-> new]
<1>1. SetPath(v, p, new) \in Values
  BY SetPathType
<1>2. Stands(SetPath(v, p, new), p, new)
  BY Lands
<1> QED
  BY <1>1, <1>2, StandsFound

\* A mapping of a transform.
Mappings == [from : Path, to : Path]

\* A transform's output is what one mapping after the other leaves.
LEMMA TransformSteps ==
    ASSUME NEW list \in Seq(Mappings)
    PROVE  \E r \in [0 .. Len(list) -> Values] :
              /\ r[0] = EmptyObject /\ r[Len(list)] = ApplyTransform(list)
              /\ \A k \in 1 .. Len(list) :
                    r[k] = SetPath(r[k - 1], list[k].to, Looked(list[k].from))
<1> DEFINE M == Mappings
           n == Len(list)
           base == EmptyObject
           X == Values
           Step(x, e) == SetPath(x, e.to, Looked(e.from))
           F == [i \in 1 .. n |-> [x \in X |-> Step(x, list[i])]]
           Is(f) == f = [s \in SUBSET DOMAIN list |->
                           IF s = {} THEN base ELSE Step(f[s \ {Max(s)}], list[Max(s)])]
           it == CHOOSE f : Is(f)
<1>1. n \in Nat /\ DOMAIN list = 1 .. n /\ \A i \in 1 .. n : list[i] \in M
  <2> HIDE DEF M
  <2>1. list \in Seq(M)
    BY DEF M
  <2> QED
    BY <2>1
<1>2. base \in X
  <2>1. "object" \in Kinds
    BY DEF Kinds
  <2> QED
    BY <2>1, LeafOf DEF EmptyObject
<1>3. F \in [1 .. n -> [X -> X]]
  <2>1. ASSUME NEW i \in 1 .. n, NEW x \in X PROVE Step(x, list[i]) \in X
    <3>1. list[i].to \in Path /\ list[i].from \in Path
      BY <1>1 DEF Mappings
    <3>2. Looked(list[i].from) \in Values
      BY <3>1, LookedOf
    <3> QED
      BY <3>1, <3>2, SetPathType
  <2> HIDE DEF X
  <2> QED
    BY <2>1
<1>4. \A s \in SUBSET (1 .. n) : s # {} => Max(s) \in 1 .. n
  <2> HIDE DEF n
  <2> QED
    BY <1>1, MaxOf
<1> HIDE DEF base
<1>5. Is(it)
  <2>1. PICK f \in [SUBSET (1 .. n) -> X] : Unfolding(f, base, n, F)
    <3> HIDE DEF F, X, n
    <3> QED
      BY <1>1, <1>2, <1>3, Unfolds
  <2>2. Is(f)
    <3> HIDE DEF X
    <3> QED
      BY <1>1, <1>4, <2>1 DEF Unfolding
  <2> HIDE DEF Is
  <2> QED
    BY <2>2
<1>6. ApplyTransform(list) = it[1 .. n]
  BY <1>1 DEF base, ApplyTransform, FoldLeft, MapThenFoldSet
<1> HIDE DEF it
<1>7. Folding(it, X, base, n, F)
  <2>1. it[{}] = base
    BY <1>1, <1>5
  <2>2. ASSUME NEW s \in SUBSET (1 .. n), s # {}, it[s \ {Max(s)}] \in X
        PROVE  it[s] = F[Max(s)][it[s \ {Max(s)}]]
    <3> HIDE DEF X
    <3>1. Max(s) \in 1 .. n /\ s \in SUBSET DOMAIN list
      BY <1>1, <1>4, <2>2
    <3>2. it[s] = Step(it[s \ {Max(s)}], list[Max(s)])
      BY <1>5, <2>2, <3>1
    <3> QED
      BY <2>2, <3>1, <3>2
  <2> HIDE DEF F, X, n
  <2> QED
    BY <2>1, <2>2 DEF Folding
<1>8. PICK r \in [0 .. n -> X] : Iteration(r, base, n, F) /\ r[n] = it[1 .. n]
  <2> HIDE DEF F, X, n
  <2> QED
    BY <1>1, <1>2, <1>3, <1>7, Iterates
<1>9. ASSUME NEW k \in 1 .. n PROVE r[k] = Step(r[k - 1], list[k])
  <2> HIDE DEF X
  <2>1. r[k - 1] \in X
    BY <1>1, <1>8
  <2>2. r[k] = F[k][r[k - 1]]
    <3> HIDE DEF F, n
    <3> QED
      BY <1>8 DEF Iteration
  <2> QED
    BY <2>1, <2>2
<1> QED
  BY <1>6, <1>8, <1>9 DEF Iteration, base

\* What a free mapping has read is found at its path when the transform is done.
LEMMA Arrives ==
    ASSUME mappings \in Seq(Mappings), NEW i \in DOMAIN mappings, Free(i)
    PROVE  GetPath(ApplyTransform(mappings), mappings[i].to)
              = [found |-> TRUE, value |-> Looked(mappings[i].from)]
<1> DEFINE M == Mappings
           n == Len(mappings)
           p == mappings[i].to
           value == Looked(mappings[i].from)
<1>1. n \in Nat /\ DOMAIN mappings = 1 .. n /\ \A j \in 1 .. n : mappings[j] \in M
  <2> HIDE DEF M
  <2>1. mappings \in Seq(M)
    BY DEF M
  <2> QED
    BY <2>1
<1>2. \A j \in 1 .. n :
         /\ mappings[j].to \in Path /\ mappings[j].from \in Path
         /\ Looked(mappings[j].from) \in Values
  BY <1>1, LookedOf DEF Mappings
<1>3. p \in Path /\ value \in Values /\ <<>> \in DOMAIN value
  BY <1>1, <1>2, LookedOf
<1>4. p # <<>> /\ ~p[1].index
  BY DEF Free
<1>5. ASSUME NEW j \in 1 .. n
      PROVE  LET q == mappings[j].to
             IN  /\ j > i => ~Within(p, q) /\ ~Within(q, p)
                 /\ j < i /\ Within(p, q) /\ p # q =>
                       q # <<>> /\ Looked(mappings[j].from) \in {Leaf(x) : x \in Nothing}
                 /\ \A k \in 0 .. Len(p) :
                       j < i /\ Fork(p, q, k) => p[k + 1].index = q[k + 1].index
  BY <1>1 DEF Free
<1>6. PICK r \in [0 .. n -> Values] :
         /\ r[0] = EmptyObject /\ r[n] = ApplyTransform(mappings)
         /\ \A k \in 1 .. n : r[k] = SetPath(r[k - 1], mappings[k].to, Looked(mappings[k].from))
  BY TransformSteps
<1> HIDE DEF p, value, n
<1>7. ~Blocked(EmptyObject, p)
  <2>1. DOMAIN EmptyObject = {<<>>} /\ EmptyObject[<<>>] = "object"
    BY LeafOf DEF EmptyObject
  <2>2. ASSUME NEW k \in 0 .. Len(p) - 1, Upto(p, k) \in DOMAIN EmptyObject
        PROVE  EmptyObject[Upto(p, k)] = KindFor(p[k + 1])
    <3>1. k \in 0 .. Len(p)
      BY <1>3 DEF Path
    <3>2. Len(Upto(p, k)) = k /\ Upto(p, k) = <<>>
      BY <1>3, <2>1, <2>2, <3>1, UptoOf
    <3>3. k = 0
      BY <3>2
    <3> QED
      BY <1>4, <2>1, <3>2, <3>3 DEF KindFor
  <2> QED
    BY <1>3, <2>2, OpenOf
\* Until the mapping's turn nothing is in its way; from then on its value stands.
<1> DEFINE T == {k \in 0 .. n : /\ k < i => ~Blocked(r[k], p)
                                /\ k >= i => Stands(r[k], p, value)}
<1>8. 0 \in T
  BY <1>1, <1>6, <1>7
<1>9. ASSUME NEW k \in 0 .. n - 1, k \in T PROVE k + 1 \in T
  <2> DEFINE q == mappings[k + 1].to
             new == Looked(mappings[k + 1].from)
  <2>1. k + 1 \in 1 .. n /\ k \in 0 .. n /\ (k + 1) - 1 = k /\ i \in Nat
    BY <1>1
  <2>2. r[k + 1] = SetPath(r[k], q, new) /\ r[k] \in Values
    BY <1>6, <2>1
  <2>3. q \in Path /\ new \in Values
    BY <1>2, <2>1
  <2>4. CASE k + 1 < i
    <3>1. ~Blocked(r[k], p)
      BY <1>9, <2>1, <2>4
    <3>2. /\ Within(p, q) /\ p # q => q # <<>> /\ new \in {Leaf(x) : x \in Nothing}
          /\ \A h \in 0 .. Len(p) : Fork(p, q, h) => p[h + 1].index = q[h + 1].index
      BY <1>5, <2>1, <2>4
    <3> HIDE DEF q, new
    <3>3. ~Blocked(r[k + 1], p)
      BY <1>3, <1>4, <2>2, <2>3, <3>1, <3>2, OpenStays
    <3> QED
      BY <2>1, <2>4, <3>3
  <2>5. CASE k + 1 = i
    <3>1. ~Blocked(r[k], p)
      BY <1>9, <2>1, <2>5
    <3>2. q = p /\ new = value
      BY <2>5 DEF p, value
    <3>3. Stands(r[k + 1], p, value)
      BY <1>3, <1>4, <2>2, <3>1, <3>2, Lands
    <3> QED
      BY <2>1, <2>5, <3>3
  <2>6. CASE k + 1 > i
    <3>1. Stands(r[k], p, value)
      BY <1>9, <2>1, <2>6
    <3>2. ~Within(p, q) /\ ~Within(q, p)
      BY <1>5, <2>1, <2>6
    <3> HIDE DEF q, new
    <3>3. Stands(r[k + 1], p, value)
      BY <1>3, <2>2, <2>3, <3>1, <3>2, StandsStill
    <3> QED
      BY <2>1, <2>6, <3>3
  <2> QED
    BY <2>1, <2>4, <2>5, <2>6
<1>10. n \in T
  <2> HIDE DEF T
  <2>1. \A k \in 0 .. n : k \in T
    BY <1>1, <1>8, <1>9, UpTo
  <2> QED
    BY <1>1, <2>1
<1>11. Stands(r[n], p, value) /\ r[n] \in Values
  BY <1>1, <1>6, <1>10
<1>12. GetPath(ApplyTransform(mappings), p) = [found |-> TRUE, value |-> value]
  BY <1>3, <1>4, <1>6, <1>11, StandsFound
<1> QED
  BY <1>12 DEF p, value
-----------------------------------------------------------------------------
(***************************************************************************)
(* The attempts and the credential.                                        *)
(***************************************************************************)
Untried == {"transform", "filter", "filtered", "begin"}
UnderWay == {"find", "touch", "wait", "body"}

\* What is known of the attempts, the last one's phase being where it stands.
Attempts ==
    /\ phase \in Untried => tries = <<>>
    /\ phase \notin Untried => tries # <<>>
    /\ phase = "backoff" => Len(tries) < MaxAttempts
    /\ phase \in {"wait", "body"} => Current.sent
    /\ phase \in {"find", "touch"} => ~Current.sent /\ ~Current.secret
    /\ phase \in {"find", "touch", "wait"} => Current.status = 0
    /\ phase \in UnderWay => ~Current.whole
    /\ phase = "body" /\ Ok(Current.status) => Attempt \in carried
    /\ phase = "backoff" /\ Current.sent => Current.status >= 500 \/ ~Current.whole

\* The row: it does not come back, and a secret was read after its attempt began.
Secrets ==
    /\ row = "none" => phase # "touch" /\ \A n \in 1 .. Len(tries) : ~tries[n].secret
    /\ phase = "touch" => ~Current.late
    /\ \A n \in 1 .. Len(tries) : tries[n].late => row = "deleted"

IInv == TypeOK /\ Attempts /\ Secrets /\ RepeatsHaveCause /\ SecretsGoverned
-----------------------------------------------------------------------------
USE StatusAssumption, AttemptAssumption
    DEF worldVars, Phases, Attempt, Current, Untried, UnderWay

LEMMA InitInv == Init => IInv
<1> SUFFICES ASSUME Init PROVE IInv
  OBVIOUS
<1>1. TypeOK
  <2>1. config \in Config
    BY ConfigAssumption DEF Init
  <2>2. tries \in Seq(Tries) /\ Len(tries) = 0
    BY DEF Init
  <2>3. lastUsed \in BOOLEAN /\ ~lastUsed
    BY DEF Init
  <2>4. deleter \in [Deleters -> {"idle", "found", "done", "failed"}]
    BY DEF Init
  <2> QED
    BY <2>1, <2>2, <2>3, <2>4 DEF Init, TypeOK
<1>2. Attempts /\ Secrets /\ RepeatsHaveCause /\ SecretsGoverned
  BY DEF Init, Attempts, Secrets, RepeatsHaveCause, SecretsGoverned
<1> QED
  BY <1>1, <1>2 DEF IInv

\* The types of the attempts change with the transform's output alone.
LEMMA SameTries == ASSUME output' = output PROVE Tries' = Tries
  BY DEF Tries

\* The last attempt's record becomes x, and nothing else of the attempts changes.
Amended(x) ==
    /\ tries' \in Seq(Tries)' /\ Len(tries') = Len(tries) /\ tries' # <<>>
    /\ tries'[Len(tries)] = x
    /\ \A n \in 1 .. Len(tries) : n # Len(tries) => tries'[n] = tries[n]

LEMMA Amend ==
    ASSUME TypeOK, tries # <<>>, output' = output, NEW x \in Tries,
           tries' = [tries EXCEPT ![Len(tries)] = x]
    PROVE  Amended(x)
  BY SameTries DEF TypeOK, Amended

\* One more attempt.
Appended(x) ==
    /\ tries' \in Seq(Tries)' /\ Len(tries') = Len(tries) + 1 /\ tries' # <<>>
    /\ tries'[Len(tries) + 1] = x
    /\ \A n \in 1 .. Len(tries) : tries'[n] = tries[n]

LEMMA Extend ==
    ASSUME TypeOK, output' = output, NEW x \in Tries, tries' = Append(tries, x)
    PROVE  Appended(x)
  BY SameTries DEF TypeOK, Appended

\* The attempts stay as they are.
LEMMA Keep ==
    ASSUME TypeOK, output' = output, tries' = tries
    PROVE  tries' \in Seq(Tries)'
  BY SameTries DEF TypeOK

\* An attempt's record, whatever the texts it may hold and the statuses.
Record(C, S) == [sent : BOOLEAN, content : C, secret : BOOLEAN,
                 status : S, whole : BOOLEAN, late : BOOLEAN]

\* It stays one when a field is given another value of its type.
LEMMA NewRecord ==
    ASSUME NEW C, NEW c \in C, NEW S, NEW s \in S, NEW b \in BOOLEAN
    PROVE  [sent |-> FALSE, content |-> c, secret |-> FALSE,
            status |-> s, whole |-> FALSE, late |-> b] \in Record(C, S)
  BY DEF Record

LEMMA SentRecord ==
    ASSUME NEW C, NEW c \in C, NEW S, NEW b \in BOOLEAN, NEW try \in Record(C, S)
    PROVE  [try EXCEPT !.sent = TRUE, !.secret = b, !.content = c] \in Record(C, S)
  BY DEF Record

LEMMA AnsweredRecord ==
    ASSUME NEW C, NEW S, NEW s \in S, NEW try \in Record(C, S)
    PROVE  [try EXCEPT !.status = s] \in Record(C, S)
  BY DEF Record

LEMMA FinishedRecord ==
    ASSUME NEW C, NEW S, NEW try \in Record(C, S)
    PROVE  [try EXCEPT !.whole = TRUE] \in Record(C, S)
  BY DEF Record

TextsSent == {Leaf(""), Interpolate(output, Reads)}
Answers == Statuses \cup {0}

LEMMA Shape ==
    /\ Tries = Record(TextsSent, Answers)
    /\ Leaf("") \in TextsSent /\ Interpolate(output, Reads) \in TextsSent
    /\ 0 \in Answers /\ \A status \in Statuses : status \in Answers
  BY DEF Tries, Record, TextsSent, Answers

LEMMA NewIsTry == NewTry \in Tries
<1>1. (row = "deleted") \in BOOLEAN
  OBVIOUS
<1> QED
  BY <1>1, Shape, NewRecord DEF NewTry

LEMMA SentIsTry ==
    ASSUME NEW try \in Tries, NEW b \in BOOLEAN
    PROVE  /\ Sent(try, b) \in Tries
           /\ Sent(try, b).sent = TRUE /\ Sent(try, b).secret = b
           /\ Sent(try, b).status = try.status
           /\ Sent(try, b).whole = try.whole /\ Sent(try, b).late = try.late
<1>1. Sent(try, b) \in Tries
  BY Shape, SentRecord DEF Sent
<1>2. try \in Record(TextsSent, Answers)
  BY Shape
<1>3. Sent(try, b).sent = TRUE /\ Sent(try, b).secret = b
  BY <1>2 DEF Sent, Record
<1>4. Sent(try, b).status = try.status
  BY <1>2 DEF Sent, Record
<1>5. Sent(try, b).whole = try.whole
  BY <1>2 DEF Sent, Record
<1>6. Sent(try, b).late = try.late
  BY <1>2 DEF Sent, Record
<1> QED
  BY <1>1, <1>3, <1>4, <1>5, <1>6, Zenon

LEMMA NewSentIsTry ==
    LET x == Sent(NewTry, FALSE)
    IN  /\ x \in Tries /\ x.sent /\ ~x.secret /\ ~x.whole
        /\ x.status = 0 /\ (x.late <=> row = "deleted")
<1> DEFINE x == Sent(NewTry, FALSE)
<1>1. FALSE \in BOOLEAN
  OBVIOUS
<1>2. x \in Tries
  BY <1>1, NewIsTry, SentIsTry
<1>3. x.sent /\ ~x.secret /\ ~x.whole
  BY DEF NewTry, Sent
<1>4. x.status = 0
  BY DEF NewTry, Sent
<1>5. x.late <=> row = "deleted"
  BY DEF NewTry, Sent
<1> QED
  BY <1>2, <1>3, <1>4, <1>5

LEMMA AnsweredIsTry ==
    ASSUME NEW try \in Tries, NEW status \in Statuses
    PROVE  LET x == [try EXCEPT !.status = status]
           IN  /\ x \in Tries
               /\ x.status = status /\ x.sent = try.sent /\ x.secret = try.secret
               /\ x.whole = try.whole /\ x.late = try.late
<1>1. [try EXCEPT !.status = status] \in Tries
  BY Shape, AnsweredRecord
<1> QED
  BY <1>1, Shape DEF Record

LEMMA FinishedIsTry ==
    ASSUME NEW try \in Tries
    PROVE  LET x == [try EXCEPT !.whole = TRUE]
           IN  /\ x \in Tries
               /\ x.whole = TRUE /\ x.sent = try.sent /\ x.secret = try.secret
               /\ x.status = try.status /\ x.late = try.late
<1>1. [try EXCEPT !.whole = TRUE] \in Tries
  BY Shape, FinishedRecord
<1> QED
  BY <1>1, Shape DEF Record

\* What they make of the last attempt.
LEMMA CurrentSent ==
    ASSUME Current \in Tries
    PROVE  /\ Sent(Current, TRUE) \in Tries
           /\ Sent(Current, TRUE).sent = TRUE /\ Sent(Current, TRUE).secret = TRUE
           /\ Sent(Current, TRUE).status = Current.status
           /\ Sent(Current, TRUE).whole = Current.whole
           /\ Sent(Current, TRUE).late = Current.late
<1>1. \A try \in Tries, b \in BOOLEAN :
         /\ Sent(try, b) \in Tries
         /\ Sent(try, b).sent = TRUE /\ Sent(try, b).secret = b
         /\ Sent(try, b).status = try.status
         /\ Sent(try, b).whole = try.whole /\ Sent(try, b).late = try.late
  BY SentIsTry
<1> QED
  BY <1>1, Zenon

\* Each attempt is a record of Tries.
LEMMA EachTry ==
    ASSUME TypeOK, NEW n \in 1 .. Len(tries) PROVE tries[n] \in Tries
  BY DEF TypeOK

LEMMA AttemptSteps ==
    ASSUME IInv, DispatchStep PROVE IInv'
<1> USE DEF IInv, TypeOK, Attempts, Secrets, RepeatsHaveCause, SecretsGoverned, Throw, Conclusion
<1>1. CASE Begin
  <2>1. NewTry \in Tries
    BY NewIsTry
  <2>2. ASSUME NEW x \in Tries, tries' = Append(tries, x), Begin,
               x.late <=> row = "deleted", ~x.secret, ~x.whole, x.status = 0,
               phase' = "wait" => x.sent, phase' # "wait" => ~x.sent,
               wire' \subseteq wire \cup (IF x.sent THEN {Len(tries) + 1} ELSE {}),
               phase' \in {"find", "wait", "failed"} \/ (phase' = "backoff" /\ Len(tries) + 1 < MaxAttempts)
        PROVE  IInv'
    <3>1. Appended(x)
      BY <2>2, Extend DEF Begin
    <3>2. UNCHANGED <<worldVars, carried, mishaps>> /\ phase \in {"begin", "backoff"}
      BY <2>2 DEF Begin
    <3>3. \A n \in 1 .. Len(tries) : tries'[n] = tries[n]
      BY <3>1 DEF Appended
    <3>6. TypeOK'
      BY <2>2, <3>1, <3>2, <3>3 DEF Appended
    <3>7. Attempts'
      BY <2>2, <3>1, <3>2, <3>3 DEF Appended
    <3>8. Secrets'
      BY <2>2, <3>1, <3>2, <3>3 DEF Appended
    <3>9. RepeatsHaveCause'
      BY <2>2, <3>1, <3>2, <3>3 DEF Appended
    <3>10. SecretsGoverned'
      BY <2>2, <3>1, <3>2, <3>3 DEF Appended
    <3> QED
      BY <3>6, <3>7, <3>8, <3>9, <3>10
  <2>3. /\ NewTry.late <=> row = "deleted"
        /\ ~NewTry.sent /\ ~NewTry.secret /\ ~NewTry.whole /\ NewTry.status = 0
    BY DEF NewTry
  <2>5. CASE /\ tries' = Append(tries, NewTry) /\ wire' = wire
             /\ phase' \in {"find", "failed"} \/ (phase' = "backoff" /\ Len(tries) + 1 < MaxAttempts)
    <3>1. phase' # "wait" /\ wire' \subseteq wire \cup (IF NewTry.sent THEN {Len(tries) + 1} ELSE {})
      BY <2>5
    <3> HIDE DEF Conclusion, Throw
    <3> QED
      BY <1>1, <2>1, <2>2, <2>3, <2>5, <3>1
  <2>6. CASE tries' = Append(tries, Sent(NewTry, FALSE)) /\ Send(Len(tries) + 1)
    <3> DEFINE x == Sent(NewTry, FALSE)
    <3>1. phase' = "wait" /\ wire' = wire \cup {Len(tries) + 1}
      BY <2>6 DEF Send
    <3>2. /\ x \in Tries /\ x.sent /\ ~x.secret /\ ~x.whole
          /\ x.status = 0 /\ (x.late <=> row = "deleted")
      BY NewSentIsTry
    <3>3. tries' = Append(tries, x)
      BY <2>6
    <3> HIDE DEF x
    <3> QED
      BY <1>1, <2>2, <3>1, <3>2, <3>3
  <2>7. Len(tries) + 1 \in Nat /\ MaxAttempts \in Nat
    BY DEF IInv, TypeOK
  <2> QED
    BY <1>1, <2>5, <2>6, <2>7 DEF Begin
<1>2. CASE FindCredential
  BY <1>2, Keep DEF FindCredential, Resolves
<1>3. CASE TouchCredential
  <2>1. CASE config.malformed = "body" /\ Throw(Len(tries)) /\ UNCHANGED <<tries, wire>>
    BY <1>3, <2>1, Keep DEF TouchCredential
  <2>2. CASE tries' = [tries EXCEPT ![Len(tries)] = Sent(@, TRUE)] /\ Send(Len(tries))
    <3> DEFINE x == Sent(Current, TRUE)
    <3>1. Current \in Tries
      BY <1>3 DEF TouchCredential
    <3>2. /\ x \in Tries /\ x.sent = TRUE /\ x.secret = TRUE
          /\ x.status = Current.status
          /\ x.whole = Current.whole /\ x.late = Current.late
      BY <3>1, CurrentSent
    <3>3. tries' = [tries EXCEPT ![Len(tries)] = x]
      BY <2>2
    <3> HIDE DEF x
    <3>4. Amended(x)
      BY <1>3, <3>2, <3>3, Amend DEF TouchCredential
    <3>5. wire' = wire \cup {Len(tries)} /\ phase' = "wait"
      BY <2>2 DEF Send
    <3>6. TypeOK'
      BY <1>3, <3>2, <3>4, <3>5 DEF Amended, TouchCredential
    <3>7. Attempts'
      BY <1>3, <3>2, <3>4, <3>5 DEF Amended, TouchCredential
    <3>8. Secrets'
      BY <1>3, <3>2, <3>4, <3>5 DEF Amended, TouchCredential
    <3>9. RepeatsHaveCause'
      BY <1>3, <3>2, <3>4, <3>5 DEF Amended, TouchCredential
    <3>10. SecretsGoverned'
      BY <1>3, <3>2, <3>4, <3>5 DEF Amended, TouchCredential
    <3> QED
      BY <3>6, <3>7, <3>8, <3>9, <3>10
  <2> QED
    BY <1>3, <2>1, <2>2 DEF TouchCredential
<1>4. CASE Mishap
  BY <1>4, Keep DEF Mishap
<1>5. CASE Finish
  <2> DEFINE x == [Current EXCEPT !.whole = TRUE]
  <2>1. Current \in Tries
    BY <1>5 DEF Finish
  <2>2. x \in Tries
    BY <2>1, FinishedIsTry
  <2>3. tries' = [tries EXCEPT ![Len(tries)] = x]
    BY <1>5 DEF Finish
  <2>4. /\ x.whole /\ x.status = Current.status /\ x.sent = Current.sent
        /\ x.secret = Current.secret /\ x.late = Current.late
    BY <2>1, FinishedIsTry
  <2> HIDE DEF x
  <2>5. Amended(x)
    BY <1>5, <2>2, <2>3, Amend DEF Finish
  <2> QED
    BY <1>5, <2>4, <2>5 DEF Amended, Finish, Retryable
<1>6. CASE GiveUp
  BY <1>6, Keep DEF GiveUp
<1>7. ASSUME NEW status \in Statuses, Respond(status) PROVE IInv'
  <2> DEFINE x == [Current EXCEPT !.status = status]
  <2>0. /\ phase = "wait" /\ phase' = "body" /\ wire' \subseteq wire
        /\ UNCHANGED <<worldVars, carried, mishaps>>
        /\ Ok(status) => Len(tries) \in carried
    BY <1>7 DEF Respond
  <2>1. Current \in Tries
    BY <2>0
  <2>2. x \in Tries
    BY <2>1, AnsweredIsTry
  <2>3. tries' = [tries EXCEPT ![Len(tries)] = x]
    BY <1>7 DEF Respond
  <2>4. /\ x.status = status /\ x.sent = Current.sent /\ x.whole = Current.whole
        /\ x.secret = Current.secret /\ x.late = Current.late
    BY <2>1, AnsweredIsTry
  <2> HIDE DEF x
  <2>5. Amended(x)
    BY <2>0, <2>2, <2>3, Amend
  <2>6. TypeOK'
    BY <2>0, <2>4, <2>5 DEF Amended
  <2>7. Attempts'
    BY <2>0, <2>4, <2>5 DEF Amended
  <2>8. Secrets'
    BY <2>0, <2>4, <2>5 DEF Amended
  <2>9. RepeatsHaveCause'
    BY <2>0, <2>4, <2>5 DEF Amended
  <2>10. SecretsGoverned'
    BY <2>0, <2>4, <2>5 DEF Amended
  <2> QED
    BY <2>6, <2>7, <2>8, <2>9, <2>10
<1> QED
  BY <1>1, <1>2, <1>3, <1>4, <1>5, <1>6, <1>7 DEF DispatchStep

LEMMA OtherSteps ==
    ASSUME IInv,
           \/ Transform \/ Filter \/ CreateCredential
           \/ \E n \in 1 .. MaxAttempts : CarryOut(n)
           \/ \E d \in Deleters : FindExisting(d) \/ DeleteCredential(d)
    PROVE  IInv'
<1> USE DEF IInv, TypeOK, Attempts, Secrets, RepeatsHaveCause, SecretsGoverned
<1>1. CASE Transform
  <2>1. tries' \in Seq(Tries)' /\ tries' = <<>>
    BY <1>1 DEF Transform
  <2> QED
    BY <1>1, <2>1 DEF Transform
<1>2. CASE Filter
  BY <1>2, Keep DEF Filter
<1>3. CASE CreateCredential
  BY <1>3, Keep DEF CreateCredential
<1>4. ASSUME NEW n \in 1 .. MaxAttempts, CarryOut(n) PROVE IInv'
  BY <1>4, Keep DEF CarryOut
<1>5. ASSUME NEW d \in Deleters, FindExisting(d) PROVE IInv'
  BY <1>5, Keep DEF FindExisting
<1>6. ASSUME NEW d \in Deleters, DeleteCredential(d) PROVE IInv'
  <2>1. UNCHANGED <<config, mappings, filter, output, phase, tries, wire, carried, mishaps>>
    BY <1>6 DEF DeleteCredential
  <2>2. CASE row = "present" /\ row' = "deleted" /\ lastUsed' = FALSE
    <3>1. lastUsed' \in BOOLEAN /\ ~lastUsed'
      BY <2>2
    <3>2. deleter' \in [Deleters -> {"idle", "found", "done", "failed"}]
      BY <1>6 DEF DeleteCredential
    <3>3. TypeOK'
      BY <2>1, <2>2, <3>1, <3>2, Keep
    <3> QED
      BY <2>1, <2>2, <3>1, <3>3
  <2>3. CASE UNCHANGED <<row, lastUsed>>
    BY <1>6, <2>1, <2>3, Keep DEF DeleteCredential
  <2> QED
    BY <1>6, <2>2, <2>3 DEF DeleteCredential
<1> QED
  BY <1>1, <1>2, <1>3, <1>4, <1>5, <1>6

LEMMA Inductive == Spec => []IInv
<1>1. ASSUME IInv, UNCHANGED vars PROVE IInv'
  BY <1>1, Keep DEF vars, IInv, TypeOK, Attempts, Secrets, RepeatsHaveCause, SecretsGoverned
<1>2. ASSUME IInv, [Next]_vars PROVE IInv'
  BY <1>1, <1>2, AttemptSteps, OtherSteps DEF Next
<1> QED
  BY InitInv, <1>2, PTL DEF Spec
-----------------------------------------------------------------------------
\* The state keeps its types, and an action is tried MaxAttempts times at most.
THEOREM DispatchTypes == Spec => []TypeOK
<1>1. IInv => TypeOK
  BY DEF IInv
<1> QED
  BY <1>1, Inductive, PTL

\* The other side is asked again only after a 5xx or an answer that did not arrive
\* whole, and a success was carried out.
THEOREM RepeatsAreCaused == Spec => []RepeatsHaveCause
<1>1. IInv => RepeatsHaveCause
  BY DEF IInv
<1> QED
  BY <1>1, Inductive, PTL

\* No attempt that begins after the credential's deletion has its secret, and a row
\* whose secret was given out says that it was used.
THEOREM SecretsAreGoverned == Spec => []SecretsGoverned
<1>1. IInv => SecretsGoverned
  BY DEF IInv
<1> QED
  BY <1>1, Inductive, PTL
-----------------------------------------------------------------------------
(***************************************************************************)
(* What the mappings write arrives.                                        *)
(***************************************************************************)
\* The transform's output stays what the mappings have made, whatever is tried
\* after the filter was passed by it, and a request says what the template makes
\* of it.
Filled ==
    /\ mappings \in Seq(Mappings)
    /\ phase # "transform" => output = ApplyTransform(mappings)
    /\ phase \notin {"transform", "filter", "filtered"} => Passes
    /\ \A n \in 1 .. Len(tries) : tries[n].sent => tries[n].content = Interpolate(output, Reads)

\* A request is given its content as it leaves, and keeps it.
LEMMA SentContent ==
    ASSUME NEW try \in Tries, NEW b \in BOOLEAN
    PROVE  Sent(try, b).content = Interpolate(output, Reads)
<1>1. try \in Record(TextsSent, Answers)
  BY Shape
<1> QED
  BY <1>1 DEF Sent, Record

LEMMA KeepsContent ==
    ASSUME NEW try \in Tries, NEW status
    PROVE  /\ [try EXCEPT !.status = status].content = try.content
           /\ [try EXCEPT !.status = status].sent = try.sent
           /\ [try EXCEPT !.whole = TRUE].content = try.content
           /\ [try EXCEPT !.whole = TRUE].sent = try.sent
<1>1. try \in Record(TextsSent, Answers)
  BY Shape
<1> QED
  BY <1>1 DEF Record

LEMMA InitFilled == Init => Filled
<1> SUFFICES ASSUME Init PROVE Filled
  OBVIOUS
<1>1. PICK node \in Nodes : mappings = node.mappings
  BY DEF Init
<1>2. node.mappings \in Seq(Mappings)
  BY PathAssumption DEF Mappings, Path
<1>3. mappings \in Seq(Mappings)
  BY <1>1, <1>2, Zenon
<1>4. phase = "transform" /\ tries = <<>>
  BY DEF Init
<1> HIDE DEF Mappings
<1> QED
  BY <1>3, <1>4 DEF Filled

\* Whatever the filter and the attempts read stands once the transform is done.
LEMMA SameOutput ==
    ASSUME UNCHANGED <<mappings, filter, output>>
    PROVE  (Passes' <=> Passes) /\ Interpolate(output, Reads)' = Interpolate(output, Reads)
           /\ ApplyTransform(mappings)' = ApplyTransform(mappings)
<1>1. Passes' <=> Passes
  BY DEF Passes
<1>2. Interpolate(output, Reads)' = Interpolate(output, Reads)
  OBVIOUS
<1>3. ApplyTransform(mappings)' = ApplyTransform(mappings)
  OBVIOUS
<1> QED
  BY <1>1, <1>2, <1>3

\* A step that leaves the output alone, begins nothing before the filter is passed
\* and gives attempts no other contents.
LEMMA FilledStays ==
    ASSUME Filled, UNCHANGED <<mappings, filter, output>>,
           phase = "transform" => phase' = "transform",
           phase' \notin {"transform", "filter", "filtered"} => Passes,
           \A n \in 1 .. Len(tries') :
              tries'[n].sent =>
                 \/ tries'[n].content = Interpolate(output, Reads)
                 \/ n \in 1 .. Len(tries) /\ tries[n].sent /\ tries'[n].content = tries[n].content
    PROVE  Filled'
<1>0. (Passes' <=> Passes) /\ Interpolate(output, Reads)' = Interpolate(output, Reads)
      /\ ApplyTransform(mappings)' = ApplyTransform(mappings)
  BY SameOutput
<1>1. mappings' \in Seq(Mappings)
  BY DEF Filled
<1>2. phase' # "transform" => output' = ApplyTransform(mappings)'
  BY <1>0 DEF Filled
<1>3. phase' \notin {"transform", "filter", "filtered"} => Passes'
  BY <1>0
<1>4. ASSUME NEW n \in 1 .. Len(tries'), tries'[n].sent
      PROVE  tries'[n].content = Interpolate(output, Reads)'
  BY <1>0, <1>4 DEF Filled
<1> QED
  BY <1>1, <1>2, <1>3, <1>4 DEF Filled

LEMMA FilledSteps ==
    ASSUME IInv, Filled, Next PROVE Filled'
<1> USE DEF IInv, Attempts
<1>0. ASSUME NEW n \in 1 .. Len(tries) PROVE tries[n] \in Tries
  BY EachTry
<1>1. CASE Transform
  <2>1. tries = <<>> /\ tries' = tries /\ phase' = "filter" /\ mappings' = mappings
        /\ output' = ApplyTransform(mappings)
    BY <1>1 DEF Transform
  <2>2. mappings' \in Seq(Mappings)
    BY <2>1 DEF Filled
  <2>3. output' = ApplyTransform(mappings)'
    BY <2>1
  <2> QED
    BY <2>1, <2>2, <2>3 DEF Filled
<1>2. CASE Filter
  BY <1>2, FilledStays DEF Filter, Filled
<1>3. ASSUME UNCHANGED <<mappings, filter, output, tries>>,
             phase = "transform" => phase' = "transform",
             phase \in {"filter", "filtered"} => phase' \in {"filter", "filtered"}
      PROVE  Filled'
  BY <1>3, FilledStays DEF Filled
<1>4. CASE Begin
  <2>1. UNCHANGED <<mappings, filter, output>> /\ phase \in {"begin", "backoff"}
    BY <1>4 DEF Begin
  <2>2. Passes
    BY <2>1 DEF Filled
  <2>3. NewTry \in Tries /\ ~NewTry.sent
    BY NewIsTry DEF NewTry
  <2>4. FALSE \in BOOLEAN
    OBVIOUS
  <2>5. Sent(NewTry, FALSE) \in Tries /\ Sent(NewTry, FALSE).content = Interpolate(output, Reads)
    BY <2>3, <2>4, SentIsTry, SentContent
  <2>6. ASSUME NEW x \in Tries, tries' = Append(tries, x),
               x.sent => x.content = Interpolate(output, Reads)
        PROVE  Filled'
    <3>1. Appended(x)
      BY <2>1, <2>6, Extend
    <3>2. Len(tries) \in Nat
      BY DEF TypeOK
    <3>3. ASSUME NEW n \in 1 .. Len(tries'), tries'[n].sent
          PROVE  \/ tries'[n].content = Interpolate(output, Reads)
                 \/ n \in 1 .. Len(tries) /\ tries[n].sent /\ tries'[n].content = tries[n].content
      BY <2>6, <3>1, <3>2, <3>3 DEF Appended
    <3> QED
      BY <2>1, <2>2, <3>3, FilledStays
  <2>7. CASE tries' = Append(tries, NewTry)
    BY <2>3, <2>6, <2>7
  <2>8. CASE tries' = Append(tries, Sent(NewTry, FALSE))
    BY <2>5, <2>6, <2>8
  <2> QED
    BY <1>4, <2>7, <2>8 DEF Begin
<1>5. ASSUME NEW x \in Tries, tries # <<>>, tries' = [tries EXCEPT ![Len(tries)] = x],
             UNCHANGED <<mappings, filter, output>>, phase \in {"touch", "wait", "body"},
             x.sent => \/ x.content = Interpolate(output, Reads)
                       \/ Current.sent /\ x.content = Current.content
      PROVE  Filled'
  <2>1. Amended(x)
    BY <1>5, Amend
  <2>2. Passes
    BY <1>5 DEF Filled
  <2>3. Len(tries) \in Nat
    BY DEF TypeOK
  <2>4. ASSUME NEW n \in 1 .. Len(tries'), tries'[n].sent
        PROVE  \/ tries'[n].content = Interpolate(output, Reads)
               \/ n \in 1 .. Len(tries) /\ tries[n].sent /\ tries'[n].content = tries[n].content
    <3>1. Len(tries') = Len(tries) /\ tries'[Len(tries)] = x
      BY <2>1 DEF Amended
    <3>2. CASE n = Len(tries)
      BY <1>5, <2>4, <3>1, <3>2
    <3>3. CASE n # Len(tries)
      <4>1. n \in 1 .. Len(tries) /\ tries'[n] = tries[n]
        BY <2>1, <2>4, <3>3 DEF Amended
      <4> QED
        BY <2>4, <4>1
    <3> QED
      BY <3>2, <3>3
  <2> QED
    BY <1>5, <2>2, <2>4, FilledStays
<1>6. phase \in {"touch", "wait", "body"} => tries # <<>> /\ Current \in Tries
  <2>1. ASSUME phase \in {"touch", "wait", "body"} PROVE tries # <<>> /\ Len(tries) \in 1 .. Len(tries)
    BY <2>1 DEF TypeOK
  <2> QED
    BY <1>0, <2>1
<1>7. CASE FindCredential \/ Mishap \/ GiveUp
  BY <1>3, <1>7 DEF FindCredential, Mishap, GiveUp
<1>8. CASE TouchCredential
  <2>1. UNCHANGED <<mappings, filter, output>> /\ phase = "touch"
    BY <1>8 DEF TouchCredential
  <2>2. CASE UNCHANGED tries
    BY <1>3, <2>1, <2>2
  <2>3. CASE tries' = [tries EXCEPT ![Len(tries)] = Sent(@, TRUE)]
    <3> DEFINE x == Sent(Current, TRUE)
    <3>1. TRUE \in BOOLEAN /\ Current \in Tries
      BY <1>6, <2>1
    <3>2. x.content = Interpolate(output, Reads) /\ x \in Tries
      <4>1. \A try \in Tries, b \in BOOLEAN :
               Sent(try, b).content = Interpolate(output, Reads) /\ Sent(try, b) \in Tries
        BY SentContent, SentIsTry
      <4> QED
        BY <3>1, <4>1, Zenon
    <3>3. tries' = [tries EXCEPT ![Len(tries)] = x]
      BY <2>3
    <3> HIDE DEF x
    <3> QED
      BY <1>5, <1>6, <2>1, <3>2, <3>3
  <2> QED
    BY <1>8, <2>2, <2>3 DEF TouchCredential
<1>9. CASE Finish
  <2> DEFINE x == [Current EXCEPT !.whole = TRUE]
  <2>1. UNCHANGED <<mappings, filter, output>> /\ phase = "body"
    BY <1>9 DEF Finish
  <2>2. Current \in Tries /\ tries # <<>>
    BY <1>6, <2>1
  <2>3. tries' = [tries EXCEPT ![Len(tries)] = x]
    BY <1>9 DEF Finish
  <2>4. x \in Tries /\ x.content = Current.content /\ x.sent = Current.sent
    BY <2>2, FinishedIsTry, KeepsContent
  <2> HIDE DEF x
  <2> QED
    BY <1>5, <2>1, <2>2, <2>3, <2>4
<1>10. ASSUME NEW status \in Statuses, Respond(status) PROVE Filled'
  <2> DEFINE x == [Current EXCEPT !.status = status]
  <2>1. UNCHANGED <<mappings, filter, output>> /\ phase = "wait"
    BY <1>10 DEF Respond
  <2>2. Current \in Tries /\ tries # <<>>
    BY <1>6, <2>1
  <2>3. tries' = [tries EXCEPT ![Len(tries)] = x]
    BY <1>10 DEF Respond
  <2>4. x \in Tries /\ x.content = Current.content /\ x.sent = Current.sent
    BY <2>2, AnsweredIsTry, KeepsContent
  <2> HIDE DEF x
  <2> QED
    BY <1>5, <2>1, <2>2, <2>3, <2>4
<1>11. CASE CreateCredential
  BY <1>3, <1>11 DEF CreateCredential
<1>12. CASE \E n \in 1 .. MaxAttempts : CarryOut(n)
  BY <1>3, <1>12 DEF CarryOut
<1>13. CASE \E d \in Deleters : FindExisting(d) \/ DeleteCredential(d)
  BY <1>3, <1>13 DEF FindExisting, DeleteCredential
<1> QED
  BY <1>1, <1>2, <1>4, <1>7, <1>8, <1>9, <1>10, <1>11, <1>12, <1>13 DEF Next, DispatchStep

\* A condition says yes or no.
LEMMA SaysTruth ==
    ASSUME NEW condition, NEW value
    PROVE  LET lookup == [found |-> TRUE, value |-> value]
           IN  Says(condition, lookup) \in BOOLEAN
<1> DEFINE operator == condition.operator
           x == Scalar(value)
           y == condition.value
<1>1. Compares(operator, x, y) \in BOOLEAN
  BY DEF Compares
<1>2. (\E place \in DOMAIN value : Len(place) = 1 /\ value[place] = y) \in BOOLEAN
  OBVIOUS
<1>3. (<<operator, x, y>> \in Texts) \in BOOLEAN
  OBVIOUS
<1> HIDE DEF x
<1> QED
  BY <1>1, <1>2, <1>3 DEF Says, x

\* A filter that asks for all of its conditions is passed only if each is true.
LEMMA PassedMeans ==
    ASSUME Passes, filter.mode = "all", NEW c \in filter.conditions, NEW value,
           GetPath(output, c.path) = [found |-> TRUE, value |-> value]
    PROVE  Says(c, [found |-> TRUE, value |-> value])
<1>1. Says(c, [found |-> TRUE, value |-> value]) # FALSE
  BY DEF Passes
<1> QED
  BY <1>1, SaysTruth

LEMMA FilledArrives == IInv /\ Filled => MappedValuesArrive
<1> SUFFICES ASSUME IInv, Filled, NEW n \in 1 .. Len(tries), NEW i \in DOMAIN mappings, Free(i)
             PROVE  LET written == [found |-> TRUE, value |-> Looked(mappings[i].from)]
                    IN  /\ tries[n].sent /\ mappings[i].to = Reads => tries[n].content = written.value
                        /\ \A c \in filter.conditions :
                              filter.mode = "all" /\ c.path = mappings[i].to => Says(c, written)
  BY DEF MappedValuesArrive
<1> DEFINE value == Looked(mappings[i].from)
<1>1. phase \notin Untried
  BY DEF IInv, Attempts
<1>2. Passes /\ output = ApplyTransform(mappings)
  BY <1>1 DEF Filled
<1>3. GetPath(output, mappings[i].to) = [found |-> TRUE, value |-> value]
  <2>1. mappings \in Seq(Mappings)
    BY DEF Filled
  <2> HIDE DEF Mappings
  <2> QED
    BY <1>2, <2>1, Arrives
<1> HIDE DEF value
<1>4. ASSUME tries[n].sent, mappings[i].to = Reads PROVE tries[n].content = value
  <2>1. tries[n].content = Interpolate(output, Reads)
    BY <1>4 DEF Filled
  <2>2. Interpolate(output, Reads) = value
    BY <1>3, <1>4 DEF Interpolate
  <2> QED
    BY <2>1, <2>2
<1>5. ASSUME NEW c \in filter.conditions, filter.mode = "all", c.path = mappings[i].to
      PROVE  Says(c, [found |-> TRUE, value |-> value])
  BY <1>2, <1>3, <1>5, PassedMeans
<1> QED
  BY <1>4, <1>5 DEF value

\* What a mapping writes that no other mapping is in the way of is what the filter
\* and the template after it find at its path (path.ts, setPath and getPath).
THEOREM MappedValuesAreRead == Spec => []MappedValuesArrive
<1>1. ASSUME Filled, UNCHANGED vars PROVE Filled'
  BY <1>1, FilledStays DEF vars, Filled
<1>2. IInv /\ Filled /\ [Next]_vars => Filled'
  BY <1>1, FilledSteps
<1> QED
  BY InitFilled, <1>2, Inductive, FilledArrives, PTL DEF Spec
=============================================================================
