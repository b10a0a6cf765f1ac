----------------------------- MODULE Induction ------------------------------
(***************************************************************************)
(* Induction over numbers, folds and sequences, as facts about sets and    *)
(* functions: what is proved here takes no operator as a parameter, so     *)
(* that it can be used for the folds of any module.                        *)
(*                                                                         *)
(* FoldLeft is defined by a choice of a function on sets of positions that *)
(* takes away the largest one first. Unfolds tells that there is such a    *)
(* function, Iterates that what it gives for all positions is the last of  *)
(* the values that step after step makes of the base. A module that folds  *)
(* instantiates both with its own step, after which UpTo is its induction. *)
(***************************************************************************)
EXTENDS Integers, Sequences, FiniteSets, SequencesExt, WellFoundedInduction,
        FiniteSetTheorems, TLAPS

\* Every set of numbers that is not empty has a least one.
LEMMA LeastOf ==
    ASSUME NEW T, T \subseteq Nat, T # {} PROVE \E m \in T : \A n \in T : m <= n
<1>1. PICK m \in T : \A n \in T : ~(<<n, m>> \in OpToRel(<, Nat))
  BY NatLessThanWellFounded, WFMin
<1>2. \A n \in T : ~(n < m)
  BY <1>1 DEF OpToRel
<1> QED
  BY <1>2

\* Induction, with a set in the place of a predicate: what holds of 0 and of the
\* successor of whatever it holds of holds of all numbers.
LEMMA NatSet ==
    ASSUME NEW T, 0 \in T, \A n \in Nat : n \in T => n + 1 \in T
    PROVE  \A n \in Nat : n \in T
<1> DEFINE U == Nat \ T
<1> SUFFICES ASSUME U # {} PROVE FALSE
  OBVIOUS
<1>1. PICK m \in U : \A n \in U : m <= n
  <2> HIDE DEF U
  <2>1. U \subseteq Nat
    BY DEF U
  <2> QED
    BY <2>1, LeastOf
<1>2. m # 0 /\ m - 1 \in Nat
  BY <1>1
<1>3. m - 1 \in T
  BY <1>1, <1>2
<1> QED
  BY <1>1, <1>2, <1>3

\* Induction as far as n.
LEMMA UpTo ==
    ASSUME NEW n \in Nat, NEW T, 0 \in T, \A k \in 0 .. n - 1 : k \in T => k + 1 \in T
    PROVE  \A k \in 0 .. n : k \in T
<1> DEFINE U == {k \in Nat : k <= n => k \in T}
<1>1. 0 \in U
  OBVIOUS
<1>2. \A k \in Nat : k \in U => k + 1 \in U
  OBVIOUS
<1> HIDE DEF U
<1>3. \A k \in Nat : k \in U
  BY <1>1, <1>2, NatSet
<1> QED
  BY <1>3 DEF U

\* The maximum of a set of numbers is in it and none is larger.
LEMMA MaxOf ==
    ASSUME NEW n \in Nat, NEW s \in SUBSET (1 .. n), s # {}
    PROVE  Max(s) \in s /\ \A x \in s : x <= Max(s)
<1> DEFINE U == {u \in Nat : \E x \in s : u = n - x}
<1>1. U # {} /\ U \subseteq Nat
  <2>1. PICK x \in s : TRUE
    OBVIOUS
  <2>2. n - x \in Nat
    BY <2>1
  <2> QED
    BY <2>1, <2>2
<1>2. PICK m \in U : \A u \in U : m <= u
  <2> HIDE DEF U
  <2> QED
    BY <1>1, LeastOf
<1>3. PICK y \in s : m = n - y
  OBVIOUS
<1>4. \A x \in s : y >= x
  BY <1>2, <1>3
<1> QED
  BY <1>4 DEF Max

\* A function of all sets of the first n positions that folds a set by its
\* largest element.
Unfolding(it, base, n, F) ==
    it = [s \in SUBSET (1 .. n) |-> IF s = {} THEN base ELSE F[Max(s)][it[s \ {Max(s)}]]]

\* There is such a function, whatever the step and the base are.
LEMMA Unfolds ==
    ASSUME NEW X, NEW base \in X, NEW n \in Nat, NEW F \in [1 .. n -> [X -> X]]
    PROVE  \E it \in [SUBSET (1 .. n) -> X] : Unfolding(it, base, n, F)
<1> DEFINE T == {m \in 0 .. n : \E it \in [SUBSET (1 .. m) -> X] : Unfolding(it, base, m, F)}
<1>1. 0 \in T
  <2> DEFINE it == [s \in SUBSET (1 .. 0) |-> base]
  <2>1. it \in [SUBSET (1 .. 0) -> X] /\ \A s \in SUBSET (1 .. 0) : s = {}
    OBVIOUS
  <2>2. Unfolding(it, base, 0, F) /\ 0 \in 0 .. n
    BY <2>1 DEF Unfolding
  <2> QED
    BY <2>1, <2>2
<1>2. ASSUME NEW m \in 0 .. n - 1, m \in T PROVE m + 1 \in T
  <2>1. PICK it \in [SUBSET (1 .. m) -> X] : Unfolding(it, base, m, F)
    BY <1>2
  <2> DEFINE it2 == [s \in SUBSET (1 .. m + 1) |->
                       IF m + 1 \in s THEN F[m + 1][it[s \ {m + 1}]] ELSE it[s]]
  <2>0. m \in Nat /\ m + 1 \in Nat
    OBVIOUS
  <2>2. ASSUME NEW s \in SUBSET (1 .. m + 1)
        PROVE  /\ m + 1 \in s => s \ {m + 1} \in SUBSET (1 .. m) /\ Max(s) = m + 1
               /\ m + 1 \notin s => s \in SUBSET (1 .. m)
    <3>1. CASE m + 1 \in s
      <4>1. Max(s) \in s /\ \A x \in s : x <= Max(s)
        BY <2>0, <3>1, MaxOf
      <4>2. Max(s) \in 1 .. m + 1 /\ m + 1 <= Max(s)
        BY <3>1, <4>1
      <4>3. Max(s) = m + 1
        BY <4>2
      <4> QED
        BY <3>1, <4>3
    <3> QED
      BY <3>1
  <2>3. it2 \in [SUBSET (1 .. m + 1) -> X]
    BY <2>2
  <2>4. Unfolding(it2, base, m + 1, F)
    <3> SUFFICES ASSUME NEW s \in SUBSET (1 .. m + 1)
                 PROVE  it2[s] = IF s = {} THEN base ELSE F[Max(s)][it2[s \ {Max(s)}]]
      BY DEF Unfolding
    <3>1. CASE m + 1 \in s
      <4>1. Max(s) = m + 1 /\ s \ {m + 1} \in SUBSET (1 .. m) /\ s # {}
        BY <3>1, <2>2
      <4>2. it2[s \ {m + 1}] = it[s \ {m + 1}]
        BY <4>1
      <4>3. it2[s] = F[m + 1][it[s \ {m + 1}]]
        BY <3>1
      <4> QED
        BY <4>1, <4>2, <4>3
    <3>2. CASE m + 1 \notin s
      <4>1. s \in SUBSET (1 .. m) /\ it2[s] = it[s]
        BY <3>2, <2>2
      <4>2. it[s] = IF s = {} THEN base ELSE F[Max(s)][it[s \ {Max(s)}]]
        BY <2>1, <4>1 DEF Unfolding
      <4>3. CASE s # {}
        <5>1. Max(s) \in s
          BY <2>0, <4>1, <4>3, MaxOf
        <5>2. s \ {Max(s)} \in SUBSET (1 .. m) /\ it2[s \ {Max(s)}] = it[s \ {Max(s)}]
          BY <4>1, <3>2
        <5> QED
          BY <4>1, <4>2, <4>3, <5>2
      <4> QED
        BY <4>1, <4>2, <4>3
    <3> QED
      BY <3>1, <3>2
  <2> HIDE DEF it2
  <2> QED
    BY <2>3, <2>4
<1>3. \A m \in 0 .. n : m \in T
  <2> HIDE DEF T
  <2> QED
    BY <1>1, <1>2, UpTo
<1>4. n \in T
  <2> HIDE DEF T
  <2> QED
    BY <1>3
<1> QED
  BY <1>4

\* Base and step, one position after the other.
Iteration(r, base, n, F) ==
    /\ r[0] = base
    /\ \A k \in 1 .. n : r[k] = F[k][r[k - 1]]

\* A value of the fold that is known to be of its type is what the step makes of
\* the one before it.
Folding(it, X, base, n, F) ==
    /\ it[{}] = base
    /\ \A s \in SUBSET (1 .. n) :
          s # {} /\ it[s \ {Max(s)}] \in X => it[s] = F[Max(s)][it[s \ {Max(s)}]]

\* A fold from the left is the last of n + 1 values: the base, and what each step
\* makes of the one before.
LEMMA Iterates ==
    ASSUME NEW X, NEW base \in X, NEW n \in Nat, NEW F \in [1 .. n -> [X -> X]], NEW it,
           Folding(it, X, base, n, F)
    PROVE  \E r \in [0 .. n -> X] : Iteration(r, base, n, F) /\ r[n] = it[1 .. n]
<1> DEFINE T == {k \in 0 .. n : it[1 .. k] \in X}
           r == [k \in 0 .. n |-> it[1 .. k]]
<1>1. 0 \in T /\ r[0] = base
  <2>1. 1 .. 0 = {}
    OBVIOUS
  <2> QED
    BY <2>1 DEF Folding
<1>2. ASSUME NEW k \in 0 .. n - 1, it[1 .. k] \in X
      PROVE  it[1 .. k + 1] = F[k + 1][it[1 .. k]] /\ it[1 .. k + 1] \in X
  <2> DEFINE s == 1 .. k + 1
  <2>1. k + 1 \in 1 .. n /\ s \in SUBSET (1 .. n) /\ k + 1 \in s /\ s \ {k + 1} = 1 .. k
    OBVIOUS
  <2>2. Max(s) \in s /\ \A x \in s : x <= Max(s)
    <3> HIDE DEF s
    <3> QED
      BY <2>1, MaxOf
  <2>3. Max(s) = k + 1
    BY <2>1, <2>2
  <2>4. it[s] = F[k + 1][it[1 .. k]]
    <3> HIDE DEF s
    <3>1. s # {} /\ s \ {Max(s)} = 1 .. k
      BY <2>1, <2>3
    <3>2. s \in SUBSET (1 .. n) /\ s # {} /\ it[s \ {Max(s)}] \in X
      BY <1>2, <2>1, <3>1
    <3>3. it[s] = F[Max(s)][it[s \ {Max(s)}]]
      BY <3>2 DEF Folding
    <3> QED
      BY <2>3, <3>1, <3>3
  <2> QED
    BY <1>2, <2>1, <2>4
<1>3. \A k \in 0 .. n : k \in T
  <2>1. \A k \in 0 .. n - 1 : k \in T => k + 1 \in T
    BY <1>2
  <2> HIDE DEF T
  <2> QED
    BY <1>1, <2>1, UpTo
<1>4. r \in [0 .. n -> X]
  BY <1>3
<1>5. \A k \in 1 .. n : r[k] = F[k][r[k - 1]]
  <2> TAKE k \in 1 .. n
  <2>1. k - 1 \in 0 .. n - 1 /\ (k - 1) + 1 = k /\ it[1 .. k - 1] \in X
    BY <1>3
  <2> QED
    BY <1>2, <2>1
<1>6. r[n] = it[1 .. n]
  OBVIOUS
<1> HIDE DEF r
<1> QED
  BY <1>1, <1>4, <1>5, <1>6 DEF Iteration

-----------------------------------------------------------------------------
\* What an element appended to a sequence adds to its members, and when none is
\* repeated.
LEMMA AppendOf ==
    ASSUME NEW S, NEW s \in Seq(S), NEW x \in S
    PROVE  /\ Append(s, x) \in Seq(S)
           /\ ToSet(Append(s, x)) = ToSet(s) \cup {x}
           /\ IsInjective(s) /\ x \notin ToSet(s) => IsInjective(Append(s, x))
<1> DEFINE t == Append(s, x)
<1>1. /\ t \in Seq(S) /\ Len(t) = Len(s) + 1 /\ Len(s) \in Nat
      /\ DOMAIN t = 1 .. Len(s) + 1 /\ DOMAIN s = 1 .. Len(s)
      /\ \A i \in 1 .. Len(s) : t[i] = s[i]
      /\ t[Len(s) + 1] = x
  OBVIOUS
<1> HIDE DEF t
<1>2. ToSet(t) = ToSet(s) \cup {x}
  <2>1. ASSUME NEW y \in ToSet(t) PROVE y \in ToSet(s) \cup {x}
    <3>1. PICK i \in 1 .. Len(s) + 1 : y = t[i]
      BY <1>1, <2>1 DEF ToSet
    <3>2. i \in 1 .. Len(s) \/ i = Len(s) + 1
      BY <1>1
    <3> QED
      BY <1>1, <3>1, <3>2 DEF ToSet
  <2>2. ASSUME NEW i \in 1 .. Len(s) PROVE s[i] \in ToSet(t)
    BY <1>1 DEF ToSet
  <2>3. x \in ToSet(t)
    BY <1>1 DEF ToSet
  <2>4. \A y \in ToSet(s) : \E i \in 1 .. Len(s) : y = s[i]
    BY <1>1 DEF ToSet
  <2> QED
    BY <2>1, <2>2, <2>3, <2>4
<1>3. ASSUME IsInjective(s), x \notin ToSet(s) PROVE IsInjective(t)
  <2>1. \A i \in 1 .. Len(s) : s[i] # x
    BY <1>1, <1>3 DEF ToSet
  <2> SUFFICES ASSUME NEW i \in 1 .. Len(s) + 1, NEW j \in 1 .. Len(s) + 1, t[i] = t[j] PROVE i = j
    BY <1>1 DEF IsInjective
  <2>2. (i \in 1 .. Len(s) \/ i = Len(s) + 1) /\ (j \in 1 .. Len(s) \/ j = Len(s) + 1)
    BY <1>1
  <2> QED
    BY <1>1, <1>3, <2>1, <2>2 DEF IsInjective
<1> QED
  BY <1>1, <1>2, <1>3 DEF t

\* The members of a sequence are its head and those of its tail.
LEMMA TailOf ==
    ASSUME NEW S, NEW s \in Seq(S), s # <<>>
    PROVE  /\ Head(s) \in S /\ Tail(s) \in Seq(S)
           /\ ToSet(s) = {Head(s)} \cup ToSet(Tail(s))
           /\ IsInjective(s) => IsInjective(Tail(s)) /\ Head(s) \notin ToSet(Tail(s))
<1> DEFINE t == Tail(s)
<1>1. /\ t \in Seq(S) /\ Len(t) = Len(s) - 1 /\ Len(s) \in Nat \ {0}
      /\ DOMAIN t = 1 .. Len(s) - 1 /\ DOMAIN s = 1 .. Len(s)
      /\ \A i \in 1 .. Len(s) - 1 : t[i] = s[i + 1]
      /\ Head(s) = s[1] /\ Head(s) \in S
  OBVIOUS
<1> HIDE DEF t
<1>2. ToSet(s) = {Head(s)} \cup ToSet(t)
  <2>1. ASSUME NEW y \in ToSet(s) PROVE y \in {Head(s)} \cup ToSet(t)
    <3>1. PICK i \in 1 .. Len(s) : y = s[i]
      BY <1>1, <2>1 DEF ToSet
    <3>2. CASE i = 1
      BY <1>1, <3>1, <3>2
    <3>3. CASE i # 1
      <4>1. i - 1 \in 1 .. Len(s) - 1 /\ (i - 1) + 1 = i
        BY <1>1, <3>3
      <4>2. t[i - 1] = y
        BY <1>1, <3>1, <4>1
      <4> QED
        BY <1>1, <4>1, <4>2 DEF ToSet
    <3> QED
      BY <3>2, <3>3
  <2>2. ASSUME NEW y \in ToSet(t) PROVE y \in ToSet(s)
    <3>1. PICK i \in 1 .. Len(s) - 1 : y = t[i]
      BY <1>1, <2>2 DEF ToSet
    <3>2. i + 1 \in 1 .. Len(s) /\ y = s[i + 1]
      BY <1>1, <3>1
    <3> QED
      BY <1>1, <3>2 DEF ToSet
  <2>3. Head(s) \in ToSet(s)
    <3>1. 1 \in DOMAIN s
      BY <1>1
    <3> QED
      BY <1>1, <3>1 DEF ToSet
  <2> QED
    BY <2>1, <2>2, <2>3
<1>3. ASSUME IsInjective(s) PROVE IsInjective(t) /\ Head(s) \notin ToSet(t)
  <2>1. ASSUME NEW i \in 1 .. Len(s) - 1, NEW j \in 1 .. Len(s) - 1, t[i] = t[j] PROVE i = j
    <3>1. i + 1 \in 1 .. Len(s) /\ j + 1 \in 1 .. Len(s) /\ s[i + 1] = s[j + 1]
      BY <1>1, <2>1
    <3>2. i + 1 = j + 1
      BY <1>1, <1>3, <3>1 DEF IsInjective
    <3> QED
      BY <3>2
  <2>2. ASSUME NEW i \in 1 .. Len(s) - 1, t[i] = Head(s) PROVE FALSE
    <3>1. i + 1 \in 1 .. Len(s) /\ 1 \in 1 .. Len(s) /\ s[i + 1] = s[1] /\ i + 1 # 1
      BY <1>1, <2>2
    <3> QED
      BY <1>1, <1>3, <3>1 DEF IsInjective
  <2> QED
    BY <1>1, <2>1, <2>2 DEF IsInjective, ToSet
<1> QED
  BY <1>1, <1>2, <1>3 DEF t

\* A sequence over a finite set that repeats nothing is no longer than the set is
\* large, and if it is as long it contains all of it.
LEMMA InjectiveLength ==
    ASSUME NEW S, IsFiniteSet(S), NEW s \in Seq(S), IsInjective(s)
    PROVE  /\ Len(s) <= Cardinality(S)
           /\ Len(s) = Cardinality(S) => ToSet(s) = S
<1>1. Len(s) \in Nat /\ DOMAIN s = 1 .. Len(s) /\ s \in [1 .. Len(s) -> S]
  OBVIOUS
<1>2. s \in Injection(1 .. Len(s), S)
  BY <1>1 DEF Injection, IsInjective
<1>3. Cardinality(1 .. Len(s)) = Len(s)
  BY <1>1, FS_Interval
<1>4. /\ Cardinality(1 .. Len(s)) <= Cardinality(S)
      /\ Cardinality(1 .. Len(s)) = Cardinality(S) => s \in Surjection(1 .. Len(s), S)
  BY <1>2, FS_Injection
<1> QED
  BY <1>1, <1>3, <1>4 DEF Surjection, ToSet

\* The members of a sequence are at most as many as it is long, and exactly as
\* many only if none is repeated.
LEMMA MembersOf ==
    ASSUME NEW S, NEW s \in Seq(S)
    PROVE  /\ IsFiniteSet(ToSet(s)) /\ Cardinality(ToSet(s)) <= Len(s)
           /\ Cardinality(ToSet(s)) = Len(s) <=> IsInjective(s)
<1>1. Len(s) \in Nat /\ DOMAIN s = 1 .. Len(s) /\ s \in [1 .. Len(s) -> ToSet(s)]
  BY DEF ToSet
<1>2. IsFiniteSet(1 .. Len(s)) /\ Cardinality(1 .. Len(s)) = Len(s)
  BY <1>1, FS_Interval
<1>3. s \in Surjection(1 .. Len(s), ToSet(s))
  BY <1>1 DEF Surjection, ToSet
<1>4. /\ IsFiniteSet(ToSet(s)) /\ Cardinality(ToSet(s)) <= Cardinality(1 .. Len(s))
      /\ Cardinality(ToSet(s)) = Cardinality(1 .. Len(s)) <=> s \in Injection(1 .. Len(s), ToSet(s))
  BY <1>2, <1>3, FS_Surjection
<1>5. s \in Injection(1 .. Len(s), ToSet(s)) <=> IsInjective(s)
  BY <1>1 DEF Injection, IsInjective
<1> QED
  BY <1>2, <1>4, <1>5
=============================================================================
