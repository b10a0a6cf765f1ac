-------------------------- MODULE DagRunner_proofs --------------------------
(***************************************************************************)
(* Theorems about GraphSchema and DagRunner, for any stored graphs and any *)
(* limit of attempts.                                                      *)
(*                                                                         *)
(* The argument. Under unique keys Kahn's counts are the numbers of edges  *)
(* a key still waits for, so that a key is visited after all it depends    *)
(* on, and keys that are never visited depend on each other; the search    *)
(* from the trigger finds more in every round until it has found all.      *)
(* Hence validateGraph accepts the rooted DAGs and no others, and          *)
(* topoSort's order goes along the edges. The walk has passed a prefix of  *)
(* that order, its step records tell the story of it, and what was asked   *)
(* of the outside world is about the nodes of that prefix and the next     *)
(* one.                                                                    *)
(***************************************************************************)
EXTENDS DagRunner, Induction

-----------------------------------------------------------------------------
(***************************************************************************)
(* What the schema accepts (lib/dag/schema.ts): the folds, Kahn's counts,  *)
(* the order, the search.                                                  *)
(***************************************************************************)
\* Every edge is between known nodes, no loop and not repeated.
SimpleEdges(g) ==
    \A i \in DOMAIN g.edges :
        /\ g.edges[i][1] \in KeysOf(g) /\ g.edges[i][2] \in KeysOf(g)
        /\ g.edges[i][1] # g.edges[i][2]
        /\ \A j \in DOMAIN g.edges : g.edges[j] = g.edges[i] => j = i

\* What Kahn's algorithm goes through.
States(g) ==
    [queue : Seq(KeysOf(g)), visited : Seq(KeysOf(g)), left : [KeysOf(g) -> Int]]

\* The nodes of a graph have keys and types.
LEMMA NodeShape ==
    ASSUME NEW g, IsGraph(g)
    PROVE  /\ Len(g.nodes) \in Nat /\ DOMAIN g.nodes = 1 .. Len(g.nodes)
           /\ \A i \in 1 .. Len(g.nodes) :
                 g.nodes[i].key \in KeysOf(g) /\ g.nodes[i].type \in NodeTypes
           /\ \A k \in KeysOf(g) : \E i \in 1 .. Len(g.nodes) : g.nodes[i].key = k
<1> DEFINE R == [key : KeysOf(g), type : NodeTypes]
<1>1. g.nodes \in Seq(R)
  BY DEF IsGraph
<1>2. Len(g.nodes) \in Nat /\ DOMAIN g.nodes = 1 .. Len(g.nodes)
  BY <1>1
<1>3. \A i \in 1 .. Len(g.nodes) : g.nodes[i] \in R
  <2> HIDE DEF R
  <2> QED
    BY <1>1
<1>4. \A k \in KeysOf(g) : \E i \in DOMAIN g.nodes : g.nodes[i].key = k
  BY DEF KeysOf
<1> QED
  BY <1>2, <1>3, <1>4

\* Its edges are pairs.
LEMMA EdgeShape ==
    ASSUME NEW g, IsGraph(g)
    PROVE  /\ Len(g.edges) \in Nat /\ DOMAIN g.edges = 1 .. Len(g.edges)
           /\ g.edges \in Seq(ToSet(g.edges))
           /\ \A i \in 1 .. Len(g.edges) :
                 g.edges[i] \in ToSet(g.edges) /\ g.edges[i] = <<g.edges[i][1], g.edges[i][2]>>
           /\ \A e \in ToSet(g.edges) : \E i \in 1 .. Len(g.edges) : g.edges[i] = e
<1>1. g.edges \in Seq(ToSet(g.edges)) /\ \A e \in ToSet(g.edges) : e = <<e[1], e[2]>>
  BY DEF IsGraph
<1>2. Len(g.edges) \in Nat /\ DOMAIN g.edges = 1 .. Len(g.edges)
  BY <1>1
<1>3. \A i \in 1 .. Len(g.edges) : g.edges[i] \in ToSet(g.edges)
  BY <1>1
<1>4. \A e \in ToSet(g.edges) : \E i \in DOMAIN g.edges : g.edges[i] = e
  BY DEF ToSet
<1> QED
  BY <1>1, <1>2, <1>3, <1>4

\* An edge that is accepted joins those accepted before.
LEMMA AcceptType ==
    ASSUME NEW g, NEW E, NEW accepted \in Seq(E), NEW e \in E
    PROVE  AcceptEdge(g, accepted, e) \in Seq(E)
BY DEF AcceptEdge

\* The accepted edges are what one edge after the other leaves. The lemmas about
\* the other folds of the schema go along the same lines.
LEMMA AcceptSteps ==
    ASSUME NEW g, IsGraph(g)
    PROVE  \E r \in [0 .. Len(g.edges) -> Seq(ToSet(g.edges))] :
              /\ r[0] = <<>> /\ r[Len(g.edges)] = AcceptedEdges(g)
              /\ \A k \in 1 .. Len(g.edges) : r[k] = AcceptEdge(g, r[k - 1], g.edges[k])
<1> DEFINE sq == g.edges
           n == Len(sq)
           base == <<>>
           X == Seq(ToSet(g.edges))
           F == [i \in 1 .. n |-> [x \in X |-> AcceptEdge(g, x, sq[i])]]
           Is(f) == f = [s \in SUBSET DOMAIN sq |->
                           IF s = {} THEN base ELSE AcceptEdge(g, f[s \ {Max(s)}], sq[Max(s)])]
           it == CHOOSE f : Is(f)
<1>1. n \in Nat /\ DOMAIN sq = 1 .. n
  BY EdgeShape
<1>2. base \in X
  BY EdgeShape
<1>3. F \in [1 .. n -> [X -> X]]
  <2>1. ASSUME NEW i \in 1 .. n, NEW x \in X PROVE AcceptEdge(g, x, sq[i]) \in X
    <3>1. sq[i] \in ToSet(g.edges)
      BY EdgeShape
    <3> QED
      BY <3>1, AcceptType
  <2> QED
    BY <2>1
<1>4. \A s \in SUBSET (1 .. n) : s # {} => Max(s) \in 1 .. n
  <2> HIDE DEF n
  <2> QED
    BY <1>1, MaxOf
<1> HIDE DEF base
<1>5. Is(it)
  <2>1. PICK f \in [SUBSET (1 .. n) -> X] : Unfolding(f, base, n, F)
    <3> HIDE DEF F, X, n
    <3> QED
      BY <1>1, <1>2, <1>3, Unfolds
  <2>2. Is(f)
    BY <1>1, <1>4, <2>1 DEF Unfolding
  <2> HIDE DEF Is
  <2> QED
    BY <2>2
<1>6. AcceptedEdges(g) = it[1 .. n]
  BY <1>1 DEF base, AcceptedEdges, FoldLeft, MapThenFoldSet
<1> HIDE DEF it
<1>7. Folding(it, X, base, n, F)
  <2>1. it[{}] = base
    BY <1>1, <1>5
  <2>2. ASSUME NEW s \in SUBSET (1 .. n), s # {}, it[s \ {Max(s)}] \in X
        PROVE  it[s] = F[Max(s)][it[s \ {Max(s)}]]
    <3> HIDE DEF X
    <3>1. Max(s) \in 1 .. n /\ s \in SUBSET DOMAIN sq
      BY <1>1, <1>4, <2>2
    <3>2. it[s] = AcceptEdge(g, it[s \ {Max(s)}], sq[Max(s)])
      BY <1>5, <2>2, <3>1
    <3> QED
      BY <2>2, <3>1, <3>2
  <2> HIDE DEF F, X, n
  <2> QED
    BY <2>1, <2>2 DEF Folding
<1>8. PICK r \in [0 .. n -> X] : Iteration(r, base, n, F) /\ r[n] = it[1 .. n]
  <2> HIDE DEF F, X, n
  <2> QED
    BY <1>1, <1>2, <1>3, <1>7, Iterates
<1>9. ASSUME NEW k \in 1 .. n PROVE r[k] = AcceptEdge(g, r[k - 1], sq[k])
  <2> HIDE DEF X
  <2>1. r[k - 1] \in X
    BY <1>1, <1>8
  <2>2. r[k] = F[k][r[k - 1]]
    <3> HIDE DEF F, n
    <3> QED
      BY <1>8 DEF Iteration
  <2> QED
    BY <2>1, <2>2
<1> QED
  BY <1>6, <1>8, <1>9 DEF Iteration, base

\* A node that is queued joins the queue with its key.
LEMMA EnqueueType ==
    ASSUME NEW g, NEW queue \in Seq(KeysOf(g)), NEW node, node.key \in KeysOf(g)
    PROVE  Enqueue(g, queue, node) \in Seq(KeysOf(g))
BY DEF Enqueue

\* The first queue is what one node after the other leaves.
LEMMA QueueSteps ==
    ASSUME NEW g, IsGraph(g)
    PROVE  \E r \in [0 .. Len(g.nodes) -> Seq(KeysOf(g))] :
              /\ r[0] = <<>> /\ r[Len(g.nodes)] = Start(g).queue
              /\ \A k \in 1 .. Len(g.nodes) : r[k] = Enqueue(g, r[k - 1], g.nodes[k])
<1> DEFINE sq == g.nodes
           n == Len(sq)
           base == <<>>
           X == Seq(KeysOf(g))
           F == [i \in 1 .. n |-> [x \in X |-> Enqueue(g, x, sq[i])]]
           Is(f) == f = [s \in SUBSET DOMAIN sq |->
                           IF s = {} THEN base ELSE Enqueue(g, f[s \ {Max(s)}], sq[Max(s)])]
           it == CHOOSE f : Is(f)
<1>1. n \in Nat /\ DOMAIN sq = 1 .. n
  BY NodeShape
<1>2. base \in X
  BY NodeShape
<1>3. F \in [1 .. n -> [X -> X]]
  <2>1. ASSUME NEW i \in 1 .. n, NEW x \in X PROVE Enqueue(g, x, sq[i]) \in X
    <3>1. sq[i].key \in KeysOf(g)
      BY NodeShape
    <3> QED
      BY <3>1, EnqueueType
  <2> QED
    BY <2>1
<1>4. \A s \in SUBSET (1 .. n) : s # {} => Max(s) \in 1 .. n
  <2> HIDE DEF n
  <2> QED
    BY <1>1, MaxOf
<1> HIDE DEF base
<1>5. Is(it)
  <2>1. PICK f \in [SUBSET (1 .. n) -> X] : Unfolding(f, base, n, F)
    <3> HIDE DEF F, X, n
    <3> QED
      BY <1>1, <1>2, <1>3, Unfolds
  <2>2. Is(f)
    BY <1>1, <1>4, <2>1 DEF Unfolding
  <2> HIDE DEF Is
  <2> QED
    BY <2>2
<1>6. Start(g).queue = it[1 .. n]
  BY <1>1 DEF base, Start, FoldLeft, MapThenFoldSet
<1> HIDE DEF it
<1>7. Folding(it, X, base, n, F)
  <2>1. it[{}] = base
    BY <1>1, <1>5
  <2>2. ASSUME NEW s \in SUBSET (1 .. n), s # {}, it[s \ {Max(s)}] \in X
        PROVE  it[s] = F[Max(s)][it[s \ {Max(s)}]]
    <3> HIDE DEF X
    <3>1. Max(s) \in 1 .. n /\ s \in SUBSET DOMAIN sq
      BY <1>1, <1>4, <2>2
    <3>2. it[s] = Enqueue(g, it[s \ {Max(s)}], sq[Max(s)])
      BY <1>5, <2>2, <3>1
    <3> QED
      BY <2>2, <3>1, <3>2
  <2> HIDE DEF F, X, n
  <2> QED
    BY <2>1, <2>2 DEF Folding
<1>8. PICK r \in [0 .. n -> X] : Iteration(r, base, n, F) /\ r[n] = it[1 .. n]
  <2> HIDE DEF F, X, n
  <2> QED
    BY <1>1, <1>2, <1>3, <1>7, Iterates
<1>9. ASSUME NEW k \in 1 .. n PROVE r[k] = Enqueue(g, r[k - 1], sq[k])
  <2> HIDE DEF X
  <2>1. r[k - 1] \in X
    BY <1>1, <1>8
  <2>2. r[k] = F[k][r[k - 1]]
    <3> HIDE DEF F, n
    <3> QED
      BY <1>8 DEF Iteration
  <2> QED
    BY <2>1, <2>2
<1> QED
  BY <1>6, <1>8, <1>9 DEF Iteration, base

\* Indegrees are numbers.
LEMMA IndegreeType ==
    ASSUME NEW g, IsGraph(g), NEW k
    PROVE  InDegreeOf(g, k) \in Nat
<1>1. IsFiniteSet(1 .. Len(g.edges))
  <2>1. Len(g.edges) \in Nat
    BY EdgeShape
  <2> QED
    BY <2>1, FS_Interval
<1>2. {i \in DOMAIN g.edges : g.edges[i][2] = k} \in SUBSET (1 .. Len(g.edges))
  BY EdgeShape
<1>3. IsFiniteSet({i \in DOMAIN g.edges : g.edges[i][2] = k})
  BY <1>1, <1>2, FS_Subset
<1> QED
  BY <1>3, FS_CardinalityType DEF InDegreeOf

\* Kahn starts in one of its states.
LEMMA StartType ==
    ASSUME NEW g, IsGraph(g)
    PROVE  Start(g) \in States(g)
<1> DEFINE queue == Start(g).queue
           left == [k \in KeysOf(g) |-> InDegreeOf(g, k)]
<1>1. queue \in Seq(KeysOf(g))
  BY QueueSteps, NodeShape
<1>2. left \in [KeysOf(g) -> Int]
  BY IndegreeType
<1>3. Start(g) = [queue |-> queue, visited |-> <<>>, left |-> left]
  BY DEF Start
<1>4. <<>> \in Seq(KeysOf(g))
  OBVIOUS
<1> HIDE DEF queue, left
<1> QED
  BY <1>1, <1>2, <1>3, <1>4 DEF States

\* Taking a key off the queue leads to a state.
LEMMA ShiftType ==
    ASSUME NEW g, NEW st \in States(g), st.queue # <<>>
    PROVE  Shift(st) \in States(g)
<1>1. st.queue \in Seq(KeysOf(g)) /\ st.visited \in Seq(KeysOf(g))
  BY DEF States
<1>2. Head(st.queue) \in KeysOf(g) /\ Tail(st.queue) \in Seq(KeysOf(g))
  BY <1>1
<1>3. Append(st.visited, Head(st.queue)) \in Seq(KeysOf(g))
  BY <1>1, <1>2
<1> QED
  BY <1>2, <1>3 DEF Shift, States

\* Counting an edge down leads to a state.
LEMMA FollowType ==
    ASSUME NEW g, SimpleEdges(g), NEW st \in States(g), NEW key, NEW i \in DOMAIN g.edges
    PROVE  Follow(st, key, g.edges[i]) \in States(g)
<1>1. g.edges[i][2] \in KeysOf(g)
  BY DEF SimpleEdges
<1>2. Append(st.queue, g.edges[i][2]) \in Seq(KeysOf(g)) /\ st.queue \in Seq(KeysOf(g))
  BY <1>1 DEF States
<1>3. st.left[g.edges[i][2]] - 1 \in Int
  BY <1>1 DEF States
<1> QED
  BY <1>1, <1>2, <1>3 DEF Follow, Arrive, States

\* A visit counts down one edge after the other.
LEMMA FollowSteps ==
    ASSUME NEW g, IsGraph(g), SimpleEdges(g),
           NEW st \in States(g), st.queue # <<>>
    PROVE  \E r \in [0 .. Len(g.edges) -> States(g)] :
              /\ r[0] = Shift(st) /\ r[Len(g.edges)] = Visit(g, st)
              /\ \A k \in 1 .. Len(g.edges) : r[k] = Follow(r[k - 1], Head(st.queue), g.edges[k])
<1> DEFINE sq == g.edges
           n == Len(sq)
           base == Shift(st)
           X == States(g)
           F == [i \in 1 .. n |-> [x \in X |-> Follow(x, Head(st.queue), sq[i])]]
           Is(f) == f = [s \in SUBSET DOMAIN sq |->
                           IF s = {} THEN base
                           ELSE Follow(f[s \ {Max(s)}], Head(st.queue), sq[Max(s)])]
           it == CHOOSE f : Is(f)
<1>1. n \in Nat /\ DOMAIN sq = 1 .. n
  BY EdgeShape
<1>2. base \in X
  BY ShiftType
<1>3. F \in [1 .. n -> [X -> X]]
  <2>1. ASSUME NEW i \in 1 .. n, NEW x \in X PROVE Follow(x, Head(st.queue), sq[i]) \in X
    <3>1. i \in DOMAIN g.edges
      BY EdgeShape
    <3> QED
      BY <3>1, FollowType
  <2> QED
    BY <2>1
<1>4. \A s \in SUBSET (1 .. n) : s # {} => Max(s) \in 1 .. n
  <2> HIDE DEF n
  <2> QED
    BY <1>1, MaxOf
<1> HIDE DEF base
<1>5. Is(it)
  <2>1. PICK f \in [SUBSET (1 .. n) -> X] : Unfolding(f, base, n, F)
    <3> HIDE DEF F, X, n
    <3> QED
      BY <1>1, <1>2, <1>3, Unfolds
  <2>2. Is(f)
    BY <1>1, <1>4, <2>1 DEF Unfolding
  <2> HIDE DEF Is
  <2> QED
    BY <2>2
<1>6. Visit(g, st) = it[1 .. n]
  BY <1>1 DEF base, Visit, FoldLeft, MapThenFoldSet
<1> HIDE DEF it
<1>7. Folding(it, X, base, n, F)
  <2>1. it[{}] = base
    BY <1>1, <1>5
  <2>2. ASSUME NEW s \in SUBSET (1 .. n), s # {}, it[s \ {Max(s)}] \in X
        PROVE  it[s] = F[Max(s)][it[s \ {Max(s)}]]
    <3> HIDE DEF X
    <3>1. Max(s) \in 1 .. n /\ s \in SUBSET DOMAIN sq
      BY <1>1, <1>4, <2>2
    <3>2. it[s] = Follow(it[s \ {Max(s)}], Head(st.queue), sq[Max(s)])
      BY <1>5, <2>2, <3>1
    <3> QED
      BY <2>2, <3>1, <3>2
  <2> HIDE DEF F, X, n
  <2> QED
    BY <2>1, <2>2 DEF Folding
<1>8. PICK r \in [0 .. n -> X] : Iteration(r, base, n, F) /\ r[n] = it[1 .. n]
  <2> HIDE DEF F, X, n
  <2> QED
    BY <1>1, <1>2, <1>3, <1>7, Iterates
<1>9. ASSUME NEW k \in 1 .. n PROVE r[k] = Follow(r[k - 1], Head(st.queue), sq[k])
  <2> HIDE DEF X
  <2>1. r[k - 1] \in X
    BY <1>1, <1>8
  <2>2. r[k] = F[k][r[k - 1]]
    <3> HIDE DEF F, n
    <3> QED
      BY <1>8 DEF Iteration
  <2> QED
    BY <2>1, <2>2
<1> QED
  BY <1>6, <1>8, <1>9 DEF Iteration, base

\* A visit leads to a state.
LEMMA VisitType ==
    ASSUME NEW g, IsGraph(g), SimpleEdges(g), NEW st \in States(g)
    PROVE  Visit(g, st) \in States(g)
<1>1. CASE st.queue = <<>>
  BY <1>1 DEF Visit
<1>2. CASE st.queue # <<>>
  BY <1>2, FollowSteps, EdgeShape
<1> QED
  BY <1>1, <1>2

\* Kahn is one visit after the other.
LEMMA KahnSteps ==
    ASSUME NEW g, IsGraph(g), SimpleEdges(g)
    PROVE  \E r \in [0 .. Len([i \in 1 .. 2 * Len(g.nodes) |-> i]) -> States(g)] :
              /\ r[0] = Start(g) /\ r[Len([i \in 1 .. 2 * Len(g.nodes) |-> i])] = Kahn(g)
              /\ \A k \in 1 .. Len([i \in 1 .. 2 * Len(g.nodes) |-> i]) : r[k] = Visit(g, r[k - 1])
<1> DEFINE sq == [i \in 1 .. 2 * Len(g.nodes) |-> i]
           n == Len(sq)
           base == Start(g)
           X == States(g)
           F == [i \in 1 .. n |-> [x \in X |-> Visit(g, x)]]
           Is(f) == f = [s \in SUBSET DOMAIN sq |->
                           IF s = {} THEN base ELSE Visit(g, f[s \ {Max(s)}])]
           it == CHOOSE f : Is(f)
<1>1. n \in Nat /\ DOMAIN sq = 1 .. n
  BY NodeShape
<1>2. base \in X
  BY StartType
<1>3. F \in [1 .. n -> [X -> X]]
  <2>1. ASSUME NEW i \in 1 .. n, NEW x \in X PROVE Visit(g, x) \in X
    BY VisitType
  <2> QED
    BY <2>1
<1>4. \A s \in SUBSET (1 .. n) : s # {} => Max(s) \in 1 .. n
  <2> HIDE DEF n
  <2> QED
    BY <1>1, MaxOf
<1> HIDE DEF base
<1>5. Is(it)
  <2>1. PICK f \in [SUBSET (1 .. n) -> X] : Unfolding(f, base, n, F)
    <3> HIDE DEF F, X, n
    <3> QED
      BY <1>1, <1>2, <1>3, Unfolds
  <2>2. Is(f)
    BY <1>1, <1>4, <2>1 DEF Unfolding
  <2> HIDE DEF Is
  <2> QED
    BY <2>2
<1>6. Kahn(g) = it[1 .. n]
  BY <1>1 DEF base, Kahn, FoldLeft, MapThenFoldSet
<1> HIDE DEF it
<1>7. Folding(it, X, base, n, F)
  <2>1. it[{}] = base
    BY <1>1, <1>5
  <2>2. ASSUME NEW s \in SUBSET (1 .. n), s # {}, it[s \ {Max(s)}] \in X
        PROVE  it[s] = F[Max(s)][it[s \ {Max(s)}]]
    <3> HIDE DEF X
    <3>1. Max(s) \in 1 .. n /\ s \in SUBSET DOMAIN sq
      BY <1>1, <1>4, <2>2
    <3>2. it[s] = Visit(g, it[s \ {Max(s)}])
      BY <1>5, <2>2, <3>1
    <3> QED
      BY <2>2, <3>1, <3>2
  <2> HIDE DEF F, X, n
  <2> QED
    BY <2>1, <2>2 DEF Folding
<1>8. PICK r \in [0 .. n -> X] : Iteration(r, base, n, F) /\ r[n] = it[1 .. n]
  <2> HIDE DEF F, X, n
  <2> QED
    BY <1>1, <1>2, <1>3, <1>7, Iterates
<1>9. ASSUME NEW k \in 1 .. n PROVE r[k] = Visit(g, r[k - 1])
  <2> HIDE DEF X
  <2>1. r[k - 1] \in X
    BY <1>1, <1>8
  <2>2. r[k] = F[k][r[k - 1]]
    <3> HIDE DEF F, n
    <3> QED
      BY <1>8 DEF Iteration
  <2> QED
    BY <2>1, <2>2
<1> QED
  BY <1>6, <1>8, <1>9 DEF Iteration, base

\* A round of the search finds known keys.
LEMMA SpreadType ==
    ASSUME NEW g, IsGraph(g), SimpleEdges(g), NEW seen \in SUBSET KeysOf(g)
    PROVE  Spread(g, seen) \in SUBSET KeysOf(g)
<1>1. \A e \in ToSet(g.edges) : e[2] \in KeysOf(g)
  BY EdgeShape DEF SimpleEdges
<1> QED
  BY <1>1 DEF Spread

\* r is what the search from the root has found after each of its rounds.
Rounds(g, root, r) ==
    /\ r[0] = {root} /\ r[Len(g.nodes)] = ReachableFrom(g, root)
    /\ \A k \in 1 .. Len(g.nodes) : r[k] = Spread(g, r[k - 1])

\* The search is one round after the other.
LEMMA SpreadSteps ==
    ASSUME NEW g, IsGraph(g), SimpleEdges(g), NEW k0 \in KeysOf(g)
    PROVE  \E r \in [0 .. Len(g.nodes) -> SUBSET KeysOf(g)] :
              Rounds(g, k0, r)
<1> DEFINE sq == g.nodes
           n == Len(sq)
           base == {k0}
           X == SUBSET KeysOf(g)
           F == [i \in 1 .. n |-> [x \in X |-> Spread(g, x)]]
           Is(f) == f = [s \in SUBSET DOMAIN sq |->
                           IF s = {} THEN base ELSE Spread(g, f[s \ {Max(s)}])]
           it == CHOOSE f : Is(f)
<1>1. n \in Nat /\ DOMAIN sq = 1 .. n
  BY NodeShape
<1>2. base \in X
  BY NodeShape
<1>3. F \in [1 .. n -> [X -> X]]
  <2>1. ASSUME NEW i \in 1 .. n, NEW x \in X PROVE Spread(g, x) \in X
    BY SpreadType
  <2> QED
    BY <2>1
<1>4. \A s \in SUBSET (1 .. n) : s # {} => Max(s) \in 1 .. n
  <2> HIDE DEF n
  <2> QED
    BY <1>1, MaxOf
<1> HIDE DEF base
<1>5. Is(it)
  <2>1. PICK f \in [SUBSET (1 .. n) -> X] : Unfolding(f, base, n, F)
    <3> HIDE DEF F, X, n
    <3> QED
      BY <1>1, <1>2, <1>3, Unfolds
  <2>2. Is(f)
    BY <1>1, <1>4, <2>1 DEF Unfolding
  <2> HIDE DEF Is
  <2> QED
    BY <2>2
<1>6. ReachableFrom(g, k0) = it[1 .. n]
  BY <1>1 DEF base, ReachableFrom, FoldLeft, MapThenFoldSet
<1> HIDE DEF it
<1>7. Folding(it, X, base, n, F)
  <2>1. it[{}] = base
    BY <1>1, <1>5
  <2>2. ASSUME NEW s \in SUBSET (1 .. n), s # {}, it[s \ {Max(s)}] \in X
        PROVE  it[s] = F[Max(s)][it[s \ {Max(s)}]]
    <3> HIDE DEF X
    <3>1. Max(s) \in 1 .. n /\ s \in SUBSET DOMAIN sq
      BY <1>1, <1>4, <2>2
    <3>2. it[s] = Spread(g, it[s \ {Max(s)}])
      BY <1>5, <2>2, <3>1
    <3> QED
      BY <2>2, <3>1, <3>2
  <2> HIDE DEF F, X, n
  <2> QED
    BY <2>1, <2>2 DEF Folding
<1>8. PICK r \in [0 .. n -> X] : Iteration(r, base, n, F) /\ r[n] = it[1 .. n]
  <2> HIDE DEF F, X, n
  <2> QED
    BY <1>1, <1>2, <1>3, <1>7, Iterates
<1>9. ASSUME NEW k \in 1 .. n PROVE r[k] = Spread(g, r[k - 1])
  <2> HIDE DEF X
  <2>1. r[k - 1] \in X
    BY <1>1, <1>8
  <2>2. r[k] = F[k][r[k - 1]]
    <3> HIDE DEF F, n
    <3> QED
      BY <1>8 DEF Iteration
  <2> QED
    BY <2>1, <2>2
<1> QED
  BY <1>6, <1>8, <1>9 DEF Iteration, base, Rounds

\* The first k edges are simple and all of them are accepted.
Prefix(g, k, acc) ==
    /\ \A i \in 1 .. k : acc[i] = g.edges[i]
    /\ \A i \in 1 .. k :
          /\ g.edges[i][1] \in KeysOf(g) /\ g.edges[i][2] \in KeysOf(g)
          /\ g.edges[i][1] # g.edges[i][2]
          /\ \A j \in 1 .. i - 1 : g.edges[j] # g.edges[i]

\* One edge more: nothing is missing as long as every edge is simple.
LEMMA AcceptStep ==
    ASSUME NEW g, IsGraph(g), NEW k \in 1 .. Len(g.edges), NEW acc \in Seq(ToSet(g.edges)),
           Len(acc) <= k - 1, Len(acc) = k - 1 => Prefix(g, k - 1, acc),
           SimpleEdges(g) => Len(acc) = k - 1
    PROVE  LET new == AcceptEdge(g, acc, g.edges[k])
           IN  /\ Len(new) <= k
               /\ Len(new) = k => Prefix(g, k, new)
               /\ SimpleEdges(g) => Len(new) = k
<1> DEFINE e == g.edges[k]
           new == AcceptEdge(g, acc, e)
<1>1. DOMAIN g.edges = 1 .. Len(g.edges) /\ Len(g.edges) \in Nat /\ e \in ToSet(g.edges)
  BY EdgeShape
<1>2. CASE {e[1], e[2]} \subseteq KeysOf(g) /\ e[1] # e[2] /\ e \notin ToSet(acc)
  <2>1. new = Append(acc, e)
    BY <1>2 DEF AcceptEdge
  <2> HIDE DEF new
  <2>2. Len(new) = Len(acc) + 1 /\ new[Len(acc) + 1] = e /\ \A i \in 1 .. Len(acc) : new[i] = acc[i]
    BY <1>1, <2>1
  <2>3. ASSUME Len(acc) = k - 1 PROVE Prefix(g, k, new)
    <3>1. Prefix(g, k - 1, acc) /\ Len(acc) \in Nat
      BY <2>3
    <3>2. \A i \in 1 .. k : new[i] = g.edges[i]
      BY <2>2, <2>3, <3>1 DEF Prefix
    <3>3. \A j \in 1 .. k - 1 : g.edges[j] # e
      <4>1. \A j \in 1 .. k - 1 : acc[j] \in ToSet(acc)
        BY <2>3 DEF ToSet
      <4> QED
        BY <1>2, <3>1, <4>1 DEF Prefix
    <3>4. \A i \in 1 .. k : i = k \/ i \in 1 .. k - 1
      OBVIOUS
    <3> QED
      BY <1>2, <3>1, <3>2, <3>3, <3>4 DEF Prefix
  <2>4. Len(acc) \in Nat
    OBVIOUS
  <2>5. Len(new) <= k /\ (Len(new) = k => Prefix(g, k, new)) /\ (SimpleEdges(g) => Len(new) = k)
    BY <2>2, <2>3, <2>4
  <2> QED
    BY <2>5 DEF new
<1>3. CASE ~({e[1], e[2]} \subseteq KeysOf(g) /\ e[1] # e[2] /\ e \notin ToSet(acc))
  <2>1. new = acc
    BY <1>3 DEF AcceptEdge
  <2>2. ~SimpleEdges(g)
    <3> SUFFICES ASSUME SimpleEdges(g) PROVE FALSE
      OBVIOUS
    <3>1. e \in ToSet(acc)
      BY <1>1, <1>3 DEF SimpleEdges
    <3>2. PICK j \in 1 .. Len(acc) : acc[j] = e
      BY <3>1 DEF ToSet
    <3>3. g.edges[j] = e /\ j \in 1 .. k - 1
      BY <3>2 DEF Prefix
    <3>4. j \in DOMAIN g.edges /\ k \in DOMAIN g.edges /\ j # k
      BY <1>1, <3>3
    <3> QED
      BY <3>3, <3>4 DEF SimpleEdges
  <2> QED
    BY <2>1, <2>2
<1> QED
  BY <1>2, <1>3

\* No edge is an error exactly if all are simple, and then the adjacency lists
\* have the graph as it is.
LEMMA AcceptedIsSimple ==
    ASSUME NEW g, IsGraph(g)
    PROVE  /\ Len(AcceptedEdges(g)) = Len(g.edges) <=> SimpleEdges(g)
           /\ SimpleEdges(g) => AcceptedEdges(g) = g.edges /\ Adjacent(g) = g
<1> DEFINE n == Len(g.edges)
           Inv(k, acc) == /\ Len(acc) <= k
                          /\ Len(acc) = k => Prefix(g, k, acc)
                          /\ SimpleEdges(g) => Len(acc) = k
<1>1. n \in Nat /\ DOMAIN g.edges = 1 .. n /\ g.edges \in Seq(ToSet(g.edges))
  BY EdgeShape
<1>2. PICK r \in [0 .. n -> Seq(ToSet(g.edges))] :
              /\ r[0] = <<>> /\ r[n] = AcceptedEdges(g)
              /\ \A k \in 1 .. n : r[k] = AcceptEdge(g, r[k - 1], g.edges[k])
  BY AcceptSteps
<1> DEFINE T == {k \in 0 .. n : Inv(k, r[k])}
<1>3. 0 \in T
  BY <1>1, <1>2 DEF Prefix
<1>4. ASSUME NEW k \in 0 .. n - 1, k \in T PROVE k + 1 \in T
  <2> HIDE DEF n
  <2>1. k + 1 \in 1 .. n /\ (k + 1) - 1 = k /\ r[k] \in Seq(ToSet(g.edges))
    BY <1>1, <1>2
  <2>2. r[k + 1] = AcceptEdge(g, r[k], g.edges[k + 1])
    BY <1>2, <2>1
  <2>3. Inv(k + 1, AcceptEdge(g, r[k], g.edges[k + 1]))
    <3>1. Inv((k + 1) - 1, r[k])
      BY <1>4, <2>1
    <3> QED
      BY <2>1, <3>1, AcceptStep DEF n
  <2> QED
    BY <2>1, <2>2, <2>3
<1>5. Inv(n, AcceptedEdges(g))
  <2>1. \A k \in 0 .. n : k \in T
    <3> HIDE DEF T, n
    <3> QED
      BY <1>1, <1>3, <1>4, UpTo
  <2>2. n \in T
    <3> HIDE DEF T
    <3> QED
      BY <1>1, <2>1
  <2> QED
    BY <1>2, <2>2
<1>6. ASSUME Len(AcceptedEdges(g)) = n PROVE SimpleEdges(g) /\ AcceptedEdges(g) = g.edges
  <2>1. Prefix(g, n, AcceptedEdges(g)) /\ AcceptedEdges(g) \in Seq(ToSet(g.edges))
    BY <1>1, <1>2, <1>5, <1>6
  <2>2. AcceptedEdges(g) = g.edges
    <3> HIDE DEF n
    <3> QED
      BY <1>1, <1>6, <2>1 DEF Prefix, n
  <2>3. ASSUME NEW i \in 1 .. n, NEW j \in 1 .. n, g.edges[j] = g.edges[i] PROVE j = i
    <3>1. ~(j \in 1 .. i - 1) /\ ~(i \in 1 .. j - 1)
      BY <2>1, <2>3 DEF Prefix
    <3> QED
      BY <3>1, <1>1
  <2> QED
    BY <1>1, <2>1, <2>2, <2>3 DEF Prefix, SimpleEdges
<1>7. ASSUME AcceptedEdges(g) = g.edges PROVE Adjacent(g) = g
  BY <1>7 DEF IsGraph, Adjacent
<1> QED
  BY <1>5, <1>6, <1>7

\* The edges into k that have not been counted down when the first m edges of h,
\* which has left the queue, have been: those of keys that are not visited.
Waiting(g, V, h, m, k) ==
    {i \in DOMAIN g.edges : /\ g.edges[i][2] = k
                            /\ g.edges[i][1] \notin V
                            /\ ~(g.edges[i][1] = h /\ i <= m)}

\* The same between two visits.
Unmet(g, V, k) == {i \in DOMAIN g.edges : g.edges[i][2] = k /\ g.edges[i][1] \notin V}

\* During the visit of h: the count of a key is the number of the edges it waits
\* for, and the keys that wait for none are those visited or queued, once.
Counting(g, V, h, m, st) ==
    /\ \A k \in KeysOf(g) : st.left[k] = Cardinality(Waiting(g, V, h, m, k))
    /\ \A k \in KeysOf(g) : k \in V \cup {h} \cup ToSet(st.queue) <=> st.left[k] = 0
    /\ (V \cup {h}) \cap ToSet(st.queue) = {}
    /\ IsInjective(st.queue)

\* Whatever a key depends on comes before it.
Ordered(g, keys) ==
    \A j \in DOMAIN keys, i \in DOMAIN g.edges :
        g.edges[i][2] = keys[j] => \E h \in 1 .. j - 1 : keys[h] = g.edges[i][1]

\* The same between two visits, after which the visited keys are in order.
KahnInv(g, st) ==
    /\ \A k \in KeysOf(g) : st.left[k] = Cardinality(Unmet(g, ToSet(st.visited), k))
    /\ \A k \in KeysOf(g) : k \in ToSet(st.visited) \cup ToSet(st.queue) <=> st.left[k] = 0
    /\ ToSet(st.visited) \cap ToSet(st.queue) = {}
    /\ IsInjective(st.queue) /\ IsInjective(st.visited)
    /\ Ordered(g, st.visited)

\* Sets of edges can be counted.
LEMMA EdgeSubsets ==
    ASSUME NEW g, IsGraph(g), NEW W \in SUBSET (DOMAIN g.edges)
    PROVE  /\ IsFiniteSet(W) /\ Cardinality(W) \in Nat
           /\ Cardinality(W) = 0 <=> W = {}
           /\ \A i \in W : Cardinality(W \ {i}) = Cardinality(W) - 1
<1>1. IsFiniteSet(DOMAIN g.edges)
  <2>1. DOMAIN g.edges = 1 .. Len(g.edges) /\ Len(g.edges) \in Nat
    BY EdgeShape
  <2> QED
    BY <2>1, FS_Interval
<1>2. IsFiniteSet(W)
  BY <1>1, FS_Subset
<1> QED
  BY <1>2, FS_CardinalityType, FS_EmptySet, FS_RemoveElement

\* The m-th edge is the only one that counting it down takes away.
LEMMA WaitingStep ==
    ASSUME NEW g, IsGraph(g), NEW V, NEW h, h \notin V, NEW m \in 1 .. Len(g.edges), NEW k
    PROVE  /\ g.edges[m][1] = h /\ g.edges[m][2] = k =>
                 /\ m \in Waiting(g, V, h, m - 1, k)
                 /\ Waiting(g, V, h, m, k) = Waiting(g, V, h, m - 1, k) \ {m}
           /\ ~(g.edges[m][1] = h /\ g.edges[m][2] = k) =>
                 Waiting(g, V, h, m, k) = Waiting(g, V, h, m - 1, k)
<1>1. DOMAIN g.edges = 1 .. Len(g.edges) /\ Len(g.edges) \in Nat
  BY EdgeShape
<1>2. \A i \in DOMAIN g.edges : i <= m <=> i <= m - 1 \/ i = m
  BY <1>1
<1>3. m \in DOMAIN g.edges /\ ~(m <= m - 1)
  BY <1>1
<1> QED
  BY <1>2, <1>3 DEF Waiting

\* Counting down the m-th edge keeps the count.
LEMMA CountingStep ==
    ASSUME NEW g, IsGraph(g), SimpleEdges(g), NEW V, NEW h, h \notin V,
           NEW m \in 1 .. Len(g.edges), NEW st \in States(g), Counting(g, V, h, m - 1, st)
    PROVE  Counting(g, V, h, m, Follow(st, h, g.edges[m]))
<1> DEFINE k0 == g.edges[m][2]
           new == Follow(st, h, g.edges[m])
           W(k) == Waiting(g, V, h, m, k)
           W0(k) == Waiting(g, V, h, m - 1, k)
<1>1. m \in DOMAIN g.edges /\ k0 \in KeysOf(g)
  BY EdgeShape DEF SimpleEdges
<1>2. \A k \in KeysOf(g) : st.left[k] = Cardinality(W0(k))
  BY DEF Counting
<1>3. CASE g.edges[m][1] # h
  <2>1. new = st
    BY <1>3 DEF Follow
  <2>2. \A k : W(k) = W0(k)
    BY <1>3, WaitingStep
  <2> HIDE DEF new, W, W0
  <2>3. \A k \in KeysOf(g) : new.left[k] = Cardinality(W(k))
    BY <1>2, <2>1, <2>2
  <2> QED
    BY <2>1, <2>3 DEF Counting, W, new
<1>4. CASE g.edges[m][1] = h
  <2>1. new = Arrive(st, k0)
    BY <1>4 DEF Follow
  <2>2. /\ new.left = [st.left EXCEPT ![k0] = @ - 1]
        /\ new.queue = IF st.left[k0] = 1 THEN Append(st.queue, k0) ELSE st.queue
    BY <2>1 DEF Arrive, States
  <2>3. m \in W0(k0) /\ W(k0) = W0(k0) \ {m}
    <3>1. g.edges[m][1] = h /\ g.edges[m][2] = k0
      BY <1>4
    <3> HIDE DEF k0
    <3>2. m \in W0(k0)
      BY <3>1, WaitingStep
    <3>3. W(k0) = W0(k0) \ {m}
      BY <3>1, WaitingStep
    <3> QED
      BY <3>2, <3>3
  <2>a. ASSUME NEW k, k # k0 PROVE W(k) = W0(k)
    BY <1>4, <2>a, WaitingStep
  <2>4. Cardinality(W(k0)) = Cardinality(W0(k0)) - 1 /\ st.left[k0] \in Nat \ {0}
    <3>1. W0(k0) \in SUBSET (DOMAIN g.edges)
      BY DEF Waiting
    <3> HIDE DEF W, W0
    <3> QED
      BY <1>1, <1>2, <2>3, <3>1, EdgeSubsets
  <2> HIDE DEF new, W, W0
  <2>5. \A k \in KeysOf(g) : new.left[k] = Cardinality(W(k))
    <3> TAKE k \in KeysOf(g)
    <3>1. st.left \in [KeysOf(g) -> Int]
      BY DEF States
    <3>2. CASE k = k0
      BY <1>1, <1>2, <2>2, <2>4, <3>1, <3>2
    <3>3. CASE k # k0
      BY <1>1, <1>2, <2>2, <2>a, <3>1, <3>3
    <3> QED
      BY <3>2, <3>3
  <2>6. st.queue \in Seq(KeysOf(g)) /\ st.left \in [KeysOf(g) -> Int]
    BY DEF States
  <2>7. k0 \notin V \cup {h} \cup ToSet(st.queue)
    BY <1>1, <2>4 DEF Counting
  <2>8. CASE st.left[k0] = 1
    <3>1. new.queue = Append(st.queue, k0) /\ new.left[k0] = 0
      BY <1>1, <2>2, <2>6, <2>8
    <3>2. ToSet(new.queue) = ToSet(st.queue) \cup {k0} /\ IsInjective(new.queue)
      BY <1>1, <2>6, <2>7, <3>1, AppendOf DEF Counting
    <3>3. \A k \in KeysOf(g) : k # k0 => new.left[k] = st.left[k]
      BY <2>2, <2>6
    <3>4. \A k \in KeysOf(g) : k \in V \cup {h} \cup ToSet(new.queue) <=> new.left[k] = 0
      BY <1>1, <3>1, <3>2, <3>3 DEF Counting
    <3>5. (V \cup {h}) \cap ToSet(new.queue) = {}
      BY <2>7, <3>2 DEF Counting
    <3> QED
      BY <2>5, <3>2, <3>4, <3>5 DEF Counting, W, new
  <2>9. CASE st.left[k0] # 1
    <3>1. new.queue = st.queue /\ new.left[k0] # 0
      BY <1>1, <2>2, <2>4, <2>6, <2>9
    <3>2. \A k \in KeysOf(g) : k # k0 => new.left[k] = st.left[k]
      BY <2>2, <2>6
    <3>3. \A k \in KeysOf(g) : k \in V \cup {h} \cup ToSet(new.queue) <=> new.left[k] = 0
      BY <1>1, <2>7, <3>1, <3>2 DEF Counting
    <3> QED
      BY <2>5, <3>1, <3>3 DEF Counting, W, new
  <2> QED
    BY <2>8, <2>9
<1> QED
  BY <1>3, <1>4

\* Before the first edge is counted down nothing has changed.
LEMMA WaitingFirst ==
    ASSUME NEW g, IsGraph(g), NEW V, NEW h, NEW k
    PROVE  Waiting(g, V, h, 0, k) = Unmet(g, V, k)
<1>1. \A i \in DOMAIN g.edges : ~(i <= 0)
  BY EdgeShape
<1> QED
  BY <1>1 DEF Waiting, Unmet

\* A key taken off the queue starts its visit with the counts as they were.
LEMMA CountingStart ==
    ASSUME NEW g, IsGraph(g), NEW st \in States(g), st.queue # <<>>, KahnInv(g, st)
    PROVE  /\ Counting(g, ToSet(st.visited), Head(st.queue), 0, Shift(st))
           /\ Head(st.queue) \in KeysOf(g) /\ Head(st.queue) \notin ToSet(st.visited)
           /\ Shift(st).visited = Append(st.visited, Head(st.queue))
<1> DEFINE V == ToSet(st.visited)
           h == Head(st.queue)
           new == Shift(st)
<1>1. st.queue \in Seq(KeysOf(g)) /\ st.visited \in Seq(KeysOf(g))
  BY DEF States
<1>2. /\ h \in KeysOf(g)
      /\ ToSet(st.queue) = {h} \cup ToSet(Tail(st.queue))
      /\ IsInjective(Tail(st.queue)) /\ h \notin ToSet(Tail(st.queue))
  BY <1>1, TailOf DEF KahnInv
<1>3. new.queue = Tail(st.queue) /\ new.left = st.left /\ new.visited = Append(st.visited, h)
  BY DEF Shift, States
<1> HIDE DEF h, new, V
<1>4. \A k \in KeysOf(g) : new.left[k] = Cardinality(Waiting(g, V, h, 0, k))
  <2> TAKE k \in KeysOf(g)
  <2>1. Waiting(g, V, h, 0, k) = Unmet(g, V, k)
    BY WaitingFirst
  <2> QED
    BY <1>3, <2>1 DEF KahnInv, V
<1>5. \A k \in KeysOf(g) : k \in V \cup {h} \cup ToSet(new.queue) <=> new.left[k] = 0
  BY <1>2, <1>3 DEF KahnInv, V
<1>6. (V \cup {h}) \cap ToSet(new.queue) = {} /\ h \notin V
  BY <1>2, <1>3 DEF KahnInv, V
<1> QED
  BY <1>2, <1>3, <1>4, <1>5, <1>6 DEF Counting, V, h, new

\* After the last edge the key counts as visited, after all it depends on.
LEMMA CountingEnd ==
    ASSUME NEW g, IsGraph(g), NEW st \in States(g), st.queue # <<>>, KahnInv(g, st),
           NEW new \in States(g),
           Counting(g, ToSet(st.visited), Head(st.queue), Len(g.edges), new),
           new.visited = Append(st.visited, Head(st.queue))
    PROVE  KahnInv(g, new)
<1> DEFINE V == ToSet(st.visited)
           h == Head(st.queue)
           n == Len(st.visited)
<1>1. st.visited \in Seq(KeysOf(g)) /\ n \in Nat
  BY DEF States
<1>2. h \in KeysOf(g) /\ h \notin V
  BY CountingStart
<1>3. ToSet(new.visited) = V \cup {h} /\ IsInjective(new.visited)
  BY <1>1, <1>2, AppendOf DEF KahnInv
<1>4. \A k \in KeysOf(g) : new.left[k] = Cardinality(Unmet(g, V \cup {h}, k))
  <2> TAKE k \in KeysOf(g)
  <2>1. \A i \in DOMAIN g.edges : i <= Len(g.edges)
    BY EdgeShape
  <2>2. Waiting(g, V, h, Len(g.edges), k) = Unmet(g, V \cup {h}, k)
    <3> HIDE DEF V, h
    <3> QED
      BY <2>1 DEF Waiting, Unmet
  <2> QED
    BY <2>2 DEF Counting
<1>5. \A i \in DOMAIN g.edges : g.edges[i][2] = h => g.edges[i][1] \in V
  <2>1. h \in ToSet(st.queue)
    <3>1. st.queue \in Seq(KeysOf(g))
      BY DEF States
    <3> QED
      BY <3>1, TailOf
  <2>2. Cardinality(Unmet(g, V, h)) = 0
    BY <1>2, <2>1 DEF KahnInv
  <2>3. Unmet(g, V, h) \in SUBSET (DOMAIN g.edges)
    BY DEF Unmet
  <2>4. Unmet(g, V, h) = {}
    BY <2>2, <2>3, EdgeSubsets
  <2> QED
    BY <2>4 DEF Unmet
<1>6. Ordered(g, new.visited)
  <2> SUFFICES ASSUME NEW j \in DOMAIN new.visited, NEW i \in DOMAIN g.edges,
                      g.edges[i][2] = new.visited[j]
               PROVE  \E p \in 1 .. j - 1 : new.visited[p] = g.edges[i][1]
    BY DEF Ordered
  <2>1. /\ DOMAIN new.visited = 1 .. n + 1 /\ DOMAIN st.visited = 1 .. n
        /\ \A p \in 1 .. n : new.visited[p] = st.visited[p]
        /\ new.visited[n + 1] = h
    BY <1>1
  <2>2. CASE j \in 1 .. n
    <3>1. PICK p \in 1 .. j - 1 : st.visited[p] = g.edges[i][1]
      BY <2>1, <2>2 DEF KahnInv, Ordered
    <3>2. p \in 1 .. n
      BY <1>1, <2>2
    <3> QED
      BY <2>1, <3>1, <3>2
  <2>3. CASE j = n + 1
    <3>1. g.edges[i][1] \in V
      BY <1>5, <2>1, <2>3
    <3>2. PICK p \in 1 .. n : st.visited[p] = g.edges[i][1]
      BY <2>1, <3>1 DEF ToSet
    <3>3. p \in 1 .. j - 1
      BY <1>1, <2>3
    <3> QED
      BY <2>1, <3>2, <3>3
  <2>4. j \in 1 .. n \/ j = n + 1
    BY <1>1, <2>1
  <2> QED
    BY <2>2, <2>3, <2>4
<1> QED
  BY <1>3, <1>4, <1>6 DEF KahnInv, Counting

\* A visit keeps the invariant and visits one key more.
LEMMA VisitStep ==
    ASSUME NEW g, IsGraph(g), SimpleEdges(g), NEW st \in States(g), st.queue # <<>>, KahnInv(g, st)
    PROVE  KahnInv(g, Visit(g, st)) /\ Len(Visit(g, st).visited) = Len(st.visited) + 1
<1> DEFINE V == ToSet(st.visited)
           h == Head(st.queue)
           n == Len(g.edges)
           visited == Append(st.visited, h)
<1>1. PICK r \in [0 .. n -> States(g)] :
              /\ r[0] = Shift(st) /\ r[n] = Visit(g, st)
              /\ \A k \in 1 .. n : r[k] = Follow(r[k - 1], h, g.edges[k])
  BY FollowSteps
<1> DEFINE T == {m \in 0 .. n : Counting(g, V, h, m, r[m]) /\ r[m].visited = visited}
<1>2. n \in Nat /\ h \notin V
  BY EdgeShape, CountingStart
<1>3. 0 \in T
  BY <1>1, <1>2, CountingStart
<1> HIDE DEF n, V, h, visited
<1>4. ASSUME NEW m \in 0 .. n - 1, m \in T PROVE m + 1 \in T
  <2>1. m + 1 \in 1 .. Len(g.edges) /\ (m + 1) - 1 = m /\ m + 1 \in 1 .. n
    BY <1>2 DEF n
  <2>2. r[m] \in States(g) /\ r[m + 1] = Follow(r[m], h, g.edges[m + 1])
    <3>1. r[m + 1] = Follow(r[(m + 1) - 1], h, g.edges[m + 1])
      BY <1>1, <2>1
    <3>2. r[(m + 1) - 1] = r[m]
      BY <2>1
    <3>3. r[m] \in States(g)
      BY <1>1, <1>2
    <3> QED
      BY <3>1, <3>2, <3>3
  <2>3. Counting(g, V, h, (m + 1) - 1, r[m])
    BY <1>4, <2>1
  <2>4. Counting(g, V, h, m + 1, Follow(r[m], h, g.edges[m + 1]))
    BY <1>2, <2>1, <2>2, <2>3, CountingStep
  <2>5. Follow(r[m], h, g.edges[m + 1]).visited = r[m].visited
    BY <2>2 DEF Follow, Arrive, States
  <2> QED
    BY <1>4, <2>1, <2>2, <2>4, <2>5
<1>5. n \in T
  <2>1. \A m \in 0 .. n : m \in T
    <3> HIDE DEF T
    <3> QED
      BY <1>2, <1>3, <1>4, UpTo
  <2> HIDE DEF T
  <2> QED
    BY <1>2, <2>1
<1>6. Visit(g, st) \in States(g)
  BY VisitType
<1>7. KahnInv(g, Visit(g, st))
  BY <1>1, <1>5, <1>6, CountingEnd DEF V, h, n, visited
<1>8. st.visited \in Seq(KeysOf(g))
  BY DEF States
<1> QED
  BY <1>1, <1>5, <1>7, <1>8 DEF visited

\* There are at most as many keys as nodes, and as many if they are unique.
LEMMA KeyCount ==
    ASSUME NEW g, IsGraph(g)
    PROVE  /\ IsFiniteSet(KeysOf(g)) /\ Cardinality(KeysOf(g)) <= Len(g.nodes)
           /\ Cardinality(KeysOf(g)) \in Nat
           /\ UniqueKeys(g) => Cardinality(KeysOf(g)) = Len(g.nodes)
<1> DEFINE n == Len(g.nodes)
           s == [i \in 1 .. n |-> g.nodes[i].key]
<1>1. n \in Nat /\ DOMAIN g.nodes = 1 .. n
  BY NodeShape
<1>2. s \in Seq(KeysOf(g)) /\ Len(s) = n /\ DOMAIN s = 1 .. n
  BY NodeShape
<1>3. ToSet(s) = KeysOf(g)
  BY <1>1 DEF ToSet, KeysOf
<1>4. UniqueKeys(g) => IsInjective(s)
  BY <1>1 DEF UniqueKeys, IsInjective
<1> HIDE DEF s
<1>5. /\ IsFiniteSet(ToSet(s)) /\ Cardinality(ToSet(s)) <= Len(s)
      /\ Cardinality(ToSet(s)) = Len(s) <=> IsInjective(s)
  BY <1>2, MembersOf
<1>6. Cardinality(ToSet(s)) \in Nat
  BY <1>5, FS_CardinalityType
<1> QED
  BY <1>2, <1>3, <1>4, <1>5, <1>6

\* The queue has the keys of those of the first k nodes that nothing points to.
Queued(g, k, queue) ==
    /\ IsInjective(queue)
    /\ \A i \in 1 .. k : InDegreeOf(g, g.nodes[i].key) = 0 => g.nodes[i].key \in ToSet(queue)
    /\ \A x \in ToSet(queue) : InDegreeOf(g, x) = 0 /\ \E i \in 1 .. k : g.nodes[i].key = x

\* One node more.
LEMMA EnqueueStep ==
    ASSUME NEW g, IsGraph(g), UniqueKeys(g), NEW k \in 1 .. Len(g.nodes),
           NEW queue \in Seq(KeysOf(g)), Queued(g, k - 1, queue)
    PROVE  Queued(g, k, Enqueue(g, queue, g.nodes[k]))
<1> DEFINE x == g.nodes[k].key
           new == Enqueue(g, queue, g.nodes[k])
<1>1. x \in KeysOf(g) /\ DOMAIN g.nodes = 1 .. Len(g.nodes) /\ Len(g.nodes) \in Nat
  BY NodeShape
<1>2. \A i \in 1 .. k : i \in 1 .. k - 1 \/ i = k
  BY <1>1
<1>3. \A i \in 1 .. k - 1 : i \in 1 .. k /\ i \in 1 .. Len(g.nodes) /\ i # k
  BY <1>1
<1>4. CASE InDegreeOf(g, x) = 0
  <2>1. new = Append(queue, x)
    BY <1>4 DEF Enqueue
  <2>2. x \notin ToSet(queue)
    <3> SUFFICES ASSUME x \in ToSet(queue) PROVE FALSE
      OBVIOUS
    <3>1. PICK i \in 1 .. k - 1 : g.nodes[i].key = x
      BY DEF Queued
    <3> QED
      BY <1>1, <1>3, <3>1 DEF UniqueKeys
  <2>3. ToSet(new) = ToSet(queue) \cup {x} /\ IsInjective(new)
    BY <1>1, <2>1, <2>2, AppendOf DEF Queued
  <2> HIDE DEF new
  <2>4. \A i \in 1 .. k : InDegreeOf(g, g.nodes[i].key) = 0 => g.nodes[i].key \in ToSet(new)
    BY <1>2, <2>3 DEF Queued
  <2>5. ASSUME NEW y \in ToSet(new)
        PROVE  InDegreeOf(g, y) = 0 /\ \E i \in 1 .. k : g.nodes[i].key = y
    <3>1. CASE y = x
      BY <1>4, <3>1
    <3>2. CASE y \in ToSet(queue)
      BY <1>3, <3>2 DEF Queued
    <3> QED
      BY <2>3, <3>1, <3>2
  <2> QED
    BY <2>3, <2>4, <2>5 DEF Queued, new
<1>5. CASE InDegreeOf(g, x) # 0
  <2>1. new = queue
    BY <1>5 DEF Enqueue
  <2>2. \A i \in 1 .. k : InDegreeOf(g, g.nodes[i].key) = 0 => g.nodes[i].key \in ToSet(queue)
    BY <1>2, <1>5 DEF Queued
  <2>3. \A y \in ToSet(queue) : InDegreeOf(g, y) = 0 /\ \E i \in 1 .. k : g.nodes[i].key = y
    BY <1>3 DEF Queued
  <2>4. IsInjective(queue)
    BY DEF Queued
  <2>5. Queued(g, k, queue)
    BY <2>2, <2>3, <2>4 DEF Queued
  <2> QED
    BY <2>1, <2>5
<1> QED
  BY <1>4, <1>5

\* The first queue has the keys that nothing points to.
LEMMA StartQueue ==
    ASSUME NEW g, IsGraph(g), UniqueKeys(g)
    PROVE  /\ IsInjective(Start(g).queue)
           /\ \A k \in KeysOf(g) : k \in ToSet(Start(g).queue) <=> InDegreeOf(g, k) = 0
<1> DEFINE n == Len(g.nodes)
<1>1. PICK r \in [0 .. n -> Seq(KeysOf(g))] :
              /\ r[0] = <<>> /\ r[n] = Start(g).queue
              /\ \A k \in 1 .. n : r[k] = Enqueue(g, r[k - 1], g.nodes[k])
  BY QueueSteps
<1> DEFINE T == {k \in 0 .. n : Queued(g, k, r[k])}
<1>2. n \in Nat
  BY NodeShape
<1>3. 0 \in T
  <2>1. Queued(g, 0, <<>>)
    BY DEF Queued, IsInjective, ToSet
  <2> QED
    BY <1>1, <1>2, <2>1
<1>4. ASSUME NEW k \in 0 .. n - 1, k \in T PROVE k + 1 \in T
  <2> HIDE DEF n
  <2>1. k + 1 \in 1 .. n /\ (k + 1) - 1 = k /\ k \in 0 .. n /\ k + 1 \in 0 .. n
    BY <1>2
  <2>2. r[(k + 1) - 1] = r[k] /\ r[k] \in Seq(KeysOf(g)) /\ Queued(g, (k + 1) - 1, r[k])
    BY <1>1, <1>4, <2>1
  <2>3. r[k + 1] = Enqueue(g, r[k], g.nodes[k + 1])
    BY <1>1, <2>1, <2>2
  <2>4. Queued(g, k + 1, Enqueue(g, r[k], g.nodes[k + 1]))
    BY <2>1, <2>2, EnqueueStep DEF n
  <2> QED
    BY <2>1, <2>3, <2>4
<1>5. Queued(g, n, Start(g).queue)
  <2>1. \A k \in 0 .. n : k \in T
    <3> HIDE DEF T, n
    <3> QED
      BY <1>2, <1>3, <1>4, UpTo
  <2>2. n \in T
    <3> HIDE DEF T, n
    <3> QED
      BY <1>2, <2>1
  <2> QED
    BY <1>1, <2>2
<1>6. \A k \in KeysOf(g) : \E i \in 1 .. n : g.nodes[i].key = k
  BY NodeShape
<1> QED
  BY <1>5, <1>6 DEF Queued

\* Kahn starts with its invariant, if keys are unique: otherwise a key would be
\* queued twice.
LEMMA StartInv ==
    ASSUME NEW g, IsGraph(g), UniqueKeys(g)
    PROVE  KahnInv(g, Start(g))
<1>1. Start(g).visited = <<>> /\ Start(g).left = [k \in KeysOf(g) |-> InDegreeOf(g, k)]
  BY DEF Start
<1>2. ToSet(Start(g).visited) = {} /\ IsInjective(Start(g).visited) /\ Ordered(g, Start(g).visited)
  BY <1>1 DEF ToSet, IsInjective, Ordered
<1>3. ASSUME NEW k \in KeysOf(g) PROVE InDegreeOf(g, k) = Cardinality(Unmet(g, {}, k))
  <2>1. {i \in DOMAIN g.edges : g.edges[i][2] = k} = Unmet(g, {}, k)
    BY DEF Unmet
  <2> QED
    BY <2>1 DEF InDegreeOf
<1> QED
  BY <1>1, <1>2, <1>3, StartQueue DEF KahnInv

\* Kahn ends with its invariant and nothing queued, within two visits per node.
LEMMA KahnResult ==
    ASSUME NEW g, IsGraph(g), SimpleEdges(g)
    PROVE  /\ Kahn(g) \in States(g)
           /\ UniqueKeys(g) /\ Len(g.nodes) > 0 => KahnInv(g, Kahn(g)) /\ Kahn(g).queue = <<>>
<1> DEFINE n == Len(g.nodes)
           rounds == [i \in 1 .. 2 * n |-> i]
<1>1. n \in Nat /\ 2 * n \in Nat /\ Len(rounds) = 2 * n
  BY NodeShape
<1>2. PICK r \in [0 .. 2 * n -> States(g)] :
              /\ r[0] = Start(g) /\ r[2 * n] = Kahn(g)
              /\ \A k \in 1 .. 2 * n : r[k] = Visit(g, r[k - 1])
  <2>1. \E r \in [0 .. Len(rounds) -> States(g)] :
              /\ r[0] = Start(g) /\ r[Len(rounds)] = Kahn(g)
              /\ \A k \in 1 .. Len(rounds) : r[k] = Visit(g, r[k - 1])
    BY KahnSteps
  <2> QED
    BY <1>1, <2>1
<1> HIDE DEF n
<1>3. Kahn(g) \in States(g)
  BY <1>1, <1>2
<1>4. ASSUME UniqueKeys(g), Len(g.nodes) > 0
      PROVE  KahnInv(g, Kahn(g)) /\ Kahn(g).queue = <<>>
  <2> DEFINE T == {k \in 0 .. 2 * n :
                     KahnInv(g, r[k]) /\ (r[k].queue = <<>> \/ Len(r[k].visited) = k)}
  <2>1. 0 \in T
    <3>1. KahnInv(g, Start(g)) /\ Len(Start(g).visited) = 0
      BY <1>4, StartInv DEF Start
    <3> QED
      BY <1>1, <1>2, <3>1
  <2>2. ASSUME NEW k \in 0 .. 2 * n - 1, k \in T PROVE k + 1 \in T
    <3>1. k + 1 \in 1 .. 2 * n /\ (k + 1) - 1 = k /\ k \in 0 .. 2 * n /\ k + 1 \in 0 .. 2 * n
      BY <1>1
    <3>2. r[(k + 1) - 1] = r[k] /\ r[k] \in States(g)
      BY <1>2, <3>1
    <3>3. r[k + 1] = Visit(g, r[k])
      BY <1>2, <3>1, <3>2
    <3>4. CASE r[k].queue = <<>>
      <4>1. r[k + 1] = r[k]
        BY <3>3, <3>4 DEF Visit
      <4> QED
        BY <2>2, <3>1, <3>4, <4>1
    <3>5. CASE r[k].queue # <<>>
      <4>1. KahnInv(g, r[k]) /\ Len(r[k].visited) = k
        BY <2>2, <3>5
      <4>2. KahnInv(g, Visit(g, r[k])) /\ Len(Visit(g, r[k]).visited) = k + 1
        BY <3>2, <3>5, <4>1, VisitStep
      <4> QED
        BY <3>1, <3>3, <4>2
    <3> QED
      BY <3>4, <3>5
  <2>3. 2 * n \in T
    <3>1. \A k \in 0 .. 2 * n : k \in T
      <4> DEFINE m == 2 * n
      <4>1. m \in Nat /\ \A k \in 0 .. m - 1 : k \in T => k + 1 \in T
        BY <1>1, <2>2
      <4> HIDE DEF T, m
      <4>2. \A k \in 0 .. m : k \in T
        BY <2>1, <4>1, UpTo
      <4> QED
        BY <4>2 DEF m
    <3> HIDE DEF T
    <3> QED
      BY <1>1, <3>1
  <2>4. KahnInv(g, Kahn(g)) /\ (Kahn(g).queue = <<>> \/ Len(Kahn(g).visited) = 2 * n)
    BY <1>2, <2>3
  <2>5. Len(Kahn(g).visited) <= n
    <3>1. Kahn(g).visited \in Seq(KeysOf(g)) /\ IsInjective(Kahn(g).visited)
      BY <1>3, <2>4 DEF States, KahnInv
    <3>2. Len(Kahn(g).visited) <= Cardinality(KeysOf(g))
      BY <3>1, KeyCount, InjectiveLength
    <3>3. Len(Kahn(g).visited) \in Nat
      BY <3>1
    <3> QED
      BY <1>1, <3>2, <3>3, KeyCount DEF n
  <2> QED
    BY <1>1, <1>4, <2>4, <2>5 DEF n
<1> QED
  BY <1>3, <1>4

\* The node found under a key has that key.
LEMMA NodeAtKey ==
    ASSUME NEW g, IsGraph(g), NEW k \in KeysOf(g)
    PROVE  NodeAt(g, k) \in ToSet(g.nodes) /\ NodeAt(g, k).key = k
<1> DEFINE I == {i \in DOMAIN g.nodes : g.nodes[i].key = k}
           Top(i) == i \in DOMAIN g.nodes /\ g.nodes[i].key = k
                     /\ \A j \in DOMAIN g.nodes : g.nodes[j].key = k => j <= i
           top == CHOOSE i \in DOMAIN g.nodes :
                     /\ g.nodes[i].key = k
                     /\ \A j \in DOMAIN g.nodes : g.nodes[j].key = k => j <= i
<1>1. Len(g.nodes) \in Nat /\ I \in SUBSET (1 .. Len(g.nodes)) /\ I # {}
  BY NodeShape
<1>2. Max(I) \in I /\ \A i \in I : i <= Max(I)
  <2> HIDE DEF I
  <2> QED
    BY <1>1, MaxOf
<1>3. \E i \in DOMAIN g.nodes :
         /\ g.nodes[i].key = k
         /\ \A j \in DOMAIN g.nodes : g.nodes[j].key = k => j <= i
  BY <1>2
<1>4. top \in DOMAIN g.nodes /\ g.nodes[top].key = k
  BY <1>3
<1>5. NodeAt(g, k) = g.nodes[top]
  BY DEF NodeAt
<1> QED
  BY <1>4, <1>5 DEF ToSet

\* A graph that is accepted has simple edges, and Kahn visits as many keys as
\* there are nodes.
LEMMA ValidIsSimple ==
    ASSUME NEW g, IsGraph(g), ValidGraph(g)
    PROVE  /\ SimpleEdges(g) /\ Adjacent(g) = g /\ Len(g.nodes) > 0
           /\ Kahn(g).visited \in Seq(KeysOf(g)) /\ Len(Kahn(g).visited) = Len(g.nodes)
<1>1. SimpleEdges(g) /\ Adjacent(g) = g
  BY AcceptedIsSimple DEF ValidGraph
<1>2. Kahn(g) \in States(g)
  BY <1>1, KahnResult
<1> QED
  BY <1>1, <1>2 DEF ValidGraph, States

\* TopoSort lists nodes of a graph that is accepted, one for each key visited.
LEMMA SortedNodes ==
    ASSUME NEW g, IsGraph(g), ValidGraph(g)
    PROVE  /\ TopoSort(g) \in Seq(ToSet(g.nodes)) /\ Len(TopoSort(g)) = Len(g.nodes)
           /\ \A i \in 1 .. Len(g.nodes) :
                 /\ TopoSort(g)[i].key = Kahn(g).visited[i]
                 /\ TopoSort(g)[i] = NodeAt(g, TopoSort(g)[i].key)
                 /\ TopoSort(g)[i].key \in KeysOf(g) /\ TopoSort(g)[i].type \in NodeTypes
<1> DEFINE keys == Kahn(g).visited
           n == Len(g.nodes)
<1>1. keys \in Seq(KeysOf(g)) /\ Len(keys) = n
  BY ValidIsSimple
<1>2. n \in Nat /\ DOMAIN keys = 1 .. n /\ \A i \in 1 .. n : keys[i] \in KeysOf(g)
  BY <1>1
<1>3. TopoSort(g) = [i \in 1 .. n |-> NodeAt(g, keys[i])]
  BY <1>2 DEF TopoSort
<1> HIDE DEF keys
<1>4. \A i \in 1 .. n : NodeAt(g, keys[i]) \in ToSet(g.nodes) /\ NodeAt(g, keys[i]).key = keys[i]
  BY <1>2, NodeAtKey
<1>5. TopoSort(g) \in Seq(ToSet(g.nodes)) /\ Len(TopoSort(g)) = n
  BY <1>2, <1>3, <1>4
<1>6. \A x \in ToSet(g.nodes) : x.type \in NodeTypes
  BY NodeShape DEF ToSet
<1> QED
  BY <1>2, <1>3, <1>4, <1>5, <1>6 DEF keys

\* If keys are unique, TopoSort lists the nodes of a graph that is accepted each
\* once and after all that point to it.
LEMMA SortedByEdges ==
    ASSUME NEW g, IsGraph(g), UniqueKeys(g), ValidGraph(g)
    PROVE  /\ \A i, j \in 1 .. Len(g.nodes) : TopoSort(g)[i].key = TopoSort(g)[j].key => i = j
           /\ \A k \in KeysOf(g) : \E i \in 1 .. Len(g.nodes) : TopoSort(g)[i].key = k
           /\ \A j \in 1 .. Len(g.nodes), e \in ToSet(g.edges) :
                 e[2] = TopoSort(g)[j].key => \E h \in 1 .. j - 1 : TopoSort(g)[h].key = e[1]
<1> DEFINE keys == Kahn(g).visited
           n == Len(g.nodes)
<1>1. keys \in Seq(KeysOf(g)) /\ Len(keys) = n /\ DOMAIN keys = 1 .. n /\ n \in Nat
  BY ValidIsSimple
<1>2. IsInjective(keys) /\ Ordered(g, keys)
  BY ValidIsSimple, KahnResult DEF KahnInv
<1> HIDE DEF keys
<1>3. ToSet(keys) = KeysOf(g)
  BY <1>1, <1>2, KeyCount, InjectiveLength
<1>4. \A i \in 1 .. n : TopoSort(g)[i].key = keys[i]
  BY SortedNodes DEF keys
<1>5. \A k \in KeysOf(g) : \E i \in 1 .. n : keys[i] = k
  BY <1>1, <1>3 DEF ToSet
<1>6. ASSUME NEW j \in 1 .. n, NEW e \in ToSet(g.edges), e[2] = keys[j]
      PROVE  \E h \in 1 .. j - 1 : TopoSort(g)[h].key = e[1]
  <2>1. PICK i \in DOMAIN g.edges : g.edges[i] = e
    BY DEF ToSet
  <2>2. PICK h \in 1 .. j - 1 : keys[h] = e[1]
    BY <1>1, <1>2, <1>6, <2>1 DEF Ordered
  <2>3. h \in 1 .. n
    BY <1>1
  <2> QED
    BY <1>4, <2>2, <2>3
<1>7. \A i, j \in 1 .. n : TopoSort(g)[i].key = TopoSort(g)[j].key => i = j
  BY <1>1, <1>2, <1>4 DEF IsInjective
<1>8. \A k \in KeysOf(g) : \E i \in 1 .. n : TopoSort(g)[i].key = k
  BY <1>4, <1>5
<1>9. \A j \in 1 .. n, e \in ToSet(g.edges) :
         e[2] = TopoSort(g)[j].key => \E h \in 1 .. j - 1 : TopoSort(g)[h].key = e[1]
  BY <1>4, <1>6
<1> QED
  BY <1>7, <1>8, <1>9

\* What can be sorted has no cycle: in any set of keys the first in the order
\* depends on no other.
LEMMA ValidIsAcyclic ==
    ASSUME NEW g, IsGraph(g), UniqueKeys(g), ValidGraph(g)
    PROVE  Acyclic(AsDigraph(g))
<1> DEFINE G == AsDigraph(g)
           n == Len(g.nodes)
           sorted == TopoSort(g)
<1>1. G.node = KeysOf(g) /\ G.edge = ToSet(g.edges)
  BY DEF AsDigraph
<1> SUFFICES ASSUME NEW S \in SUBSET KeysOf(g), S # {}
             PROVE  \E k \in S : Predecessors(G, k) \cap S = {}
  BY <1>1 DEF Acyclic
<1> DEFINE T == {j \in 1 .. n : sorted[j].key \in S}
<1>2. T # {} /\ T \subseteq Nat
  <2>1. PICK k \in S : k \in KeysOf(g)
    OBVIOUS
  <2>2. PICK j \in 1 .. n : sorted[j].key = k
    BY <2>1, SortedByEdges
  <2> QED
    BY <2>1, <2>2
<1>3. PICK j \in T : \A i \in T : j <= i
  <2> HIDE DEF T
  <2> QED
    BY <1>2, LeastOf
<1>4. Predecessors(G, sorted[j].key) \cap S = {}
  <2> SUFFICES ASSUME NEW p \in Predecessors(G, sorted[j].key), p \in S PROVE FALSE
    OBVIOUS
  <2>1. PICK e \in ToSet(g.edges) : e[1] = p /\ e[2] = sorted[j].key
    <3>1. <<p, sorted[j].key>> \in ToSet(g.edges)
      BY <1>1 DEF Predecessors
    <3> QED
      BY <3>1
  <2>2. PICK h \in 1 .. j - 1 : sorted[h].key = p
    BY <2>1, SortedByEdges
  <2>3. h \in T /\ h < j
    BY <1>3, <2>2, NodeShape
  <2> QED
    BY <1>3, <2>3
<1> QED
  BY <1>3, <1>4

\* A graph with one trigger has a root.
LEMMA TriggerKey ==
    ASSUME NEW g, IsGraph(g), Cardinality(TriggersOf(g)) = 1
    PROVE  FirstTrigger(g) \in KeysOf(g) /\ Len(g.nodes) > 0
<1> DEFINE Least(i) == \A j \in TriggersOf(g) : i <= j
           first == CHOOSE i \in TriggersOf(g) : \A j \in TriggersOf(g) : i <= j
<1>1. Len(g.nodes) \in Nat /\ DOMAIN g.nodes = 1 .. Len(g.nodes)
  BY NodeShape
<1>2. TriggersOf(g) \subseteq 1 .. Len(g.nodes)
  BY <1>1 DEF TriggersOf
<1>3. TriggersOf(g) # {} /\ TriggersOf(g) \subseteq Nat
  <2>1. TriggersOf(g) = {} => Cardinality(TriggersOf(g)) = 0
    BY FS_EmptySet
  <2> QED
    BY <1>2, <2>1
<1>4. \E i \in TriggersOf(g) : \A j \in TriggersOf(g) : i <= j
  <2> DEFINE T == TriggersOf(g)
  <2> HIDE DEF T
  <2>1. T # {} /\ T \subseteq Nat => \E i \in T : \A j \in T : i <= j
    BY LeastOf
  <2> QED
    BY <1>3, <2>1 DEF T
<1>5. first \in 1 .. Len(g.nodes)
  BY <1>2, <1>4
<1>6. FirstTrigger(g) = g.nodes[first].key
  BY DEF FirstTrigger
<1> HIDE DEF first
<1> QED
  BY <1>1, <1>5, <1>6, NodeShape

\* What the search finds is in every set that contains its root and that no edge
\* leaves.
LEMMA SearchIsSound ==
    ASSUME NEW g, IsGraph(g), SimpleEdges(g), NEW root \in KeysOf(g), NEW S,
           root \in S, \A e \in ToSet(g.edges) : e[1] \in S => e[2] \in S
    PROVE  ReachableFrom(g, root) \subseteq S
<1> DEFINE n == Len(g.nodes)
<1>0. PICK r \in [0 .. n -> SUBSET KeysOf(g)] : Rounds(g, root, r)
  BY SpreadSteps
<1>1. /\ r \in [0 .. n -> SUBSET KeysOf(g)]
      /\ r[0] = {root} /\ r[n] = ReachableFrom(g, root)
      /\ \A k \in 1 .. n : r[k] = Spread(g, r[k - 1])
  BY <1>0 DEF Rounds
<1> DEFINE T == {k \in 0 .. n : r[k] \subseteq S}
<1>2. n \in Nat
  BY NodeShape
<1> HIDE DEF n
<1>3. 0 \in T
  BY <1>1, <1>2
<1>4. ASSUME NEW k \in 0 .. n - 1, k \in T PROVE k + 1 \in T
  <2>1. k + 1 \in 1 .. n /\ (k + 1) - 1 = k /\ k + 1 \in 0 .. n
    BY <1>2
  <2>2. r[k + 1] = Spread(g, r[k])
    <3>1. r[(k + 1) - 1] = r[k]
      BY <2>1
    <3> QED
      BY <1>1, <2>1, <3>1
  <2>3. Spread(g, r[k]) \subseteq S
    BY <1>4 DEF Spread
  <2> QED
    BY <2>1, <2>2, <2>3
<1>5. n \in T
  <2> HIDE DEF T
  <2>1. \A k \in 0 .. n : k \in T
    BY <1>2, <1>3, <1>4, UpTo
  <2> QED
    BY <1>2, <2>1
<1> QED
  BY <1>1, <1>5

\* As long as not all is found, a round finds more.
LEMMA SpreadGrows ==
    ASSUME NEW g, IsGraph(g), SimpleEdges(g), NEW root \in KeysOf(g),
           AllReached(AsDigraph(g), root), NEW seen \in SUBSET KeysOf(g), root \in seen
    PROVE  /\ root \in Spread(g, seen)
           /\ Spread(g, seen) = KeysOf(g) \/ Cardinality(Spread(g, seen)) >= Cardinality(seen) + 1
<1>1. Spread(g, seen) \in SUBSET KeysOf(g)
  BY SpreadType
<1>2. seen \subseteq Spread(g, seen)
  BY DEF Spread
<1>3. CASE seen = KeysOf(g)
  BY <1>1, <1>2, <1>3
<1>4. CASE seen # KeysOf(g)
  <2>1. PICK e \in ToSet(g.edges) : e[1] \in seen /\ e[2] \notin seen
    BY <1>4 DEF AllReached, AsDigraph
  <2>2. e[2] \in Spread(g, seen)
    BY <2>1 DEF Spread
  <2>3. IsFiniteSet(seen) /\ IsFiniteSet(Spread(g, seen))
    BY <1>1, KeyCount, FS_Subset
  <2>4. Cardinality(seen \cup {e[2]}) = Cardinality(seen) + 1 /\ IsFiniteSet(seen \cup {e[2]})
    BY <2>1, <2>3, FS_AddElement
  <2>5. Cardinality(seen \cup {e[2]}) <= Cardinality(Spread(g, seen))
    BY <1>2, <2>2, <2>3, FS_Subset
  <2>6. Cardinality(seen) \in Nat /\ Cardinality(Spread(g, seen)) \in Nat
    BY <2>3, FS_CardinalityType
  <2> QED
    BY <1>2, <2>4, <2>5, <2>6
<1> QED
  BY <1>3, <1>4

\* As many rounds as there are nodes are enough to find all that can be reached.
LEMMA SearchIsComplete ==
    ASSUME NEW g, IsGraph(g), SimpleEdges(g), NEW root \in KeysOf(g),
           AllReached(AsDigraph(g), root)
    PROVE  ReachableFrom(g, root) = KeysOf(g)
<1> DEFINE n == Len(g.nodes)
<1>0. PICK r \in [0 .. n -> SUBSET KeysOf(g)] : Rounds(g, root, r)
  BY SpreadSteps
<1>1. /\ r \in [0 .. n -> SUBSET KeysOf(g)]
      /\ r[0] = {root} /\ r[n] = ReachableFrom(g, root)
      /\ \A k \in 1 .. n : r[k] = Spread(g, r[k - 1])
  BY <1>0 DEF Rounds
<1> DEFINE T == {k \in 0 .. n : /\ root \in r[k]
                                /\ r[k] = KeysOf(g) \/ Cardinality(r[k]) >= k + 1}
<1>2. n \in Nat
  BY NodeShape
<1> HIDE DEF n
<1>3. 0 \in T
  <2>1. Cardinality({root}) = 1
    BY FS_Singleton
  <2>2. root \in r[0] /\ Cardinality(r[0]) >= 0 + 1 /\ 0 \in 0 .. n
    BY <1>1, <1>2, <2>1
  <2> QED
    BY <2>2
<1>4. ASSUME NEW k \in 0 .. n - 1, k \in T PROVE k + 1 \in T
  <2>1. k + 1 \in 1 .. n /\ (k + 1) - 1 = k /\ k + 1 \in 0 .. n /\ k \in 0 .. n
    BY <1>2
  <2>2. r[k + 1] = Spread(g, r[k]) /\ r[k] \in SUBSET KeysOf(g)
    <3>1. r[(k + 1) - 1] = r[k]
      BY <2>1
    <3> QED
      BY <1>1, <2>1, <3>1
  <2>3. root \in r[k]
    BY <1>4
  <2>4. /\ root \in r[k + 1]
        /\ r[k + 1] = KeysOf(g) \/ Cardinality(r[k + 1]) >= Cardinality(r[k]) + 1
    BY <2>2, <2>3, SpreadGrows
  <2>5. CASE r[k] = KeysOf(g)
    <3>1. Spread(g, r[k]) \in SUBSET KeysOf(g) /\ r[k] \subseteq Spread(g, r[k])
      BY <2>2, SpreadType DEF Spread
    <3> QED
      BY <2>1, <2>2, <2>4, <2>5, <3>1
  <2>6. CASE Cardinality(r[k]) >= k + 1
    <3>1. IsFiniteSet(r[k]) /\ IsFiniteSet(r[k + 1])
      BY <1>1, <2>1, <2>2, KeyCount, FS_Subset
    <3>2. Cardinality(r[k]) \in Nat /\ Cardinality(r[k + 1]) \in Nat
      BY <3>1, FS_CardinalityType
    <3>3. r[k + 1] = KeysOf(g) \/ Cardinality(r[k + 1]) >= (k + 1) + 1
      BY <2>4, <2>6, <3>2
    <3> QED
      BY <2>1, <2>4, <3>3
  <2> QED
    BY <1>4, <2>5, <2>6
<1>5. n \in T
  <2> HIDE DEF T
  <2>1. \A k \in 0 .. n : k \in T
    BY <1>2, <1>3, <1>4, UpTo
  <2> QED
    BY <1>2, <2>1
<1>6. ReachableFrom(g, root) \in SUBSET KeysOf(g)
  BY <1>1, <1>2
<1>7. CASE Cardinality(ReachableFrom(g, root)) >= n + 1
  <2>1. Cardinality(ReachableFrom(g, root)) <= Cardinality(KeysOf(g))
    BY <1>6, KeyCount, FS_Subset
  <2>2. Cardinality(ReachableFrom(g, root)) \in Nat
    BY <1>6, KeyCount, FS_Subset, FS_CardinalityType
  <2>3. Cardinality(KeysOf(g)) <= n /\ Cardinality(KeysOf(g)) \in Nat
    BY KeyCount DEF n
  <2> QED
    BY <1>2, <1>7, <2>1, <2>2, <2>3
<1> QED
  BY <1>1, <1>5, <1>7

\* What is accepted is a rooted DAG.
LEMMA ValidIsRooted ==
    ASSUME NEW g, IsGraph(g), UniqueKeys(g), ValidGraph(g)
    PROVE  RootedDag(g)
<1> DEFINE G == AsDigraph(g)
           root == FirstTrigger(g)
<1>1. /\ G = [node |-> KeysOf(g), edge |-> ToSet(g.edges)]
      /\ G.node = KeysOf(g) /\ G.edge = ToSet(g.edges)
  BY DEF AsDigraph
<1>2. SimpleEdges(g) /\ Adjacent(g) = g
  BY ValidIsSimple
<1>3. Cardinality(TriggersOf(g)) = 1 /\ root \in KeysOf(g)
  BY TriggerKey DEF ValidGraph
<1>4. IsDirectedGraph(G)
  <2>1. \A e \in ToSet(g.edges) : e[1] \in KeysOf(g) /\ e[2] \in KeysOf(g) /\ e = <<e[1], e[2]>>
    <3> TAKE e \in ToSet(g.edges)
    <3>1. PICK i \in DOMAIN g.edges : g.edges[i] = e
      BY DEF ToSet
    <3>2. e[1] \in KeysOf(g) /\ e[2] \in KeysOf(g)
      BY <1>2, <3>1 DEF SimpleEdges
    <3> QED
      BY <3>2 DEF IsGraph
  <2>2. ToSet(g.edges) \subseteq KeysOf(g) \X KeysOf(g)
    BY <2>1
  <2> QED
    BY <1>1, <2>2 DEF IsDirectedGraph
<1>5. Cardinality(G.edge) = Len(g.edges)
  <2>1. IsInjective(g.edges)
    BY <1>2 DEF SimpleEdges, IsInjective
  <2> QED
    BY <1>1, <2>1, EdgeShape, MembersOf
<1>6. Acyclic(G)
  BY ValidIsAcyclic
<1>7. AllReached(G, root)
  <2> SUFFICES ASSUME NEW S \in SUBSET KeysOf(g), S # KeysOf(g), root \in S,
                      \A e \in ToSet(g.edges) : e[1] \in S => e[2] \in S
               PROVE  FALSE
    BY <1>1 DEF AllReached
  <2>1. ReachableFrom(g, root) \subseteq S
    BY <1>2, <1>3, SearchIsSound
  <2>2. KeysOf(g) \subseteq ReachableFrom(g, root)
    BY <1>2 DEF ValidGraph
  <2> QED
    BY <2>1, <2>2
<1> QED
  BY <1>3, <1>4, <1>5, <1>6, <1>7 DEF RootedDag

\* The edges of a rooted DAG are simple.
LEMMA RootedIsSimple ==
    ASSUME NEW g, IsGraph(g), RootedDag(g)
    PROVE  SimpleEdges(g)
<1> DEFINE G == AsDigraph(g)
<1>1. G.node = KeysOf(g) /\ G.edge = ToSet(g.edges)
  BY DEF AsDigraph
<1>2. /\ G.edge \subseteq G.node \X G.node
      /\ Cardinality(G.edge) = Len(g.edges) /\ Acyclic(G)
  BY DEF RootedDag, IsDirectedGraph
<1> HIDE DEF G
<1>3. IsInjective(g.edges)
  BY <1>1, <1>2, EdgeShape, MembersOf
<1> SUFFICES ASSUME NEW i \in DOMAIN g.edges
             PROVE  /\ g.edges[i][1] \in KeysOf(g) /\ g.edges[i][2] \in KeysOf(g)
                    /\ g.edges[i][1] # g.edges[i][2]
  BY <1>3 DEF SimpleEdges, IsInjective
<1>4. g.edges[i] \in ToSet(g.edges) /\ g.edges[i] = <<g.edges[i][1], g.edges[i][2]>>
  BY EdgeShape
<1>5. g.edges[i][1] \in KeysOf(g) /\ g.edges[i][2] \in KeysOf(g)
  BY <1>1, <1>2, <1>4
<1>6. ASSUME g.edges[i][1] = g.edges[i][2] PROVE FALSE
  <2> DEFINE k == g.edges[i][1]
  <2>1. k \in G.node /\ <<k, k>> \in G.edge
    BY <1>1, <1>4, <1>5, <1>6
  <2> HIDE DEF k
  <2>2. {k} \in (SUBSET G.node) \ {{}}
    BY <2>1
  <2>3. Predecessors(G, k) \cap {k} = {}
    BY <1>2, <2>2 DEF Acyclic
  <2> QED
    BY <2>1, <2>3 DEF Predecessors
<1> QED
  BY <1>5, <1>6

\* A rooted DAG is accepted: keys that Kahn did not visit would feed each other.
LEMMA RootedIsValid ==
    ASSUME NEW g, IsGraph(g), UniqueKeys(g), RootedDag(g)
    PROVE  ValidGraph(g)
<1> DEFINE G == AsDigraph(g)
           st == Kahn(g)
           V == ToSet(st.visited)
<1>1. G.node = KeysOf(g) /\ G.edge = ToSet(g.edges)
  BY DEF AsDigraph
<1>2. SimpleEdges(g) /\ Adjacent(g) = g /\ Len(AcceptedEdges(g)) = Len(g.edges)
  BY RootedIsSimple, AcceptedIsSimple
<1>3. Cardinality(TriggersOf(g)) = 1 /\ Len(g.nodes) > 0 /\ FirstTrigger(g) \in KeysOf(g)
  BY TriggerKey DEF RootedDag
<1>4. st \in States(g) /\ KahnInv(g, st) /\ st.queue = <<>>
  BY <1>2, <1>3, KahnResult
<1>5. st.visited \in Seq(KeysOf(g)) /\ V \subseteq KeysOf(g)
  <2>1. st.visited \in Seq(KeysOf(g))
    BY <1>4 DEF States
  <2> HIDE DEF st
  <2> QED
    BY <2>1 DEF ToSet
<1>6. V = KeysOf(g)
  <2> SUFFICES ASSUME KeysOf(g) \ V # {} PROVE FALSE
    BY <1>5
  <2>1. KeysOf(g) \ V \in (SUBSET G.node) \ {{}}
    BY <1>1
  <2>2. PICK k \in KeysOf(g) \ V : Predecessors(G, k) \cap (KeysOf(g) \ V) = {}
    BY <2>1 DEF RootedDag, Acyclic
  <2>3. Unmet(g, V, k) = {}
    <3> SUFFICES ASSUME NEW i \in DOMAIN g.edges, g.edges[i][2] = k, g.edges[i][1] \notin V
                 PROVE  FALSE
      BY DEF Unmet
    <3>1. <<g.edges[i][1], k>> \in G.edge /\ g.edges[i][1] \in KeysOf(g)
      BY <1>1, <1>2, EdgeShape DEF SimpleEdges
    <3>2. g.edges[i][1] \in Predecessors(G, k)
      BY <1>1, <3>1 DEF Predecessors
    <3> QED
      BY <2>2, <3>1, <3>2
  <2>4. st.left[k] = 0
    BY <1>4, <2>3, FS_EmptySet DEF KahnInv
  <2>5. ToSet(st.queue) = {}
    BY <1>4 DEF ToSet
  <2> QED
    BY <1>4, <2>2, <2>4, <2>5 DEF KahnInv
<1>7. Len(st.visited) = Len(g.nodes)
  <2>1. IsInjective(st.visited)
    BY <1>4 DEF KahnInv
  <2>2. Cardinality(V) = Len(st.visited)
    BY <1>5, <2>1, MembersOf
  <2> QED
    BY <1>6, <2>2, KeyCount
<1>8. KeysOf(g) \subseteq ReachableFrom(g, FirstTrigger(g))
  BY <1>2, <1>3, SearchIsComplete DEF RootedDag
<1> QED
  BY <1>2, <1>3, <1>7, <1>8 DEF ValidGraph

\* What validateGraph accepts under unique keys are exactly the rooted DAGs
\* (schema.ts:6): Kahn's count and the search find what they are meant to find.
THEOREM AcceptsRootedDags ==
    ASSUME NEW g, IsGraph(g), UniqueKeys(g)
    PROVE  ValidGraph(g) <=> RootedDag(g)
BY ValidIsRooted, RootedIsValid

-----------------------------------------------------------------------------
(***************************************************************************)
(* The walk (lib/dag/runner.ts, lib/execute.ts): its invariant and what it *)
(* tells, whatever the keys are.                                           *)
(***************************************************************************)
\* The step records.
StepRecords == [key : KeysOf(graph), status : StepStatus, attempt : 1 .. MaxAttempts]
\* The requests.
Requests == [key : KeysOf(graph), attempt : 1 .. MaxAttempts,
             saw : SUBSET KeysOf(graph), answer : Answers]

\* What the variables are.
Typed ==
    /\ graph \in StoredGraphs
    /\ phase \in {"parse", "walk", "settle", "done", "thrown"}
    /\ next \in Nat
    /\ attempt \in 1 .. MaxAttempts
    /\ broken \in BOOLEAN
    /\ status \in {"succeeded", "filtered", "failed", "invalid"}
    /\ outputs \subseteq KeysOf(graph)
    /\ steps \in Seq(StepRecords)
    /\ sent \in Seq(Requests)

\* The order is topoSort's once the graph has passed the schema.
Sorted ==
    \/ phase = "parse" /\ status = "succeeded" /\ order = <<>>
    \/ /\ phase \in {"settle", "done"} /\ status = "invalid"
       /\ graph \notin Accepted /\ order = <<>>
    \/ /\ phase # "parse" /\ status # "invalid"
       /\ graph \in Accepted /\ order = TopoSort(graph)

\* The step records are those of the nodes passed.
Placed ==
    /\ Len(steps) = next - 1 /\ next - 1 <= Len(order)
    /\ \A i \in 1 .. next - 1 : steps[i].key = order[i].key
    /\ phase \in {"settle", "done"} => next = Len(order) + 1

\* What broke the pipeline, if anything did, is at b.
BrokeAt(b) ==
    /\ steps[b].status = "failed"
    /\ \A i \in 1 .. next - 1 : /\ i < b => steps[i].status = "succeeded"
                                /\ i > b => steps[i].status = "skipped"
    /\ \/ status = "filtered" /\ order[b].type = "filter"
       \/ status = "failed" /\ order[b].type = "action"

\* Either everything so far succeeded, or something has broken the pipeline.
Story ==
    \/ broken /\ \E b \in 1 .. next - 1 : BrokeAt(b)
    \/ /\ ~broken /\ status \in {"succeeded", "invalid"}
       /\ \A i \in 1 .. next - 1 : steps[i].status = "succeeded"

\* What succeeded has put its output in place.
Produced ==
    \A i \in 1 .. next - 1 :
        steps[i].status = "succeeded" /\ order[i].type \in {"transform", "action"} =>
            order[i].key \in outputs

\* There is a dead letter when the execution is over, if one is due.
Settled == deadLetter = IF phase = "done" THEN DeadLetterOf ELSE {}

\* The invariant of the walk.
WalkInv == Typed /\ Sorted /\ Placed /\ Story /\ Produced /\ Settled

\* Nothing was asked about a node ahead, and about the next one only if it is
\* asked about again.
Asked ==
    /\ phase = "parse" => sent = <<>>
    /\ \A i \in 1 .. Len(sent), j \in next .. Len(order) :
          sent[i].key = order[j].key => j = next /\ attempt > 1
    /\ attempt > 1 =>
          /\ AtNode /\ ~broken /\ Node.type = "action"
          /\ sent # <<>>
          /\ sent[Len(sent)].key = Node.key
          /\ sent[Len(sent)].attempt = attempt - 1
          /\ sent[Len(sent)].answer = "retryable"

\* The order is made of the nodes of the graph, each the one that is found under
\* its key.
LEMMA OrderFacts ==
    ASSUME Typed, Sorted
    PROVE  /\ IsGraph(graph) /\ order \in Seq(ToSet(graph.nodes))
           /\ Len(order) \in Nat /\ Len(order) <= Len(graph.nodes)
           /\ \A i \in 1 .. Len(order) :
                 /\ order[i].key \in KeysOf(graph) /\ order[i].type \in NodeTypes
                 /\ order[i] = NodeAt(graph, order[i].key)
<1>1. IsGraph(graph)
  BY GraphAssumption DEF Typed
<1>2. CASE order = <<>>
  BY <1>1, <1>2, NodeShape
<1>3. CASE graph \in Accepted /\ order = TopoSort(graph)
  <2>1. ValidGraph(graph)
    BY <1>3 DEF Accepted
  <2> QED
    BY <1>1, <1>3, <2>1, SortedNodes, NodeShape
<1> QED
  BY <1>2, <1>3 DEF Sorted

\* What an emitted record adds.
LEMMA EmittedRecord ==
    ASSUME WalkInv, AtNode, NEW s \in StepStatus, NEW n \in 1 .. MaxAttempts,
           Emit(s, n), UNCHANGED <<graph, order>>
    PROVE  /\ steps' \in Seq(StepRecords) /\ steps' \in Seq(StepRecords')
           /\ Len(steps') = next /\ next' = next + 1 /\ next \in Nat \ {0} /\ next <= Len(order)
           /\ attempt' = 1
           /\ steps'[next] = [key |-> Node.key, status |-> s, attempt |-> n]
           /\ \A i \in 1 .. next - 1 : steps'[i] = steps[i]
           /\ \A i \in 1 .. next : i = next \/ i \in 1 .. next - 1
           /\ Node.key \in KeysOf(graph) /\ Node.type \in NodeTypes
<1> DEFINE rec == [key |-> Node.key, status |-> s, attempt |-> n]
<1>1. /\ steps \in Seq(StepRecords) /\ Len(steps) = next - 1
      /\ next \in Nat \ {0} /\ next <= Len(order)
  <2>1. Len(steps) \in Nat /\ next \in Nat /\ Len(steps) = next - 1
    BY DEF WalkInv, Typed, Placed
  <2> QED
    BY <2>1 DEF WalkInv, Typed, AtNode
<1>2. Node.key \in KeysOf(graph) /\ Node.type \in NodeTypes
  BY <1>1, OrderFacts DEF WalkInv, Node
<1>3. rec \in StepRecords
  BY <1>2 DEF StepRecords
<1>4. steps' = Append(steps, rec) /\ next' = next + 1 /\ attempt' = 1
  BY DEF Emit
<1> HIDE DEF rec
<1>5. steps' \in Seq(StepRecords) /\ Len(steps') = next /\ steps'[next] = rec
      /\ \A i \in 1 .. next - 1 : steps'[i] = steps[i]
  BY <1>1, <1>3, <1>4
<1>6. StepRecords' = StepRecords
  BY DEF StepRecords
<1>7. \A i \in 1 .. next : i = next \/ i \in 1 .. next - 1
  BY <1>1
<1> QED
  BY <1>1, <1>2, <1>4, <1>5, <1>6, <1>7 DEF rec

\* What a step record may say, and what becomes of the pipeline.
Tells(s) ==
    \/ ~broken /\ s = "succeeded" /\ UNCHANGED <<broken, status>>
    \/ /\ ~broken /\ s = "failed" /\ broken' = TRUE
       /\ \/ status' = "filtered" /\ Node.type = "filter"
          \/ status' = "failed" /\ Node.type = "action"
    \/ broken /\ s = "skipped" /\ UNCHANGED <<broken, status>>

\* A record that says what became of the pipeline goes on with the story.
LEMMA EmitKeepsStory ==
    ASSUME WalkInv, AtNode, NEW s \in StepStatus, NEW n \in 1 .. MaxAttempts,
           Emit(s, n), Tells(s), UNCHANGED <<graph, order>>
    PROVE  Story'
<1>1. /\ next' - 1 = next /\ steps'[next].status = s /\ next \in Nat \ {0}
      /\ \A i \in 1 .. next - 1 : steps'[i] = steps[i]
      /\ \A i \in 1 .. next : i = next \/ i \in 1 .. next - 1
      /\ \A i \in 1 .. next - 1 : i \in 1 .. next /\ i < next
  <2>1. /\ next' = next + 1 /\ next \in Nat \ {0}
        /\ steps'[next] = [key |-> Node.key, status |-> s, attempt |-> n]
        /\ \A i \in 1 .. next - 1 : steps'[i] = steps[i]
        /\ \A i \in 1 .. next : i = next \/ i \in 1 .. next - 1
    BY EmittedRecord
  <2>2. steps'[next].status = s
    BY <2>1
  <2>3. \A i \in 1 .. next - 1 : i \in 1 .. next /\ i < next
    BY <2>1
  <2> QED
    BY <2>1, <2>2, <2>3
<1>2. CASE ~broken /\ s = "succeeded" /\ UNCHANGED <<broken, status>>
  <2>1. \A i \in 1 .. next' - 1 : steps'[i].status = "succeeded"
    BY <1>1, <1>2 DEF WalkInv, Story
  <2> QED
    BY <1>2, <2>1 DEF WalkInv, Story
<1>3. CASE /\ ~broken /\ s = "failed" /\ broken' = TRUE
           /\ \/ status' = "filtered" /\ Node.type = "filter"
              \/ status' = "failed" /\ Node.type = "action"
  <2>1. \A i \in 1 .. next - 1 : steps'[i].status = "succeeded"
    BY <1>1, <1>3 DEF WalkInv, Story
  <2>2. PICK b \in 1 .. next : b = next
    BY <1>1
  <2>3. BrokeAt(b)'
    BY <1>1, <1>3, <2>1, <2>2 DEF BrokeAt, Node
  <2>4. b \in 1 .. next' - 1
    BY <1>1, <2>2
  <2> QED
    BY <1>3, <2>3, <2>4 DEF Story
<1>4. CASE broken /\ s = "skipped" /\ UNCHANGED <<broken, status>>
  <2>1. PICK b \in 1 .. next - 1 : BrokeAt(b)
    BY <1>4 DEF WalkInv, Story
  <2>2. BrokeAt(b)'
    BY <1>1, <1>4, <2>1 DEF BrokeAt
  <2> QED
    BY <1>1, <1>4, <2>2 DEF Story
<1> QED
  BY <1>2, <1>3, <1>4 DEF Tells

\* A step that emits a record keeps the walk's invariant, whatever kind of node it is at.
LEMMA EmitKeeps ==
    ASSUME WalkInv, AtNode, NEW s \in StepStatus, NEW n \in 1 .. MaxAttempts,
           Emit(s, n), Tells(s), UNCHANGED <<graph, phase, order, deadLetter>>,
           sent' \in Seq(Requests),
           outputs \subseteq outputs', outputs' \subseteq KeysOf(graph),
           s = "succeeded" /\ Node.type \in {"transform", "action"} => Node.key \in outputs'
    PROVE  WalkInv'
<1>1. /\ steps' \in Seq(StepRecords') /\ Len(steps') = next /\ next' = next + 1
      /\ next \in Nat \ {0} /\ next <= Len(order) /\ attempt' = 1
      /\ steps'[next] = [key |-> Node.key, status |-> s, attempt |-> n]
      /\ \A i \in 1 .. next - 1 : steps'[i] = steps[i]
      /\ \A i \in 1 .. next : i = next \/ i \in 1 .. next - 1
  BY EmittedRecord
<1>2. steps'[next].key = Node.key /\ steps'[next].status = s /\ next' - 1 = next
  BY <1>1
<1>3. phase = "walk" /\ phase' = "walk"
  BY DEF AtNode
<1>4. Typed'
  <2>1. status' \in {"succeeded", "filtered", "failed", "invalid"} /\ broken' \in BOOLEAN
    BY DEF Tells, WalkInv, Typed
  <2>2. Requests' = Requests
    BY DEF Requests
  <2>3. attempt' \in 1 .. MaxAttempts /\ next' \in Nat
    BY <1>1, AttemptsAssumption
  <2> QED
    BY <1>1, <1>3, <2>1, <2>2, <2>3 DEF WalkInv, Typed
<1>5. Sorted'
  <2>1. status # "invalid" /\ graph \in Accepted /\ order = TopoSort(graph)
    BY <1>3 DEF WalkInv, Sorted
  <2>2. status' # "invalid"
    BY <2>1 DEF Tells
  <2> QED
    BY <1>3, <2>1, <2>2 DEF Sorted, Accepted
<1>6. Placed'
  <2>1. \A i \in 1 .. next : steps'[i].key = order'[i].key
    BY <1>1, <1>2 DEF WalkInv, Placed, Node
  <2> QED
    BY <1>1, <1>2, <1>3, <2>1 DEF Placed
<1>7. Story'
  BY EmitKeepsStory
<1>8. Produced'
  <2> SUFFICES ASSUME NEW i \in 1 .. next, steps'[i].status = "succeeded",
                      order[i].type \in {"transform", "action"}
               PROVE  order[i].key \in outputs'
    BY <1>2 DEF Produced
  <2>1. CASE i = next
    BY <1>2, <2>1 DEF Node
  <2>2. CASE i \in 1 .. next - 1
    BY <1>1, <2>2 DEF WalkInv, Produced
  <2> QED
    BY <1>1, <2>1, <2>2
<1>9. Settled'
  BY <1>3 DEF WalkInv, Settled
<1> QED
  BY <1>4, <1>5, <1>6, <1>7, <1>8, <1>9 DEF WalkInv

\* The walk starts with its invariant.
LEMMA WalkStart == Init => WalkInv
<1> SUFFICES ASSUME Init PROVE WalkInv
  OBVIOUS
<1>1. Typed
  <2>1. 1 \in 1 .. MaxAttempts
    BY AttemptsAssumption
  <2>2. <<>> \in Seq(StepRecords) /\ <<>> \in Seq(Requests)
    OBVIOUS
  <2> QED
    BY <2>1, <2>2 DEF Init, Typed
<1>2. Sorted /\ Settled
  BY DEF Init, Sorted, Settled
<1>3. Placed /\ Story /\ Produced
  BY DEF Init, Placed, Story, Produced
<1> QED
  BY <1>1, <1>2, <1>3 DEF WalkInv

\* A request is about a node of the graph.
LEMMA SentType ==
    ASSUME WalkInv, AtNode, NEW answer \in Answers
    PROVE  Append(sent, [key |-> Node.key, attempt |-> attempt, saw |-> outputs, answer |-> answer])
              \in Seq(Requests)
<1> DEFINE rec == [key |-> Node.key, attempt |-> attempt, saw |-> outputs, answer |-> answer]
<1>1. Node.key \in KeysOf(graph)
  <2>1. next \in 1 .. Len(order)
    <3>1. next \in Nat /\ Len(steps) = next - 1 /\ Len(steps) \in Nat
      BY DEF WalkInv, Typed, Placed
    <3> QED
      BY <3>1, OrderFacts DEF AtNode, WalkInv
  <2> QED
    BY <2>1, OrderFacts DEF WalkInv, Node
<1>2. rec \in Requests
  BY <1>1 DEF Requests, WalkInv, Typed
<1> HIDE DEF rec
<1>3. Append(sent, rec) \in Seq(Requests)
  BY <1>2 DEF WalkInv, Typed
<1> QED
  BY <1>3 DEF rec

\* Every step keeps the walk's invariant, whatever the keys are.
LEMMA WalkStep == WalkInv /\ [Next]_vars => WalkInv'
<1> SUFFICES ASSUME WalkInv, [Next]_vars PROVE WalkInv'
  OBVIOUS
<1>0. 1 \in 1 .. MaxAttempts /\ attempt \in 1 .. MaxAttempts /\ MaxAttempts \in Nat
  BY AttemptsAssumption DEF WalkInv, Typed
<1>1. CASE Parse
  <2>1. phase = "parse" /\ status = "succeeded" /\ order = <<>>
    BY <1>1 DEF Parse, WalkInv, Sorted
  <2>2. next = 1 /\ steps \in Seq(StepRecords) /\ Len(steps) = 0
    BY <2>1 DEF WalkInv, Placed, Typed
  <2>3. Sorted' /\ phase' \in {"walk", "settle"} /\ status' \in {"succeeded", "invalid"}
        /\ (phase' = "settle" => Len(order') = 0) 
    BY <1>1, <2>1 DEF Parse, Sorted, Accepted
  <2>4. Typed'
    <3>1. StepRecords' = StepRecords /\ Requests' = Requests
      BY <1>1 DEF Parse, StepRecords, Requests
    <3> QED
      BY <1>1, <2>3, <3>1 DEF Parse, WalkInv, Typed
  <2>5. Len(order') \in Nat
    <3>1. CASE order' = order
      BY <2>1, <3>1
    <3>2. CASE graph \in Accepted /\ order' = TopoSort(graph)
      BY <3>2, SortedNodes, NodeShape, GraphAssumption DEF Accepted
    <3> QED
      BY <1>1, <3>1, <3>2 DEF Parse
  <2>6. Placed'
    BY <1>1, <2>2, <2>3, <2>5 DEF Parse, Placed
  <2>7. Story' /\ Produced'
    <3>1. ~broken
      BY <2>2 DEF WalkInv, Story
    <3> QED
      BY <1>1, <2>2, <2>3, <3>1 DEF Parse, Story, Produced
  <2>8. Settled'
    BY <1>1, <2>1, <2>3 DEF Parse, WalkInv, Settled
  <2> QED
    BY <2>3, <2>4, <2>6, <2>7, <2>8 DEF WalkInv
<1>2. CASE Skip
  <2>1. Tells("skipped") /\ AtNode /\ Emit("skipped", 1)
    BY <1>2 DEF Skip, Tells
  <2>2. sent' \in Seq(Requests) /\ outputs' = outputs /\ outputs \subseteq KeysOf(graph)
    BY <1>2 DEF Skip, WalkInv, Typed
  <2> QED
    BY <1>0, <1>2, <2>1, <2>2, EmitKeeps DEF Skip, StepStatus
<1>3. CASE Trigger
  <2>1. Tells("succeeded") /\ AtNode /\ Emit("succeeded", 1) /\ Node.type = "trigger"
    BY <1>3 DEF Trigger, Tells
  <2>2. sent' \in Seq(Requests) /\ outputs' = outputs /\ outputs \subseteq KeysOf(graph)
    BY <1>3 DEF Trigger, WalkInv, Typed
  <2> QED
    BY <1>0, <1>3, <2>1, <2>2, EmitKeeps DEF Trigger, StepStatus
<1>4. ASSUME NEW passed \in BOOLEAN, Filter(passed) PROVE WalkInv'
  <2>1. AtNode /\ Node.type = "filter"
    BY <1>4 DEF Filter
  <2>2. sent' \in Seq(Requests) /\ outputs' = outputs /\ outputs \subseteq KeysOf(graph)
    BY <1>4 DEF Filter, WalkInv, Typed
  <2>3. CASE passed
    <3>1. Tells("succeeded") /\ Emit("succeeded", 1)
      BY <1>4, <2>3 DEF Filter, Tells
    <3> QED
      BY <1>0, <1>4, <2>1, <2>2, <3>1, EmitKeeps DEF Filter, StepStatus
  <2>4. CASE ~passed
    <3>1. Tells("failed") /\ Emit("failed", 1)
      BY <1>4, <2>4 DEF Filter, Tells, Break
    <3> QED
      BY <1>0, <1>4, <2>1, <2>2, <3>1, EmitKeeps DEF Filter, StepStatus
  <2> QED
    BY <2>3, <2>4
<1>5. CASE Transform
  <2>1. Tells("succeeded") /\ AtNode /\ Emit("succeeded", 1)
    BY <1>5 DEF Transform, Tells
  <2>2. /\ sent' \in Seq(Requests) /\ outputs' = outputs \cup {Node.key}
        /\ outputs \subseteq KeysOf(graph)
    BY <1>5 DEF Transform, WalkInv, Typed
  <2>3. Node.key \in KeysOf(graph)
    BY <1>0, <1>5, <2>1, EmittedRecord DEF Transform, StepStatus
  <2> QED
    BY <1>0, <1>5, <2>1, <2>2, <2>3, EmitKeeps DEF Transform, StepStatus
<1>6. ASSUME NEW answer \in Answers, Dispatch(answer) PROVE WalkInv'
  <2>1. AtNode /\ ~broken /\ Node.type = "action" /\ UNCHANGED <<graph, phase, order, deadLetter>>
    BY <1>6 DEF Dispatch
  <2>2. sent' \in Seq(Requests) /\ outputs \subseteq KeysOf(graph)
    BY <1>6, <2>1, SentType DEF Dispatch, WalkInv, Typed
  <2>3. CASE /\ answer = "ok" /\ outputs' = outputs \cup {Node.key}
             /\ Emit("succeeded", attempt) /\ UNCHANGED <<broken, status>>
    <3>1. Node.key \in KeysOf(graph)
      BY <1>0, <2>1, <2>3, EmittedRecord DEF StepStatus
    <3>2. Tells("succeeded")
      BY <2>1, <2>3 DEF Tells
    <3> QED
      BY <1>0, <2>1, <2>2, <2>3, <3>1, <3>2, EmitKeeps DEF StepStatus
  <2>4. CASE /\ GivesUp(attempt, answer) /\ Emit("failed", attempt) /\ Break("failed")
             /\ UNCHANGED outputs
    <3>1. Tells("failed")
      BY <2>1, <2>4 DEF Tells, Break
    <3> QED
      BY <1>0, <2>1, <2>2, <2>4, <3>1, EmitKeeps DEF StepStatus
  <2>5. CASE /\ answer # "ok" /\ ~GivesUp(attempt, answer) /\ attempt' = attempt + 1
             /\ UNCHANGED <<next, broken, status, outputs, steps>>
    <3>1. attempt + 1 \in 1 .. MaxAttempts
      BY <1>0, <1>6, <2>5 DEF GivesUp, IsLast, Answers
    <3>2. Typed'
      <4>1. StepRecords' = StepRecords /\ Requests' = Requests
        BY <2>1 DEF StepRecords, Requests
      <4> QED
        BY <2>1, <2>2, <2>5, <3>1, <4>1 DEF WalkInv, Typed
    <3>3. Sorted' /\ Placed' /\ Story' /\ Produced' /\ Settled'
      <4>1. phase = "walk"
        BY <2>1 DEF AtNode
      <4> QED
        BY <2>1, <2>5, <4>1 DEF WalkInv, Sorted, Accepted, Placed, Story, BrokeAt, Produced, Settled
    <3> QED
      BY <3>2, <3>3 DEF WalkInv
  <2> QED
    BY <1>6, <2>3, <2>4, <2>5 DEF Dispatch
<1>7. CASE Return
  <2>1. Typed'
    <3>1. StepRecords' = StepRecords /\ Requests' = Requests
      BY <1>7 DEF Return, StepRecords, Requests
    <3> QED
      BY <1>7, <3>1 DEF Return, WalkInv, Typed
  <2>2. Sorted'
    BY <1>7 DEF Return, WalkInv, Sorted, Accepted
  <2>3. Placed'
    <3>1. next \in Nat /\ next - 1 <= Len(order) /\ next > Len(order) /\ Len(order) \in Nat
      BY <1>7, OrderFacts DEF Return, WalkInv, Typed, Placed
    <3>2. next = Len(order) + 1
      BY <3>1
    <3> QED
      BY <1>7, <3>2 DEF Return, WalkInv, Placed
  <2>4. Story' /\ Produced' /\ Settled'
    BY <1>7 DEF Return, WalkInv, Story, BrokeAt, Produced, Settled
  <2> QED
    BY <2>1, <2>2, <2>3, <2>4 DEF WalkInv
<1>8. CASE Settle
  <2>1. Typed'
    <3>1. StepRecords' = StepRecords /\ Requests' = Requests
      BY <1>8 DEF Settle, StepRecords, Requests
    <3> QED
      BY <1>8, <3>1 DEF Settle, WalkInv, Typed
  <2>2. Sorted' /\ Placed'
    BY <1>8 DEF Settle, WalkInv, Sorted, Accepted, Placed
  <2>3. Story' /\ Produced'
    BY <1>8 DEF Settle, WalkInv, Story, BrokeAt, Produced
  <2>4. Settled'
    <3>1. DeadLetterOf' = DeadLetterOf
      BY <1>8 DEF Settle, DeadLetterOf
    <3> QED
      BY <1>8, <3>1 DEF Settle, Settled
  <2> QED
    BY <2>1, <2>2, <2>3, <2>4 DEF WalkInv
<1>10. CASE Throw
  <2>1. StepRecords' = StepRecords /\ Requests' = Requests
    BY <1>10 DEF Throw, StepRecords, Requests
  <2>2. phase = "walk" /\ phase' = "thrown"
        /\ UNCHANGED <<graph, order, next, attempt, broken, status, outputs, steps, deadLetter, sent>>
    BY <1>10 DEF Throw, AtNode
  <2>3. Typed' /\ Settled'
    BY <2>1, <2>2 DEF WalkInv, Typed, Settled
  <2>4. Sorted' /\ Placed'
    BY <2>2 DEF WalkInv, Sorted, Accepted, Placed
  <2> QED
    BY <2>2, <2>3, <2>4 DEF WalkInv, Story, BrokeAt, Produced
<1>9. CASE UNCHANGED vars
  <2>1. StepRecords' = StepRecords /\ Requests' = Requests /\ DeadLetterOf' = DeadLetterOf
    BY <1>9 DEF vars, StepRecords, Requests, DeadLetterOf
  <2>2. Typed' /\ Settled'
    BY <1>9, <2>1 DEF vars, WalkInv, Typed, Settled
  <2> QED
    BY <1>9, <2>2 DEF vars, WalkInv, Sorted, Accepted, Placed, Story, BrokeAt, Produced
<1> QED
  BY <1>1, <1>2, <1>3, <1>4, <1>5, <1>6, <1>7, <1>8, <1>9, <1>10 DEF Next, Walk, Over

\* The loop stands at a node or behind the last one.
LEMMA NextRange ==
    ASSUME WalkInv
    PROVE  /\ next \in Nat \ {0} /\ Len(order) \in Nat /\ next <= Len(order) + 1
           /\ DOMAIN steps = 1 .. next - 1 /\ DOMAIN order = 1 .. Len(order)
<1>1. Len(steps) \in Nat /\ next \in Nat /\ Len(steps) = next - 1 /\ DOMAIN steps = 1 .. Len(steps)
  BY DEF WalkInv, Typed, Placed
<1>2. Len(order) \in Nat /\ next - 1 <= Len(order) /\ DOMAIN order = 1 .. Len(order)
  BY OrderFacts DEF WalkInv, Placed
<1> QED
  BY <1>1, <1>2

\* One letter or none.
LEMMA OneLetter ==
    ASSUME NEW x
    PROVE  Cardinality({x}) <= 1 /\ Cardinality({}) <= 1
<1>1. Cardinality({x}) = 1 /\ Cardinality({}) = 0
  BY FS_Singleton, FS_EmptySet
<1> QED
  BY <1>1

\* There is at most one dead letter.
LEMMA DeadLetterCount == Cardinality(DeadLetterOf) <= 1
<1>1. CASE status = "invalid"
  BY <1>1, OneLetter DEF DeadLetterOf
<1>2. CASE status = "failed"
  BY <1>2, OneLetter DEF DeadLetterOf
<1>3. CASE status \notin {"invalid", "failed"}
  <2>1. DeadLetterOf = {}
    BY <1>3 DEF DeadLetterOf
  <2> QED
    BY <2>1, OneLetter
<1> QED
  BY <1>1, <1>2, <1>3

\* The invariant gives the types.
LEMMA WalkIsTyped == WalkInv => TypeOK
<1> SUFFICES ASSUME WalkInv PROVE TypeOK
  OBVIOUS
<1>1. Len(order) <= Len(graph.nodes) /\ ToSet(order) \subseteq ToSet(graph.nodes)
  <2>1. order \in Seq(ToSet(graph.nodes)) /\ Len(order) <= Len(graph.nodes)
    BY OrderFacts DEF WalkInv
  <2> DEFINE N == ToSet(graph.nodes)
  <2>2. order \in Seq(N)
    BY <2>1
  <2> HIDE DEF N
  <2>3. \A i \in DOMAIN order : order[i] \in N
    BY <2>2
  <2> QED
    BY <2>1, <2>3 DEF ToSet, N
<1>2. next \in 1 .. Len(order) + 1 /\ Len(steps) = next - 1
  BY NextRange DEF WalkInv, Placed
<1>3. \A i \in DOMAIN steps : steps[i] \in StepRecords
  <2> DEFINE R == StepRecords
  <2>1. steps \in Seq(R)
    BY DEF WalkInv, Typed
  <2> HIDE DEF R
  <2>2. \A i \in DOMAIN steps : steps[i] \in R
    BY <2>1
  <2> QED
    BY <2>2 DEF R
<1>4. \A i \in DOMAIN sent : sent[i] \in Requests
  <2> DEFINE R == Requests
  <2>1. sent \in Seq(R)
    BY DEF WalkInv, Typed
  <2> HIDE DEF R
  <2>2. \A i \in DOMAIN sent : sent[i] \in R
    BY <2>1
  <2> QED
    BY <2>2 DEF R
<1>5. Cardinality(deadLetter) <= 1
  BY DeadLetterCount, OneLetter DEF WalkInv, Settled
<1>6. /\ graph \in StoredGraphs
      /\ phase \in {"parse", "walk", "settle", "done", "thrown"}
      /\ attempt \in 1 .. MaxAttempts /\ broken \in BOOLEAN
      /\ status \in {"succeeded", "filtered", "failed", "invalid"}
      /\ outputs \subseteq KeysOf(graph)
  BY DEF WalkInv, Typed
<1> QED
  BY <1>1, <1>2, <1>3, <1>4, <1>5, <1>6 DEF TypeOK, StepRecords, Requests

\* Every state is typed, for any stored graphs and any limit of attempts.
THEOREM TypeCorrect == Spec => []TypeOK
BY WalkStart, WalkStep, WalkIsTyped, PTL DEF Spec

\* The invariant gives the story of an execution that is over.
LEMMA WalkTellsStatus == WalkInv => StatusTellsSteps
<1> SUFFICES ASSUME WalkInv, phase = "done", status # "invalid" PROVE StatusTellsSteps
  BY DEF StatusTellsSteps
<1> DEFINE failed == {i \in DOMAIN steps : steps[i].status = "failed"}
           kind == CASE status = "filtered" -> {"filter"}
                     [] status = "failed"   -> {"action"}
                     [] OTHER               -> {}
           kinds == {NodeAt(graph, steps[i].key).type : i \in failed}
<1>1. /\ next = Len(order) + 1 /\ Len(order) \in Nat /\ DOMAIN steps = 1 .. Len(order)
      /\ next - 1 = Len(order) /\ Len(steps) = Len(order)
  BY NextRange DEF WalkInv, Placed
<1>2. Len(order) = Len(graph.nodes)
  <2>1. graph \in Accepted /\ order = TopoSort(graph)
    BY DEF WalkInv, Sorted
  <2> QED
    BY <2>1, SortedNodes, GraphAssumption DEF Accepted
<1>3. \A i \in DOMAIN steps : NodeAt(graph, steps[i].key).type = order[i].type
  BY <1>1, OrderFacts DEF WalkInv, Placed
<1>4. deadLetter = DeadLetterOf
  BY DEF WalkInv, Settled
<1>5. CASE ~broken
  <2>1. status = "succeeded" /\ failed = {} /\ \A i \in DOMAIN steps : steps[i].status = "succeeded"
    BY <1>1, <1>5 DEF WalkInv, Story
  <2>2. deadLetter = {} /\ kind = {} /\ kinds = {}
    BY <1>4, <2>1 DEF DeadLetterOf
  <2>3. Cardinality(failed) <= 1
    BY <2>1, OneLetter
  <2> QED
    BY <1>1, <1>2, <2>1, <2>2, <2>3 DEF StatusTellsSteps
<1>6. CASE broken
  <2>1. PICK b \in DOMAIN steps : BrokeAt(b)
    BY <1>1, <1>6 DEF WalkInv, Story
  <2>2. failed = {b} /\ \A j \in DOMAIN steps : steps[j].status = "skipped" <=> j > b
    <3>1. \A j \in DOMAIN steps : j < b \/ j = b \/ j > b
      BY <1>1
    <3>2. ~(b > b) /\ \A j \in DOMAIN steps : ~(j < b /\ j > b)
      BY <1>1
    <3> QED
      BY <1>1, <2>1, <3>1, <3>2 DEF BrokeAt
  <2>3. kinds = {order[b].type}
    BY <1>3, <2>2
  <2>4. kind = {order[b].type}
    BY <2>1 DEF BrokeAt
  <2>5. Cardinality(failed) <= 1
    BY <2>2, OneLetter
  <2>6. deadLetter # {} <=> status = "failed"
    BY <1>4, <2>1 DEF DeadLetterOf, BrokeAt
  <2>7. \A d \in deadLetter, i \in failed :
           i = Len(steps) => d.error = "step" /\ d.attempts = steps[i].attempt
    BY <1>4, <2>1, <2>2 DEF DeadLetterOf, BrokeAt, Last
  <2> HIDE DEF failed, kind, kinds
  <2>8. kinds = kind
    BY <2>3, <2>4
  <2>9. \A i \in failed, j \in DOMAIN steps : steps[j].status = "skipped" <=> j > i
    BY <2>2
  <2> QED
    BY <1>1, <1>2, <2>5, <2>6, <2>7, <2>8, <2>9 DEF StatusTellsSteps, failed, kind, kinds
<1> QED
  BY <1>5, <1>6 DEF WalkInv, Typed

\* The status and the dead letter of an execution that is over are what its step
\* records tell, for any stored graphs, with unique keys or not.
THEOREM StatusTold == Spec => []StatusTellsSteps
BY WalkStart, WalkStep, WalkTellsStatus, PTL DEF Spec

-----------------------------------------------------------------------------
(***************************************************************************)
(* Dependencies: what has succeeded when a request leaves.                 *)
(***************************************************************************)
\* During the walk the order is topoSort's of a graph that was accepted.
LEMMA WalkOrder ==
    ASSUME WalkInv, AtNode
    PROVE  /\ IsGraph(graph) /\ ValidGraph(graph) /\ order = TopoSort(graph)
           /\ Len(order) = Len(graph.nodes) /\ next \in 1 .. Len(order) /\ Len(order) \in Nat
           /\ next \in Nat \ {0} /\ next - 1 \in Nat
<1>1. graph \in Accepted /\ order = TopoSort(graph)
  BY DEF WalkInv, Sorted, AtNode
<1>2. IsGraph(graph) /\ ValidGraph(graph)
  BY <1>1, GraphAssumption DEF Accepted
<1>3. Len(order) = Len(graph.nodes)
  BY <1>1, <1>2, SortedNodes
<1>4. next \in Nat \ {0} /\ next <= Len(order) /\ Len(order) \in Nat
  BY NextRange DEF AtNode
<1> QED
  BY <1>1, <1>2, <1>3, <1>4

\* The walk goes along every edge: what a key points to comes later.
LEMMA WalkAlongEdges ==
    ASSUME WalkInv, AtNode, UniqueKeys(graph)
    PROVE  /\ \A i, j \in 1 .. Len(order) : order[i].key = order[j].key => i = j
           /\ \A k \in KeysOf(graph) : \E i \in 1 .. Len(order) : order[i].key = k
           /\ \A j \in 1 .. Len(order), e \in ToSet(graph.edges) :
                 e[2] = order[j].key => \E h \in 1 .. j - 1 : order[h].key = e[1]
BY WalkOrder, SortedByEdges

\* The keys of the nodes passed.
Passed == {order[i].key : i \in 1 .. next - 1}

\* What is upstream of the next node has been passed: the nodes up to it are
\* closed under predecessors.
LEMMA UpstreamIsPassed ==
    ASSUME WalkInv, AtNode, UniqueKeys(graph)
    PROVE  Upstream(graph, Node.key) \subseteq Passed
<1> DEFINE G == AsDigraph(graph)
           S == {order[i].key : i \in 1 .. next}
<1>1. G.node = KeysOf(graph) /\ G.edge = ToSet(graph.edges)
  BY DEF AsDigraph
<1>2. next \in 1 .. Len(order) /\ next \in Nat \ {0} /\ Len(order) \in Nat
  BY WalkOrder
<1>3. S \in SUBSET G.node /\ Node.key \in S
  BY <1>1, <1>2, OrderFacts DEF WalkInv, Node
<1>4. AllPredecessors(G, S) \subseteq S
  <2> SUFFICES ASSUME NEW p, NEW k \in S, p \in Predecessors(G, k) PROVE p \in S
    BY DEF AllPredecessors
  <2>1. PICK j \in 1 .. next : k = order[j].key
    OBVIOUS
  <2>2. PICK e \in ToSet(graph.edges) : e[1] = p /\ e[2] = order[j].key
    <3>1. <<p, k>> \in ToSet(graph.edges)
      BY <1>1 DEF Predecessors
    <3> QED
      BY <2>1, <3>1
  <2>3. PICK h \in 1 .. j - 1 : order[h].key = p
    BY <1>2, <2>2, WalkAlongEdges
  <2> QED
    BY <1>2, <2>3
<1>5. ASSUME NEW a \in Upstream(graph, Node.key) PROVE a \in Passed
  <2>1. a # Node.key /\ a \in S
    BY <1>3, <1>4, <1>5 DEF Upstream
  <2>2. PICK i \in 1 .. next : a = order[i].key
    BY <2>1
  <2>3. i \in 1 .. next - 1
    BY <1>2, <2>1, <2>2 DEF Node
  <2> QED
    BY <2>2, <2>3 DEF Passed
<1> QED
  BY <1>5

\* As long as nothing broke the pipeline, all that was passed succeeded.
LEMMA PassedSucceeded ==
    ASSUME WalkInv, ~broken
    PROVE  Passed = SucceededKeys
<1>1. \A i \in DOMAIN steps : steps[i].status = "succeeded" /\ steps[i].key = order[i].key
  BY NextRange DEF WalkInv, Story, Placed
<1> QED
  BY <1>1, NextRange DEF Passed, SucceededKeys

\* A step record is emitted.
Emits ==
    \E s \in StepStatus, n \in 1 .. MaxAttempts :
        AtNode /\ Emit(s, n) /\ UNCHANGED <<graph, order>>

\* Step records are only added, at a node.
LEMMA StepsGrow ==
    ASSUME WalkInv, [Next]_vars
    PROVE  steps' = steps \/ Emits
<1>0. 1 \in 1 .. MaxAttempts /\ attempt \in 1 .. MaxAttempts
  BY AttemptsAssumption DEF WalkInv, Typed
<1>1. CASE Parse \/ Throw \/ Return \/ Settle \/ UNCHANGED vars
  BY <1>1 DEF Parse, Throw, Return, Settle, vars
<1>2. CASE Skip \/ Trigger \/ Transform
  BY <1>0, <1>2 DEF Skip, Trigger, Transform, StepStatus, Emits
<1>3. ASSUME NEW passed \in BOOLEAN, Filter(passed)
      PROVE  Emits
  BY <1>0, <1>3 DEF Filter, StepStatus, Emits
<1>4. ASSUME NEW answer \in Answers, Dispatch(answer)
      PROVE  steps' = steps \/ Emits
  BY <1>0, <1>4 DEF Dispatch, StepStatus, Emits
<1> QED
  BY <1>1, <1>2, <1>3, <1>4 DEF Next, Walk, Over

\* What succeeded stays so.
LEMMA SuccessGrows ==
    ASSUME WalkInv, [Next]_vars
    PROVE  SucceededKeys \subseteq SucceededKeys'
<1>1. CASE steps' = steps
  BY <1>1 DEF SucceededKeys
<1>2. ASSUME NEW s \in StepStatus, NEW n \in 1 .. MaxAttempts, AtNode, Emit(s, n),
             UNCHANGED <<graph, order>>
      PROVE  SucceededKeys \subseteq SucceededKeys'
  <2>1. steps' \in Seq(StepRecords) /\ Len(steps') = next /\ next \in Nat \ {0}
        /\ \A i \in 1 .. next - 1 : steps'[i] = steps[i]
    BY <1>2, EmittedRecord
  <2>2. DOMAIN steps' = 1 .. next /\ DOMAIN steps = 1 .. next - 1
    BY <2>1, NextRange
  <2>3. \A i \in DOMAIN steps : i \in DOMAIN steps' /\ steps'[i] = steps[i]
    BY <2>1, <2>2
  <2> QED
    BY <2>3 DEF SucceededKeys
<1> QED
  BY <1>1, <1>2, StepsGrow DEF Emits

\* A request that leaves now sees what is upstream of its action, and what was
\* seen stays.
LEMMA SeesUpstreamStep ==
    ASSUME WalkInv, UniqueKeys(graph), SeesUpstream, [Next]_vars
    PROVE  SeesUpstream'
<1> DEFINE Sees(r, done) ==
             LET upstream == Upstream(graph, r.key)
             IN  /\ upstream \subseteq done
                 /\ {k \in upstream : NodeAt(graph, k).type \in {"transform", "action"}}
                       \subseteq r.saw
<1>1. SucceededKeys \subseteq SucceededKeys' /\ graph' = graph
  <2>1. graph' = graph
    BY DEF Next, Walk, Over, vars, Parse, Skip, Trigger, Transform, Throw, Return, Settle, Filter, Dispatch
  <2> QED
    BY <2>1, SuccessGrows
<1>2. \A i \in DOMAIN sent : Sees(sent[i], SucceededKeys')
  BY <1>1 DEF SeesUpstream
<1>3. CASE sent' = sent
  BY <1>1, <1>2, <1>3 DEF SeesUpstream
<1>4. ASSUME NEW answer \in Answers, Dispatch(answer) PROVE SeesUpstream'
  <2> DEFINE rec == [key |-> Node.key, attempt |-> attempt, saw |-> outputs, answer |-> answer]
  <2>1. AtNode /\ ~broken /\ sent' = Append(sent, rec)
    BY <1>4 DEF Dispatch
  <2>2. Upstream(graph, Node.key) \subseteq SucceededKeys'
    BY <1>1, <2>1, UpstreamIsPassed, PassedSucceeded
  <2>3. ASSUME NEW k \in Upstream(graph, Node.key),
               NodeAt(graph, k).type \in {"transform", "action"}
        PROVE  k \in outputs
    <3>1. k \in Passed
      BY <2>1, <2>3, UpstreamIsPassed
    <3>2. PICK i \in 1 .. next - 1 : k = order[i].key
      BY <3>1 DEF Passed
    <3>3. i \in 1 .. Len(order)
      BY NextRange
    <3>4. order[i] = NodeAt(graph, k)
      BY <3>2, <3>3, OrderFacts DEF WalkInv
    <3>5. steps[i].status = "succeeded"
      BY <2>1, <3>2 DEF WalkInv, Story
    <3> QED
      BY <2>3, <3>2, <3>4, <3>5 DEF WalkInv, Produced
  <2>4. Sees(rec, SucceededKeys')
    BY <2>2, <2>3
  <2>5. sent \in Seq(Requests) /\ rec \in Requests
    <3>1. sent' \in Seq(Requests) /\ sent \in Seq(Requests)
      BY <2>1, SentType DEF WalkInv, Typed
    <3>2. Node.key \in KeysOf(graph)
      BY <2>1, WalkOrder, OrderFacts DEF WalkInv, Node
    <3> QED
      BY <3>1, <3>2 DEF Requests, WalkInv, Typed
  <2> HIDE DEF rec, Sees
  <2>6. \A i \in DOMAIN sent' : (i \in DOMAIN sent /\ sent'[i] = sent[i]) \/ sent'[i] = rec
    BY <2>1, <2>5
  <2>7. \A i \in DOMAIN sent' : Sees(sent'[i], SucceededKeys')
    BY <1>2, <2>4, <2>6
  <2> QED
    BY <1>1, <2>7 DEF SeesUpstream, Sees
<1>5. (\E answer \in Answers : Dispatch(answer)) \/ sent' = sent
  BY DEF Next, Walk, Over, vars, Parse, Skip, Trigger, Transform, Throw, Return, Settle, Filter
<1> QED
  BY <1>3, <1>4, <1>5

\* At the start nothing has been asked.
LEMMA SeesUpstreamStart == Init => SeesUpstream
BY DEF Init, SeesUpstream

\* An execution keeps its graph.
LEMMA GraphStays == [Next]_vars => UNCHANGED graph
BY DEF Next, Walk, Over, vars, Parse, Skip, Trigger, Transform, Throw, Return, Settle, Filter, Dispatch

\* If keys are unique, no request leaves before everything upstream of its action
\* has succeeded, and each is made with the outputs of all that.
THEOREM UpstreamFirst == UniqueKeys(graph) /\ Spec => []SeesUpstream
<1> DEFINE Inv == WalkInv /\ UniqueKeys(graph) /\ SeesUpstream
<1>1. UniqueKeys(graph) /\ Init => Inv
  BY WalkStart, SeesUpstreamStart
<1>2. Inv /\ [Next]_vars => Inv'
  <2> SUFFICES ASSUME Inv, [Next]_vars PROVE Inv'
    OBVIOUS
  <2>1. UniqueKeys(graph)'
    BY GraphStays DEF UniqueKeys
  <2> QED
    BY <2>1, WalkStep, SeesUpstreamStep
<1>3. Inv => SeesUpstream
  OBVIOUS
<1> QED
  BY <1>1, <1>2, <1>3, PTL DEF Spec

-----------------------------------------------------------------------------
(***************************************************************************)
(* Retries.                                                                *)
(***************************************************************************)
\* RetryPolicy in terms of positions: what is asked first about an action is its
\* first attempt, ...
FirstAsked ==
    \A i \in 1 .. Len(sent) :
        sent[i].attempt = 1 <=> \A h \in 1 .. i - 1 : sent[h].key # sent[i].key

\* ... what is asked again follows at once on a retryable answer, ...
AskedAgain ==
    \A i \in 1 .. Len(sent) : \A h \in 1 .. i - 1 :
        sent[h].key = sent[i].key =>
            /\ sent[i - 1].key = sent[i].key
            /\ sent[i].attempt = sent[i - 1].attempt + 1
            /\ sent[i - 1].answer = "retryable"

\* ... and the step record shows the last attempt and its answer.
LastAnswer ==
    \A i \in 1 .. Len(sent), j \in 1 .. next - 1 :
        /\ \A h \in i + 1 .. Len(sent) : sent[h].key # sent[i].key
        /\ order[j].key = sent[i].key
        => /\ steps[j].attempt = sent[i].attempt
           /\ steps[j].status = "succeeded" <=> sent[i].answer = "ok"

\* The invariant behind RetryPolicy.
RetryInv == WalkInv /\ Asked /\ FirstAsked /\ AskedAgain /\ LastAnswer

\* The requests have positions.
LEMMA SentShape ==
    ASSUME WalkInv
    PROVE  /\ Len(sent) \in Nat /\ DOMAIN sent = 1 .. Len(sent)
           /\ \A i \in 1 .. Len(sent) : sent[i] \in Requests
<1> DEFINE R == Requests
<1>1. sent \in Seq(R)
  BY DEF WalkInv, Typed
<1> HIDE DEF R
<1>2. Len(sent) \in Nat /\ DOMAIN sent = 1 .. Len(sent) /\ \A i \in 1 .. Len(sent) : sent[i] \in R
  BY <1>1
<1> QED
  BY <1>2 DEF R

\* The positions give the sets of RetryPolicy.
LEMMA RetryInvTold == RetryInv => RetryPolicy
<1> SUFFICES ASSUME RetryInv, NEW i \in 1 .. Len(sent)
             PROVE  LET before == {h \in DOMAIN sent : h < i /\ sent[h].key = sent[i].key}
                        after  == {h \in DOMAIN sent : h > i /\ sent[h].key = sent[i].key}
                    IN  /\ sent[i].attempt <= MaxAttempts
                        /\ sent[i].attempt = 1 <=> before = {}
                        /\ before # {} =>
                              /\ i - 1 \in before
                              /\ sent[i].attempt = sent[i - 1].attempt + 1
                              /\ sent[i - 1].answer = "retryable"
                        /\ after = {} =>
                              \A j \in DOMAIN steps :
                                 steps[j].key = sent[i].key =>
                                    /\ steps[j].attempt = sent[i].attempt
                                    /\ steps[j].status = "succeeded" <=> sent[i].answer = "ok"
  BY SentShape DEF RetryPolicy, RetryInv
<1> DEFINE before == {h \in DOMAIN sent : h < i /\ sent[h].key = sent[i].key}
           after  == {h \in DOMAIN sent : h > i /\ sent[h].key = sent[i].key}
<1>0. Len(sent) \in Nat /\ DOMAIN sent = 1 .. Len(sent)
  BY SentShape DEF RetryInv
<1>1. sent[i].attempt <= MaxAttempts
  <2>1. sent[i].attempt \in 1 .. MaxAttempts
    BY SentShape DEF RetryInv, Requests
  <2> QED
    BY <2>1, AttemptsAssumption
<1>2. before = {h \in 1 .. i - 1 : sent[h].key = sent[i].key}
  BY <1>0
<1>3. after = {h \in i + 1 .. Len(sent) : sent[h].key = sent[i].key}
  BY <1>0
<1> HIDE DEF before, after
<1>4. sent[i].attempt = 1 <=> before = {}
  BY <1>2 DEF RetryInv, FirstAsked
<1>5. ASSUME before # {}
      PROVE  /\ i - 1 \in before
             /\ sent[i].attempt = sent[i - 1].attempt + 1
             /\ sent[i - 1].answer = "retryable"
  <2>1. PICK h \in 1 .. i - 1 : sent[h].key = sent[i].key
    BY <1>2, <1>5
  <2>2. /\ sent[i - 1].key = sent[i].key
        /\ sent[i].attempt = sent[i - 1].attempt + 1
        /\ sent[i - 1].answer = "retryable"
    BY <2>1 DEF RetryInv, AskedAgain
  <2>3. i - 1 \in 1 .. i - 1
    BY <2>1
  <2> QED
    BY <1>2, <2>2, <2>3
<1>6. ASSUME after = {}, NEW j \in DOMAIN steps, steps[j].key = sent[i].key
      PROVE  /\ steps[j].attempt = sent[i].attempt
             /\ steps[j].status = "succeeded" <=> sent[i].answer = "ok"
  <2>1. j \in 1 .. next - 1
    BY NextRange DEF RetryInv
  <2>2. order[j].key = sent[i].key
    BY <1>6, <2>1 DEF RetryInv, WalkInv, Placed
  <2>3. \A h \in i + 1 .. Len(sent) : sent[h].key # sent[i].key
    BY <1>3, <1>6
  <2> QED
    BY <2>1, <2>2, <2>3 DEF RetryInv, LastAnswer
<1> QED
  BY <1>1, <1>4, <1>5, <1>6 DEF before, after

\* At the start nothing has been asked.
LEMMA RetryStart == Init => RetryInv
<1> SUFFICES ASSUME Init PROVE RetryInv
  OBVIOUS
<1>1. WalkInv
  BY WalkStart
<1>2. sent = <<>> /\ attempt = 1 /\ Len(sent) = 0
  BY DEF Init
<1> QED
  BY <1>1, <1>2 DEF RetryInv, Asked, FirstAsked, AskedAgain, LastAnswer

\* What is asked about an action that is tried for the first time is new.
LEMMA NothingAsked ==
    ASSUME WalkInv, Asked, AtNode, attempt = 1
    PROVE  \A i \in 1 .. Len(sent) : sent[i].key # Node.key
BY NextRange DEF Asked, AtNode, Node

\* A record that comes without a request leaves what was asked as it is.
LEMMA RetryEmit ==
    ASSUME RetryInv, AtNode, ~(~broken /\ Node.type = "action"), NEW s \in StepStatus, Emit(s, 1),
           UNCHANGED <<graph, order, phase, sent>>
    PROVE  Asked' /\ FirstAsked' /\ AskedAgain' /\ LastAnswer'
<1>0. 1 \in 1 .. MaxAttempts /\ attempt \in 1 .. MaxAttempts /\ MaxAttempts \in Nat
  BY AttemptsAssumption DEF RetryInv, WalkInv, Typed
<1>1. attempt = 1
  BY <1>0 DEF RetryInv, Asked
<1>2. \A i \in 1 .. Len(sent) : sent[i].key # order[next].key
  BY <1>1, NothingAsked DEF RetryInv, Node
<1>3. next' = next + 1 /\ attempt' = 1 /\ next \in Nat /\ Len(order) \in Nat
      /\ \A j \in 1 .. next - 1 : steps'[j] = steps[j]
  BY <1>0, EmittedRecord, NextRange DEF RetryInv
<1>4. Asked'
  BY <1>1, <1>3 DEF RetryInv, Asked, AtNode
<1>5. FirstAsked' /\ AskedAgain'
  BY DEF RetryInv, FirstAsked, AskedAgain
<1>6. LastAnswer'
  <2> SUFFICES ASSUME NEW i \in 1 .. Len(sent), NEW j \in 1 .. next,
                      \A h \in i + 1 .. Len(sent) : sent[h].key # sent[i].key,
                      order[j].key = sent[i].key
               PROVE  /\ steps'[j].attempt = sent[i].attempt
                      /\ steps'[j].status = "succeeded" <=> sent[i].answer = "ok"
    BY <1>3 DEF LastAnswer
  <2>1. j \in 1 .. next - 1
    BY <1>2, <1>3
  <2> QED
    BY <1>3, <2>1 DEF RetryInv, LastAnswer
<1> QED
  BY <1>4, <1>5, <1>6

\* What one more request adds.
LEMMA OneRequest ==
    ASSUME WalkInv, AtNode, NEW answer \in Answers, Dispatch(answer)
    PROVE  /\ Len(sent') = Len(sent) + 1 /\ Len(sent) \in Nat
           /\ \A i \in 1 .. Len(sent) : sent'[i] = sent[i]
           /\ sent'[Len(sent) + 1].key = Node.key
           /\ sent'[Len(sent) + 1].attempt = attempt
           /\ sent'[Len(sent) + 1].answer = answer
           /\ \A i \in 1 .. Len(sent') : i \in 1 .. Len(sent) \/ i = Len(sent) + 1
<1> DEFINE rec == [key |-> Node.key, attempt |-> attempt, saw |-> outputs, answer |-> answer]
           R == Requests
<1>1. sent \in Seq(R) /\ sent' = Append(sent, rec)
  BY DEF WalkInv, Typed, Dispatch
<1>2. rec.key = Node.key /\ rec.attempt = attempt /\ rec.answer = answer
  OBVIOUS
<1> HIDE DEF rec, R
<1>3. /\ Len(sent') = Len(sent) + 1 /\ Len(sent) \in Nat
      /\ \A i \in 1 .. Len(sent) : sent'[i] = sent[i]
      /\ sent'[Len(sent) + 1] = rec
  BY <1>1
<1>4. \A i \in 1 .. Len(sent') : i \in 1 .. Len(sent) \/ i = Len(sent) + 1
  BY <1>3
<1> QED
  BY <1>2, <1>3, <1>4

\* An attempt, whatever its answer leads to.
LEMMA RetryAsk ==
    ASSUME RetryInv, UniqueKeys(graph), NEW answer \in Answers, Dispatch(answer)
    PROVE  Asked' /\ FirstAsked' /\ AskedAgain' /\ LastAnswer'
<1> DEFINE n == Len(sent)
<1>0. WalkInv /\ AtNode /\ ~broken /\ Node.type = "action" /\ UNCHANGED <<graph, order, phase>>
  BY DEF Dispatch, RetryInv
<1>1. /\ Len(sent') = n + 1 /\ n \in Nat
      /\ \A i \in 1 .. n : sent'[i] = sent[i]
      /\ sent'[n + 1].key = order[next].key
      /\ sent'[n + 1].attempt = attempt
      /\ sent'[n + 1].answer = answer
      /\ \A i \in 1 .. Len(sent') : i \in 1 .. n \/ i = n + 1
  BY <1>0, OneRequest DEF Node
<1>2. /\ next \in 1 .. Len(order) /\ next \in Nat \ {0} /\ Len(order) \in Nat
      /\ attempt \in 1 .. MaxAttempts /\ MaxAttempts \in Nat
      /\ \A j \in 1 .. Len(order) : order[j].key = order[next].key => j = next
  BY <1>0, WalkOrder, WalkAlongEdges, AttemptsAssumption DEF WalkInv, Typed
<1>4. FirstAsked'
  <2> SUFFICES ASSUME NEW i \in 1 .. n + 1
               PROVE  sent'[i].attempt = 1 <=> \A h \in 1 .. i - 1 : sent'[h].key # sent'[i].key
    BY <1>1 DEF FirstAsked
  <2>1. CASE i \in 1 .. n
    BY <1>1, <2>1 DEF RetryInv, FirstAsked
  <2>2. CASE i = n + 1 /\ attempt = 1
    BY <1>0, <1>1, <2>2, NothingAsked DEF RetryInv, Node
  <2>3. CASE i = n + 1 /\ attempt > 1
    <3>1. n \in 1 .. n /\ sent[n].key = order[next].key
      BY <1>1, <2>3 DEF RetryInv, Asked, Node
    <3> QED
      BY <1>1, <2>3, <3>1
  <2> QED
    BY <1>1, <1>2, <2>1, <2>2, <2>3
<1>5. AskedAgain'
  <2> SUFFICES ASSUME NEW i \in 1 .. n + 1, NEW h \in 1 .. i - 1, sent'[h].key = sent'[i].key
               PROVE  /\ sent'[i - 1].key = sent'[i].key
                      /\ sent'[i].attempt = sent'[i - 1].attempt + 1
                      /\ sent'[i - 1].answer = "retryable"
    BY <1>1 DEF AskedAgain
  <2>1. CASE i \in 1 .. n
    <3>1. h \in 1 .. n /\ i - 1 \in 1 .. n
      BY <1>1, <2>1
    <3> QED
      BY <1>1, <2>1, <3>1 DEF RetryInv, AskedAgain
  <2>2. CASE i = n + 1
    <3>1. h \in 1 .. n /\ sent[h].key = order[next].key
      BY <1>1, <2>2
    <3>2. attempt > 1
      BY <1>0, <1>2, <3>1, NothingAsked DEF RetryInv, Node
    <3>3. /\ sent[n].key = order[next].key /\ sent[n].attempt = attempt - 1
          /\ sent[n].answer = "retryable"
      BY <3>2 DEF RetryInv, Asked, Node
    <3>4. n \in 1 .. n /\ i - 1 = n
      BY <1>1, <2>2, <3>1
    <3> QED
      BY <1>1, <1>2, <2>2, <3>3, <3>4
  <2> QED
    BY <1>1, <2>1, <2>2
\* What is known of the steps of other nodes stays.
<1>6. ASSUME NEW i \in 1 .. n + 1, NEW j \in 1 .. next - 1,
             \A h \in i + 1 .. n + 1 : sent'[h].key # sent'[i].key,
             order[j].key = sent'[i].key
      PROVE  i \in 1 .. n /\ steps[j].attempt = sent'[i].attempt
             /\ (steps[j].status = "succeeded" <=> sent'[i].answer = "ok")
  <2>1. j \in 1 .. Len(order) /\ j # next
    BY <1>2
  <2>2. i \in 1 .. n
    BY <1>1, <1>2, <1>6, <2>1
  <2>3. \A h \in i + 1 .. n : sent[h].key # sent[i].key
    BY <1>1, <1>6, <2>2
  <2> QED
    BY <1>1, <1>6, <2>2, <2>3 DEF RetryInv, LastAnswer
<1>7. \A i \in 1 .. n + 1, j \in next + 1 .. Len(order) : sent'[i].key # order[j].key
  <2> SUFFICES ASSUME NEW i \in 1 .. n + 1, NEW j \in next + 1 .. Len(order),
                      sent'[i].key = order[j].key
               PROVE  FALSE
    OBVIOUS
  <2>1. j \in next .. Len(order) /\ j \in 1 .. Len(order) /\ j # next
    BY <1>2
  <2>2. CASE i \in 1 .. n
    BY <1>1, <2>1, <2>2 DEF RetryInv, Asked
  <2>3. CASE i = n + 1
    BY <1>1, <1>2, <2>1, <2>3
  <2> QED
    BY <1>1, <2>2, <2>3
<1>8. ASSUME NEW s \in StepStatus, Emit(s, attempt), s = "succeeded" <=> answer = "ok"
      PROVE  Asked' /\ LastAnswer'
  <2>1. /\ next' = next + 1 /\ attempt' = 1
        /\ steps'[next] = [key |-> Node.key, status |-> s, attempt |-> attempt]
        /\ \A j \in 1 .. next - 1 : steps'[j] = steps[j]
    BY <1>0, <1>2, <1>8, EmittedRecord
  <2>2. Asked'
    BY <1>0, <1>1, <1>7, <2>1 DEF Asked, AtNode
  <2>3. LastAnswer'
    <3> SUFFICES ASSUME NEW i \in 1 .. n + 1, NEW j \in 1 .. next,
                        \A h \in i + 1 .. n + 1 : sent'[h].key # sent'[i].key,
                        order[j].key = sent'[i].key
                 PROVE  /\ steps'[j].attempt = sent'[i].attempt
                        /\ steps'[j].status = "succeeded" <=> sent'[i].answer = "ok"
      BY <1>0, <1>1, <1>2, <2>1 DEF LastAnswer
    <3>1. CASE j \in 1 .. next - 1
      BY <1>6, <2>1, <3>1
    <3>2. CASE j = next
      <4>1. i = n + 1
        BY <1>1, <3>2
      <4> QED
        BY <1>1, <1>8, <2>1, <3>2, <4>1
    <3> QED
      BY <1>2, <3>1, <3>2
  <2> QED
    BY <2>2, <2>3
<1>9. CASE answer = "ok" /\ Emit("succeeded", attempt)
  BY <1>4, <1>5, <1>8, <1>9 DEF StepStatus
<1>10. CASE GivesUp(attempt, answer) /\ Emit("failed", attempt)
  <2>1. answer # "ok"
    BY <1>10 DEF GivesUp
  <2> QED
    BY <1>4, <1>5, <1>8, <1>10, <2>1 DEF StepStatus
<1>11. CASE /\ answer # "ok" /\ ~GivesUp(attempt, answer) /\ attempt' = attempt + 1
            /\ UNCHANGED <<next, broken, status, outputs, steps>>
  <2>1. answer = "retryable"
    BY <1>11 DEF GivesUp, Answers
  <2>2. attempt' > 1 /\ attempt' - 1 = attempt
    BY <1>2, <1>11
  <2>3. Asked'
    <3>1. (AtNode /\ ~broken /\ Node.type = "action")' /\ phase' # "parse"
      BY <1>0, <1>11 DEF AtNode, Node
    <3>2. \A i \in 1 .. n + 1, j \in next .. Len(order) : sent'[i].key = order[j].key => j = next
      <4> SUFFICES ASSUME NEW i \in 1 .. n + 1, NEW j \in next .. Len(order),
                          sent'[i].key = order[j].key
                   PROVE  j = next
        OBVIOUS
      <4>1. j = next \/ j \in next + 1 .. Len(order)
        BY <1>2
      <4> QED
        BY <1>7, <4>1
    <3>3. sent' # <<>> /\ Len(sent') = n + 1
      BY <1>1
    <3> QED
      BY <1>0, <1>1, <1>11, <2>1, <2>2, <3>1, <3>2, <3>3 DEF Asked, Node
  <2>4. LastAnswer'
    BY <1>0, <1>1, <1>6, <1>11 DEF LastAnswer
  <2> QED
    BY <1>4, <1>5, <2>3, <2>4
<1> QED
  BY <1>9, <1>10, <1>11 DEF Dispatch

\* Every step keeps the invariant behind RetryPolicy, if keys are unique.
LEMMA RetryStep == RetryInv /\ UniqueKeys(graph) /\ [Next]_vars => RetryInv'
<1> SUFFICES ASSUME RetryInv, UniqueKeys(graph), [Next]_vars
             PROVE  Asked' /\ FirstAsked' /\ AskedAgain' /\ LastAnswer'
  BY WalkStep DEF RetryInv
<1>1. CASE Parse
  <2>1. sent' = <<>> /\ Len(sent') = 0 /\ attempt' = attempt /\ ~(attempt > 1)
    BY <1>1 DEF Parse, RetryInv, Asked, AtNode
  <2> QED
    BY <2>1 DEF Asked, FirstAsked, AskedAgain, LastAnswer
<1>2. CASE Skip
  <2>1. AtNode /\ broken /\ Emit("skipped", 1) /\ UNCHANGED <<graph, order, phase, sent>>
    BY <1>2 DEF Skip
  <2> QED
    BY <2>1, RetryEmit DEF StepStatus
<1>3. CASE Trigger \/ Transform
  <2>1. /\ AtNode /\ Node.type # "action" /\ Emit("succeeded", 1)
        /\ UNCHANGED <<graph, order, phase, sent>>
    BY <1>3 DEF Trigger, Transform
  <2> QED
    BY <2>1, RetryEmit DEF StepStatus
<1>4. ASSUME NEW passed \in BOOLEAN, Filter(passed)
      PROVE  Asked' /\ FirstAsked' /\ AskedAgain' /\ LastAnswer'
  <2>1. AtNode /\ Node.type # "action" /\ UNCHANGED <<graph, order, phase, sent>>
        /\ (Emit("succeeded", 1) \/ Emit("failed", 1))
    BY <1>4 DEF Filter
  <2> QED
    BY <2>1, RetryEmit DEF StepStatus
<1>5. ASSUME NEW answer \in Answers, Dispatch(answer)
      PROVE  Asked' /\ FirstAsked' /\ AskedAgain' /\ LastAnswer'
  BY <1>5, RetryAsk
<1>6. CASE Return \/ Settle
  <2>1. /\ UNCHANGED <<next, attempt, order, steps, sent>> /\ phase' # "parse"
        /\ ~AtNode /\ ~(attempt > 1)
    BY <1>6, NextRange DEF Return, Settle, RetryInv, Asked, AtNode
  <2>2. Asked'
    BY <2>1 DEF RetryInv, Asked
  <2> QED
    BY <2>1, <2>2 DEF RetryInv, FirstAsked, AskedAgain, LastAnswer
<1>7. CASE UNCHANGED vars
  BY <1>7 DEF vars, RetryInv, Asked, AtNode, Node, FirstAsked, AskedAgain, LastAnswer
<1>8. CASE Throw
  <2>1. /\ UNCHANGED <<next, attempt, order, steps, sent>> /\ phase' # "parse"
        /\ ~(attempt > 1)
    BY <1>8 DEF Throw, RetryInv, Asked
  <2>2. Asked'
    BY <2>1 DEF RetryInv, Asked
  <2> QED
    BY <2>1, <2>2 DEF RetryInv, FirstAsked, AskedAgain, LastAnswer
<1> QED
  BY <1>1, <1>2, <1>3, <1>4, <1>5, <1>6, <1>7, <1>8 DEF Next, Walk, Over

\* If keys are unique, the outside world is asked again only about the action it
\* was just asked about, after a retryable answer and at most MaxAttempts times,
\* and the step record shows the last attempt and its answer.
THEOREM RetriesBounded == UniqueKeys(graph) /\ Spec => []RetryPolicy
<1> DEFINE Inv == RetryInv /\ UniqueKeys(graph)
<1>1. UniqueKeys(graph) /\ Init => Inv
  BY RetryStart
<1>2. Inv /\ [Next]_vars => Inv'
  <2> SUFFICES ASSUME Inv, [Next]_vars PROVE Inv'
    OBVIOUS
  <2>1. UniqueKeys(graph)'
    BY GraphStays DEF UniqueKeys
  <2> QED
    BY <2>1, RetryStep
<1>3. Inv => RetryPolicy
  BY RetryInvTold
<1> QED
  BY <1>1, <1>2, <1>3, PTL DEF Spec

-----------------------------------------------------------------------------
(***************************************************************************)
(* The pipeline that the runner implements.                                *)
(***************************************************************************)
\* Pipeline has the words of the schema by names of its own.
LEMMA SameWords ==
    /\ \A g : Promise!KeysOf(g) = KeysOf(g)
    /\ \A g, k : Promise!NodeAt(g, k) = NodeAt(g, k)
    /\ \A g : Promise!AsDigraph(g) = AsDigraph(g)
    /\ \A G, k : Promise!Predecessors(G, k) = Predecessors(G, k)
    /\ \A G : Promise!IsDirectedGraph(G) = IsDirectedGraph(G)
    /\ \A g : Promise!FirstTrigger(g) = FirstTrigger(g)
    /\ \A g : Promise!TriggersOf(g) = TriggersOf(g)
<1>1. \A g : Promise!KeysOf(g) = KeysOf(g)
  BY DEF KeysOf, Promise!KeysOf
<1>2. \A g, k : Promise!NodeAt(g, k) = NodeAt(g, k)
  BY DEF NodeAt, Promise!NodeAt
<1>3. \A g : Promise!AsDigraph(g) = AsDigraph(g)
  BY <1>1 DEF AsDigraph, Promise!AsDigraph, ToSet, Promise!ToSet
<1>4. \A G, k : Promise!Predecessors(G, k) = Predecessors(G, k)
  BY DEF Predecessors, Promise!Predecessors
<1>5. \A G : Promise!IsDirectedGraph(G) = IsDirectedGraph(G)
  BY DEF IsDirectedGraph, Promise!IsDirectedGraph
<1>6. \A g : Promise!TriggersOf(g) = TriggersOf(g)
  BY DEF TriggersOf, Promise!TriggersOf
<1>7. \A g : Promise!FirstTrigger(g) = FirstTrigger(g)
  BY <1>6 DEF FirstTrigger, Promise!FirstTrigger
<1> QED
  BY <1>1, <1>2, <1>3, <1>4, <1>5, <1>6, <1>7

\* It counts alike ...
LEMMA SameCount == \A S : Promise!Cardinality(S) = Cardinality(S)
BY DEF Cardinality, Promise!Cardinality

\* ... and means the same rooted DAGs.
LEMMA SameDag == Promise!RootedDag(graph) <=> RootedDag(graph)
<1> DEFINE G == AsDigraph(graph)
<1>1. Promise!Acyclic(G) <=> Acyclic(G)
  <2>1. \A k : Promise!Predecessors(G, k) = Predecessors(G, k)
    BY SameWords
  <2> HIDE DEF G
  <2> QED
    BY <2>1 DEF Acyclic, Promise!Acyclic
<1>2. Promise!AllReached(G, FirstTrigger(graph)) <=> AllReached(G, FirstTrigger(graph))
  BY DEF AllReached, Promise!AllReached
<1>3. /\ Promise!AsDigraph(graph) = G /\ Promise!FirstTrigger(graph) = FirstTrigger(graph)
      /\ Promise!TriggersOf(graph) = TriggersOf(graph)
      /\ Promise!IsDirectedGraph(G) = IsDirectedGraph(G)
  BY SameWords
<1>4. Promise!RootedDag(graph)
      <=> /\ Cardinality(TriggersOf(graph)) = 1
          /\ IsDirectedGraph(G)
          /\ Cardinality(G.edge) = Len(graph.edges)
          /\ Acyclic(G)
          /\ AllReached(G, FirstTrigger(graph))
  <2> HIDE DEF G
  <2> QED
    BY <1>1, <1>2, <1>3, SameCount DEF Promise!RootedDag
<1> QED
  BY <1>4 DEF RootedDag

\* The verdict that DagRunner tells Pipeline.
Told == CASE phase \in {"parse", "walk", "thrown"} /\ ~broken -> "open"
          [] status = "invalid"                               -> "refused"
          [] OTHER                                            -> status

\* In Pipeline, the node under k is ready.
MayDo(k) ==
    /\ RootedDag(graph)
    /\ Told = "open"
    /\ k \in KeysOf(graph) \ SucceededKeys
    /\ Predecessors(AsDigraph(graph), k) \subseteq SucceededKeys

\* MayDo is what Pipeline asks of a node that it does.
LEMMA MayDoIsReady ==
    ASSUME NEW k, MayDo(k)
    PROVE  Promise!Ready(k) /\ k \in Promise!KeysOf(graph)
<1>1. Promise!RootedDag(graph)
  BY SameDag DEF MayDo
<1>2. Promise!KeysOf(graph) = KeysOf(graph)
      /\ Promise!Predecessors(Promise!AsDigraph(graph), k) = Predecessors(AsDigraph(graph), k)
  BY SameWords
<1> QED
  BY <1>1, <1>2 DEF MayDo, Told, Promise!Ready

\* Nothing that Pipeline sees has changed.
LEMMA Stutters ==
    ASSUME UNCHANGED <<graph, SucceededKeys, Told>>
    PROVE  [Promise!Next]_(Promise!vars)
BY DEF Promise!vars, Told

\* A node succeeds.
LEMMA Performs ==
    ASSUME NEW k, MayDo(k), SucceededKeys' = SucceededKeys \cup {k}, UNCHANGED <<graph, Told>>
    PROVE  [Promise!Next]_(Promise!vars)
<1>1. Promise!Perform(k)
  BY MayDoIsReady DEF Promise!Perform, Told
<1> QED
  BY <1>1, MayDoIsReady DEF Promise!Next

\* A node filters or fails.
LEMMA Halts ==
    ASSUME NEW k, MayDo(k), UNCHANGED <<graph, SucceededKeys>>,
           \/ NodeAt(graph, k).type = "filter" /\ Told' = "filtered"
           \/ NodeAt(graph, k).type = "action" /\ Told' = "failed"
    PROVE  [Promise!Next]_(Promise!vars)
<1>1. Promise!NodeAt(graph, k) = NodeAt(graph, k)
  BY SameWords
<1>2. Promise!Halt(k)
  BY <1>1, MayDoIsReady DEF Promise!Halt, Told
<1> QED
  BY <1>2, MayDoIsReady DEF Promise!Next

\* The next node of a pipeline that is not broken is ready.
LEMMA NodeIsReady ==
    ASSUME WalkInv, UniqueKeys(graph), AtNode, ~broken
    PROVE  MayDo(Node.key) /\ NodeAt(graph, Node.key).type = Node.type
<1>1. /\ IsGraph(graph) /\ ValidGraph(graph) /\ next \in 1 .. Len(order)
      /\ next \in Nat \ {0} /\ Len(order) \in Nat
  BY WalkOrder
<1>2. RootedDag(graph)
  BY <1>1, AcceptsRootedDags
<1>3. Node.key \in KeysOf(graph) /\ NodeAt(graph, Node.key).type = Node.type
  BY <1>1, OrderFacts DEF WalkInv, Node
<1>4. Node.key \notin SucceededKeys
  <2> SUFFICES ASSUME Node.key \in Passed PROVE FALSE
    BY PassedSucceeded
  <2>1. PICK i \in 1 .. next - 1 : Node.key = order[i].key
    BY DEF Passed
  <2>2. i \in 1 .. Len(order) /\ i # next
    BY <1>1
  <2> QED
    BY <1>1, <2>1, <2>2, WalkAlongEdges DEF Node
<1>5. Predecessors(AsDigraph(graph), Node.key) \subseteq SucceededKeys
  <2> SUFFICES ASSUME NEW p \in Predecessors(AsDigraph(graph), Node.key) PROVE p \in Passed
    BY PassedSucceeded
  <2>1. <<p, Node.key>> \in ToSet(graph.edges)
    BY DEF Predecessors, AsDigraph
  <2>2. PICK e \in ToSet(graph.edges) : e[1] = p /\ e[2] = order[next].key
    BY <2>1 DEF Node
  <2> QED
    BY <1>1, <2>2, WalkAlongEdges DEF Passed
<1>6. Told = "open"
  BY DEF Told, AtNode, WalkInv, Sorted
<1> QED
  BY <1>2, <1>3, <1>4, <1>5, <1>6 DEF MayDo

\* An emitted record adds its key to what succeeded, or nothing.
LEMMA EmitTells ==
    ASSUME WalkInv, AtNode, NEW s \in StepStatus, NEW n \in 1 .. MaxAttempts,
           Emit(s, n), UNCHANGED <<graph, order>>
    PROVE  SucceededKeys' = IF s = "succeeded" THEN SucceededKeys \cup {Node.key} ELSE SucceededKeys
<1>1. /\ Len(steps') = next /\ next \in Nat \ {0}
      /\ steps' \in Seq(StepRecords)
      /\ steps'[next].key = Node.key /\ steps'[next].status = s
      /\ \A i \in 1 .. next - 1 : steps'[i] = steps[i]
      /\ \A i \in 1 .. next : i = next \/ i \in 1 .. next - 1
      /\ \A i \in 1 .. next - 1 : i \in 1 .. next
  <2>1. /\ Len(steps') = next /\ next \in Nat \ {0}
        /\ steps' \in Seq(StepRecords)
        /\ steps'[next] = [key |-> Node.key, status |-> s, attempt |-> n]
        /\ \A i \in 1 .. next - 1 : steps'[i] = steps[i]
        /\ \A i \in 1 .. next : i = next \/ i \in 1 .. next - 1
    BY EmittedRecord
  <2>2. \A i \in 1 .. next - 1 : i \in 1 .. next
    BY <2>1
  <2> QED
    BY <2>1, <2>2
<1>2. DOMAIN steps' = 1 .. next /\ DOMAIN steps = 1 .. next - 1 /\ next \in 1 .. next
  BY <1>1, NextRange
<1>3. SucceededKeys = {steps[i].key : i \in {j \in 1 .. next - 1 : steps[j].status = "succeeded"}}
  BY <1>2 DEF SucceededKeys
<1>4. SucceededKeys' = {steps'[i].key : i \in {j \in 1 .. next : steps'[j].status = "succeeded"}}
  BY <1>2 DEF SucceededKeys
<1>5. CASE s = "succeeded"
  <2>1. SucceededKeys' \subseteq SucceededKeys \cup {Node.key}
    BY <1>1, <1>3, <1>4
  <2>2. SucceededKeys \cup {Node.key} \subseteq SucceededKeys'
    BY <1>1, <1>2, <1>3, <1>4, <1>5
  <2> QED
    BY <1>5, <2>1, <2>2
<1>6. CASE s # "succeeded"
  <2>1. SucceededKeys' \subseteq SucceededKeys
    BY <1>1, <1>3, <1>4, <1>6
  <2>2. SucceededKeys \subseteq SucceededKeys'
    BY <1>1, <1>3, <1>4
  <2> QED
    BY <1>6, <2>1, <2>2
<1> QED
  BY <1>5, <1>6

\* An emitted record is a performance, a halt or nothing new.
LEMMA EmitImplements ==
    ASSUME WalkInv, UniqueKeys(graph), AtNode, NEW s \in StepStatus, NEW n \in 1 .. MaxAttempts,
           Emit(s, n), Tells(s), UNCHANGED <<graph, order, phase>>
    PROVE  [Promise!Next]_(Promise!vars)
<1>1. phase = "walk" /\ phase' = "walk" /\ status # "invalid"
  BY DEF AtNode, WalkInv, Sorted
<1>2. CASE ~broken /\ s = "succeeded" /\ UNCHANGED <<broken, status>>
  <2>1. UNCHANGED Told
    BY <1>1, <1>2 DEF Told
  <2> QED
    BY <1>2, <2>1, EmitTells, NodeIsReady, Performs
<1>3. CASE /\ ~broken /\ s = "failed" /\ broken' = TRUE
           /\ \/ status' = "filtered" /\ Node.type = "filter"
              \/ status' = "failed" /\ Node.type = "action"
  <2>1. Told' = status'
    BY <1>3 DEF Told
  <2>2. UNCHANGED SucceededKeys
    BY <1>3, EmitTells
  <2> QED
    BY <1>3, <2>1, <2>2, NodeIsReady, Halts
<1>4. CASE broken /\ s = "skipped" /\ UNCHANGED <<broken, status>>
  <2>1. UNCHANGED Told
    BY <1>1, <1>4 DEF Told
  <2>2. UNCHANGED SucceededKeys
    BY <1>4, EmitTells
  <2> QED
    BY <2>1, <2>2, Stutters
<1> QED
  BY <1>2, <1>3, <1>4 DEF Tells

\* Parsing refuses what is no rooted DAG.
LEMMA ParseImplements ==
    ASSUME WalkInv, UniqueKeys(graph), Parse
    PROVE  [Promise!Next]_(Promise!vars)
<1>1. phase = "parse" /\ status = "succeeded" /\ ~broken /\ steps = <<>>
      /\ UNCHANGED <<graph, steps, broken>> /\ graph \in StoredGraphs
  <2>1. /\ phase = "parse" /\ status = "succeeded" /\ order = <<>>
        /\ UNCHANGED <<graph, steps, broken>> /\ graph \in StoredGraphs
    BY DEF Parse, WalkInv, Sorted, Typed
  <2>2. next = 1
    BY <2>1, NextRange
  <2>3. steps = <<>>
    <3> DEFINE R == StepRecords
    <3>1. steps \in Seq(R) /\ Len(steps) = 0
      BY <2>2 DEF WalkInv, Typed, Placed
    <3> HIDE DEF R
    <3> QED
      BY <3>1
  <2>4. ~broken
    BY <2>2 DEF WalkInv, Story
  <2> QED
    BY <2>1, <2>3, <2>4
<1>2. UNCHANGED SucceededKeys /\ SucceededKeys = {} /\ Told = "open"
  BY <1>1 DEF SucceededKeys, Told
<1>3. CASE graph \in Accepted
  <2>1. Told' = "open"
    BY <1>1, <1>3 DEF Parse, Told
  <2> QED
    BY <1>1, <1>2, <2>1, Stutters
<1>4. CASE graph \notin Accepted
  <2>1. Told' = "refused"
    BY <1>1, <1>4 DEF Parse, Told
  <2>2. ~RootedDag(graph)
    BY <1>1, <1>4, AcceptsRootedDags, GraphAssumption DEF Accepted
  <2>3. Promise!Refuse
    BY <1>1, <1>2, <2>1, <2>2, SameDag DEF Promise!Refuse, Told
  <2> QED
    BY <2>3 DEF Promise!Next
<1> QED
  BY <1>3, <1>4

\* The walk returns from a pipeline that is not broken when all is done.
LEMMA ReturnImplements ==
    ASSUME WalkInv, UniqueKeys(graph), Return
    PROVE  [Promise!Next]_(Promise!vars)
<1>1. /\ phase = "walk" /\ phase' = "settle" /\ UNCHANGED <<graph, steps, broken, status>>
      /\ status # "invalid" /\ graph \in Accepted /\ order = TopoSort(graph) /\ next > Len(order)
  BY DEF Return, WalkInv, Sorted
<1>2. UNCHANGED SucceededKeys
  BY <1>1 DEF SucceededKeys
<1>3. CASE broken
  <2>1. UNCHANGED Told
    BY <1>1, <1>3 DEF Told
  <2> QED
    BY <1>1, <1>2, <2>1, Stutters
<1>4. CASE ~broken
  <2>1. Told = "open" /\ Told' = "succeeded"
    BY <1>1, <1>4 DEF Told, WalkInv, Story
  <2>2. SucceededKeys = KeysOf(graph)
    <3>1. IsGraph(graph) /\ ValidGraph(graph)
      BY <1>1, GraphAssumption DEF Accepted
    <3>2. next - 1 = Len(order)
      BY <1>1, NextRange
    <3>3. Passed = {order[i].key : i \in 1 .. Len(order)}
      BY <3>2 DEF Passed
    <3>4. \A k \in KeysOf(graph) : \E i \in 1 .. Len(order) : order[i].key = k
      BY <1>1, <3>1, SortedNodes, SortedByEdges
    <3>5. \A i \in 1 .. Len(order) : order[i].key \in KeysOf(graph)
      BY OrderFacts DEF WalkInv
    <3> QED
      BY <1>4, <3>3, <3>4, <3>5, PassedSucceeded
  <2>3. Promise!KeysOf(graph) = KeysOf(graph)
    BY SameWords
  <2>4. Promise!Conclude
    BY <1>1, <1>2, <2>1, <2>2, <2>3 DEF Promise!Conclude, Told
  <2> QED
    BY <2>4 DEF Promise!Next
<1> QED
  BY <1>3, <1>4

\* Every step of the runner is one of the pipeline or none.
LEMMA StepImplements ==
    ASSUME WalkInv, UniqueKeys(graph), [Next]_vars
    PROVE  [Promise!Next]_(Promise!vars)
<1>0. 1 \in 1 .. MaxAttempts /\ attempt \in 1 .. MaxAttempts
  BY AttemptsAssumption DEF WalkInv, Typed
<1>1. CASE Parse
  BY <1>1, ParseImplements
<1>2. CASE Skip
  BY <1>0, <1>2, EmitImplements DEF Skip, Tells, StepStatus
<1>3. CASE Trigger \/ Transform
  BY <1>0, <1>3, EmitImplements DEF Trigger, Transform, Tells, StepStatus
<1>4. ASSUME NEW passed \in BOOLEAN, Filter(passed)
      PROVE  [Promise!Next]_(Promise!vars)
  <2>1. /\ AtNode /\ UNCHANGED <<graph, phase, order>>
        /\ \/ Emit("succeeded", 1) /\ Tells("succeeded")
           \/ Emit("failed", 1) /\ Tells("failed")
    BY <1>4 DEF Filter, Break, Tells
  <2> QED
    BY <1>0, <2>1, EmitImplements DEF StepStatus
<1>5. ASSUME NEW answer \in Answers, Dispatch(answer)
      PROVE  [Promise!Next]_(Promise!vars)
  <2>1. AtNode /\ UNCHANGED <<graph, phase, order>>
    BY <1>5 DEF Dispatch
  <2>2. CASE \/ Emit("succeeded", attempt) /\ Tells("succeeded")
             \/ Emit("failed", attempt) /\ Tells("failed")
    BY <1>0, <2>1, <2>2, EmitImplements DEF StepStatus
  <2>3. CASE UNCHANGED <<broken, status, steps>>
    BY <2>1, <2>3, Stutters DEF SucceededKeys, Told
  <2> QED
    BY <1>5, <2>2, <2>3 DEF Dispatch, Break, Tells
<1>6. CASE Return
  BY <1>6, ReturnImplements
<1>7. CASE Throw \/ Settle \/ UNCHANGED vars
  BY <1>7, Stutters DEF Throw, AtNode, Settle, vars, SucceededKeys, Told
<1> QED
  BY <1>1, <1>2, <1>3, <1>4, <1>5, <1>6, <1>7 DEF Next, Walk, Over

\* The runner starts where the pipeline does.
LEMMA PromiseStart == Init => Promise!Init
BY DEF Init, Promise!Init, SucceededKeys

\* If keys are unique, the runner implements the pipeline: it refuses exactly
\* what is no rooted DAG, does each node after all of its predecessors, and stops
\* for filters and failing actions only.
THEOREM ImplementsPipeline == UniqueKeys(graph) /\ Spec => PipelineSpec
<1> DEFINE Inv == WalkInv /\ UniqueKeys(graph)
<1>1. UniqueKeys(graph) /\ Init => Inv
  BY WalkStart
<1>2. Inv /\ [Next]_vars => Inv'
  <2> SUFFICES ASSUME Inv, [Next]_vars PROVE Inv'
    OBVIOUS
  <2>1. UniqueKeys(graph)'
    BY GraphStays DEF UniqueKeys
  <2> QED
    BY <2>1, WalkStep
<1>3. Inv /\ [Next]_vars => [Promise!Next]_(Promise!vars)
  BY StepImplements
<1> QED
  BY <1>1, <1>2, <1>3, PromiseStart, PTL DEF Spec, PipelineSpec, Promise!Spec

\* A graph that the walk goes along is a rooted DAG.
LEMMA AcceptedAreDags == WalkInv /\ UniqueKeys(graph) => AcceptedIsDag
<1> SUFFICES ASSUME WalkInv, UniqueKeys(graph), phase = "walk" PROVE RootedDag(graph)
  BY DEF AcceptedIsDag
<1>1. graph \in Accepted
  BY DEF WalkInv, Sorted
<1> QED
  BY <1>1, AcceptsRootedDags, GraphAssumption DEF Accepted

\* If keys are unique, no malformed graph reaches the runner.
THEOREM WalksRootedDags == UniqueKeys(graph) /\ Spec => []AcceptedIsDag
<1> DEFINE Inv == WalkInv /\ UniqueKeys(graph)
<1>1. UniqueKeys(graph) /\ Init => Inv
  BY WalkStart
<1>2. Inv /\ [Next]_vars => Inv'
  <2> SUFFICES ASSUME Inv, [Next]_vars PROVE Inv'
    OBVIOUS
  <2>1. UniqueKeys(graph)'
    BY GraphStays DEF UniqueKeys
  <2> QED
    BY <2>1, WalkStep
<1>3. Inv => AcceptedIsDag
  BY AcceptedAreDags
<1> QED
  BY <1>1, <1>2, <1>3, PTL DEF Spec
=============================================================================
