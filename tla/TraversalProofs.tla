--------------------------- MODULE TraversalProofs ---------------------------
(***************************************************************************)
(* The answers of bounded traversal, of the blast radius and of the recall  *)
(* that folds cross-store edges into a walk: what CrossFold checks of them, *)
(* for every graph, question and bound.                                     *)
(*                                                                         *)
(* A walk is followed with the distances it should find.  Distances are     *)
(* made from Ball, whose values are found by recursion on the hops, and     *)
(* are characterised once (MinsMean, MinsMeasure); the rest speaks of them  *)
(* only.  The invariant says of a walk under way that it met symbols in the *)
(* order of their distance and left nothing behind it unmarked (WalkOK), of *)
(* the seeds walked so far that their union is an honest answer to them     *)
(* (Complete), and of the ply that what it looked at is closed (FoldOK).    *)
(* What holds of a question, a walk and an answer is said of them as        *)
(* values, and only the last sections are about the variables.              *)
(***************************************************************************)
EXTENDS CrossFold, FiniteSetTheorems, SequenceTheorems, WellFoundedInduction, TLAPS

\* How far every symbol is from S by the edges a question follows; the hops from x; the
\* members of S that have a node; a list that comes in the order of f.
From(q, S)     == Mins(q.graph, S, q.dir, Cardinality(Ids))
OnwardOf(q, x) == Onward(q.graph, {x}, q.dir)
NodesIn(q, S)  == {x \in S : q.graph.kind[x] # "none"}
Sorted(f, xs)  == \A i, j \in 1..Len(xs) : i <= j => f[xs[i]] <= f[xs[j]]

\* Everything within a distance is in A, and nothing of A is more than a hop past it.
Layered(f, A) ==
    \E n \in 0..Cardinality(Ids) : \A x \in Ids : /\ x \in A => f[x] <= n + 1
                                                  /\ f[x] <= n => x \in A

\* The types of a walk.
WalkTyped(q, w) ==
    w \in [at : Ids, queue : Seq(Ids), todo : SUBSET q.graph.edges, seen : SUBSET Ids,
           capped : SUBSET Ids, nodes : Seq(Ids), edges : SUBSET q.graph.edges,
           depths : [Ids -> 0..Far], cap : BOOLEAN, horizon : BOOLEAN]

\* Whatever was seen was seen at its distance from s; what the cap left out was met.
WalkReaches(q, w, s) ==
    LET f == From(q, {s})
    IN /\ s \in w.seen
       /\ \A x \in Ids : w.depths[x] = IF x \in w.seen THEN f[x] ELSE Far
       /\ \A x \in w.seen : f[x] <= q.depth /\ f[x] # Far
       /\ w.capped \cap w.seen = {} /\ \A x \in w.capped : f[x] # Far
       /\ w.cap = (w.capped # {})
       /\ w.capped # {} => Len(w.nodes) >= q.cap

\* The queue comes by distance, and nothing was seen more than a hop past its head.
WalkQueues(q, w, s) ==
    LET f == From(q, {s})
    IN /\ ToSet(w.queue) \subseteq w.seen
       /\ Sorted(f, w.queue)
       /\ \A x \in ToSet(w.queue), y \in w.seen : f[y] <= f[x] + 1
       /\ w.todo # {} =>
             /\ w.at \in w.seen /\ w.todo \subseteq Incident(q.graph, w.at, q.dir)
             /\ f[w.at] < q.depth
             /\ \A x \in ToSet(w.queue) : f[w.at] <= f[x]
             /\ \A y \in w.seen : f[y] <= f[w.at] + 1

\* Of what left the queue every neighbour was seen, or is marked as left out.
WalkCloses(q, w, s) ==
    LET f == From(q, {s})
    IN /\ \A x \in w.seen \ ToSet(w.queue) : f[x] < q.depth =>
             \A e \in Incident(q.graph, x, q.dir) :
                \/ Advance(e, x, q.dir) \in w.seen \cup w.capped
                \/ x = w.at /\ e \in w.todo
       /\ \A x \in w.seen \ ToSet(w.queue) : f[x] >= q.depth /\ ~w.horizon =>
             OnwardOf(q, x) \subseteq w.seen \cup w.capped
       /\ w.capped # {} => Layered(f, w.seen)
       /\ w.horizon /\ w.capped = {} => \E x \in Ids : f[x] # Far /\ f[x] = q.depth + 1
       /\ ToSet(w.nodes) = NodesIn(q, w.seen) /\ Sorted(f, w.nodes)

WalkOK(q, w, s) == WalkTyped(q, w) /\ WalkReaches(q, w, s) /\ WalkQueues(q, w, s) /\ WalkCloses(q, w, s)

\* The types of an answer.
AnswerTyped(q, a) ==
    /\ a \in [nodes : Seq(Ids), edges : SUBSET q.graph.edges, depths : [Ids -> 0..Far],
              cap : BOOLEAN, horizon : BOOLEAN]

\* The union of the walks from T is honest about T.
Complete(q, a, T) ==
    LET f == From(q, T)
    IN /\ ~a.cap => \A x \in Ids : a.depths[x] = IF f[x] > q.depth THEN Far ELSE f[x]
       /\ ~a.cap /\ ~a.horizon => \A x \in Ids : f[x] = Far \/ f[x] <= q.depth
       /\ ToSet(a.nodes) = NodesIn(q, ReachedIn(a.depths))

\* The one walk of a question with one seed: the cap kept the nearest, and the horizon
\* is marked for something just past it.
OneSeed(q, a, s) ==
    LET f == From(q, {s})
    IN /\ \A x \in ReachedIn(a.depths) : a.depths[x] = f[x]
       /\ s \in ReachedIn(a.depths)
       /\ a.cap => /\ \E y \in Ids \ ReachedIn(a.depths) : f[y] # Far
                   /\ Layered(f, ReachedIn(a.depths))
       /\ ~a.cap /\ a.horizon => \E x \in Ids : f[x] # Far /\ f[x] = q.depth + 1
       /\ Sorted(f, a.nodes)

\* Who asks for what, and where the answer comes from.
AskInv ==
    /\ ask \in Questions
    /\ pc \in {"walk", "query", "blast", "fold", "anchors", "done"}
    /\ pc \in {"fold", "anchors"} => ask.use = "recall"
    /\ pc = "walk" => ask.engine = "memory" /\ ask.use # "blast"
    /\ pc = "query" => ask.engine = "sqlite" /\ ask.use # "blast"
    /\ pc = "blast" => ask.use = "blast"

\* The seeds walked so far are T; a walk under way adds its own; one seed is one walk.
Walked(q, left, w, a) ==
    /\ left \in Seq(Ids) /\ AnswerTyped(q, a)
    /\ \E T \in SUBSET Ids :
          /\ Complete(q, a, T)
          /\ w = NoWalk => ToSet(q.seeds) = T \cup ToSet(left)
          /\ w # NoWalk => \E s \in Ids : /\ ToSet(q.seeds) = T \cup {s} \cup ToSet(left)
                                          /\ WalkOK(q, w, s)
    /\ Len(q.seeds) = 1 => \/ left = q.seeds /\ w = NoWalk /\ a = NoAnswer
                           \/ left = <<>> /\ w # NoWalk /\ a = NoAnswer
                           \/ left = <<>> /\ w = NoWalk /\ OneSeed(q, a, q.seeds[1])

WalkInv == pc = "walk" => Walked(ask, seeds, walk, sub)

\* HasNode and DepthOf of a question and an answer; where answers come by depth.
IsNode(q, x)        == q.graph.kind[x] # "none"
DepthIn(q, a, x)    == IF x \in ToSet(q.seeds) THEN 0 ELSE a.depths[x]
Ordered(q)          == q.engine = "memory" /\ Len(q.seeds) = 1
DepthSorted(q, a, xs) ==
    \A i, j \in 1..Len(xs) : i <= j => DepthIn(q, a, xs[i]) <= DepthIn(q, a, xs[j])

\* The home's answer as the ply finds it.
AnsweredInv ==
    pc = "fold" => /\ AnswerTyped(ask, sub)
                   /\ \A x \in ToSet(sub.nodes) : IsNode(ask, x)
                   /\ Ordered(ask) => DepthSorted(ask, sub, sub.nodes)

\* Rows about the code as it is now; the code in an answer.
Valid(q, rows) == {r \in rows : IsNode(q, r.target) /\ r.epoch = LiveEpoch}
CodeIn(a)      == ToSet(a.nodes) \ Memories

\* The types of the ply and of its answer, and the budget.
FoldTyped(a, fo) ==
    /\ fo \in [anchors : Seq(Ids), at : Ids \cup {0}, todo : SUBSET Row, folded : SUBSET Memories]
    /\ Cardinality(fo.folded) <= MaxCross
    /\ a = [nodes |-> a.nodes, edges |-> a.edges, depths |-> a.depths, cap |-> a.cap, horizon |-> a.horizon]
    /\ a.nodes \in Seq(Ids) /\ a.depths \in [Ids -> 0..Far]

\* The memories shown are the ones folded, within the depth; an edge about code was
\* valid, and its memory is shown or was erased.
FoldShows(q, pool, a, fo) ==
    /\ ToSet(a.nodes) \cap Memories = fo.folded
    /\ \A x \in CodeIn(a) : IsNode(q, x)
    /\ ToSet(fo.anchors) \subseteq CodeIn(a)
    /\ \A r \in fo.todo : r.target = fo.at /\ IsNode(q, r.target)
    /\ fo.todo # {} => fo.at \in CodeIn(a)
    /\ \A e \in a.edges : e.kind = "about" =>
           IsNode(q, e.target) /\ (e.source \in ToSet(a.nodes) \/ e.source \notin pool)
    /\ \A m \in fo.folded : a.depths[m] <= q.depth

\* Without a mark, the rows about the code that was looked at are edges of the answer.
FoldCloses(q, rows, a, fo) ==
    ~a.cap /\ ~a.horizon =>
        \A r \in Valid(q, rows) : r.target \in CodeIn(a) \ ToSet(fo.anchors) =>
            r \in fo.todo \/ CoreEdge(r) \in a.edges

\* At the end, without the horizon mark, all the code a folded memory is about is there.
FoldEnds(q, rows, a, fo) ==
    /\ fo.todo = {} /\ fo.anchors = <<>>
    /\ ~a.horizon => \A r \in Valid(q, rows) : r.source \in fo.folded => r.target \in ToSet(a.nodes)

\* The anchors come by depth, so that a memory comes by its nearest code first.
FoldNears(q, rows, pool, a, fo) ==
    Ordered(q) =>
        /\ DepthSorted(q, a, fo.anchors)
        /\ fo.todo # {} => \A x \in ToSet(fo.anchors) : DepthIn(q, a, fo.at) <= DepthIn(q, a, x)
        /\ \A r \in Valid(q, rows) : r.target \in CodeIn(a) \ ToSet(fo.anchors) =>
              \/ r \in fo.todo \/ r.source \in ToSet(a.nodes) \/ r.source \notin pool
              \/ DepthIn(q, a, r.target) >= q.depth
              \/ fo.anchors = <<>> /\ fo.todo = {}
        /\ \A r \in Valid(q, rows) : r.target \in CodeIn(a) /\ r.source \in fo.folded \cap pool =>
              a.depths[r.source] <= DepthIn(q, a, r.target) + 1

\* The invariant of the ply.
FoldOK(q, rows, pool, a, fo) ==
    /\ FoldTyped(a, fo) /\ FoldShows(q, pool, a, fo) /\ FoldCloses(q, rows, a, fo)
    /\ FoldNears(q, rows, pool, a, fo)

FoldInv ==
    /\ xedges \subseteq Row /\ live \subseteq Memories
    /\ pc \in {"anchors", "done"} /\ ask.use = "recall" =>
          /\ FoldOK(ask, xedges, live, sub, fold)
          /\ pc = "done" => FoldEnds(ask, xedges, sub, fold)

-----------------------------------------------------------------------------
(* Numbers, and functions defined by recursion on them. *)

\* A set of numbers has a least one.
LEMMA LeastNumber ==
    ASSUME NEW T \in SUBSET Nat, T # {}
    PROVE  \E m \in T : \A n \in T : m <= n
<1>1. PICK m \in T : \A n \in T : <<n, m>> \notin OpToRel(<, Nat)
  BY NatLessThanWellFounded, WFMin
<1>2. \A n \in T : ~(n < m)
  BY <1>1 DEF OpToRel
<1>. QED BY <1>2

\* Induction, for a set.
LEMMA AllNumbers ==
    ASSUME NEW T, 0 \in T, \A n \in Nat : n \in T => n + 1 \in T
    PROVE  Nat \subseteq T
<1>1. SUFFICES ASSUME Nat \ T # {} PROVE FALSE
  OBVIOUS
<1>2. PICK m \in Nat \ T : \A n \in Nat \ T : m <= n
  BY <1>1, LeastNumber
<1>3. m # 0 /\ m - 1 \in Nat
  BY <1>2
<1>4. m - 1 \notin T
  BY <1>2, <1>3
<1>. QED BY <1>2, <1>3, <1>4

\* The values v, H[1][v], H[2][H[1][v]], ...
Iterates(F, V, v, H) ==
    F \in [Nat -> V] /\ F[0] = v /\ \A n \in Nat : F[n + 1] = H[n + 1][F[n]]

\* A first value and a step from each value to the next make a sequence of values.
LEMMA RecursionExists ==
    ASSUME NEW V, NEW v \in V, NEW H \in [Nat -> [V -> V]]
    PROVE  \E F : Iterates(F, V, v, H)
<1> DEFINE Upto(n, g) == g[0] = v /\ \A i \in 0..(n - 1) : g[i + 1] = H[i + 1][g[i]]
           T == {n \in Nat : \E g \in [0..n -> V] : Upto(n, g)}
           At(n) == CHOOSE g \in [0..n -> V] : Upto(n, g)
           F == [n \in Nat |-> At(n)[n]]
<1>1. 0 \in T
  <2>1. [i \in 0..0 |-> v] \in [0..0 -> V] /\ Upto(0, [i \in 0..0 |-> v])
    OBVIOUS
  <2>. QED BY <2>1
<1>2. ASSUME NEW n \in Nat, n \in T PROVE n + 1 \in T
  <2>1. PICK g \in [0..n -> V] : Upto(n, g)
    BY <1>2
  <2> DEFINE h == [i \in 0..(n + 1) |-> IF i = n + 1 THEN H[n + 1][g[n]] ELSE g[i]]
  <2>2. g[n] \in V /\ H[n + 1] \in [V -> V] /\ H[n + 1][g[n]] \in V
    OBVIOUS
  <2>3. h \in [0..(n + 1) -> V]
    BY <2>2
  <2>4. h[0] = v
    BY <2>1
  <2>5. ASSUME NEW i \in 0..n PROVE h[i + 1] = H[i + 1][h[i]]
    <3>1. CASE i = n
      BY <3>1
    <3>2. CASE i # n
      <4>1. i \in 0..(n - 1)
        BY <3>2
      <4>. QED BY <2>1, <4>1
    <3>. QED BY <3>1, <3>2
  <2> HIDE DEF h
  <2>6. Upto(n + 1, h)
    BY <2>4, <2>5
  <2> HIDE DEF Upto
  <2>. QED BY <2>3, <2>6
<1>3. Nat \subseteq T
  <2> HIDE DEF T
  <2>. QED BY <1>1, <1>2, AllNumbers
<1>4. \A n \in Nat : At(n) \in [0..n -> V] /\ Upto(n, At(n))
  <2> HIDE DEF Upto
  <2>. QED BY <1>3
<1>5. ASSUME NEW n \in Nat PROVE At(n + 1)[n] = At(n)[n]
  <2> DEFINE a == At(n)
             b == At(n + 1)
             U == {i \in Nat : i <= n => b[i] = a[i]}
  <2>1. Upto(n, a) /\ Upto(n + 1, b)
    <3> HIDE DEF At, Upto
    <3>. QED BY <1>4
  <2> HIDE DEF a, b
  <2>2. 0 \in U
    BY <2>1
  <2>3. \A i \in Nat : i \in U => i + 1 \in U
    BY <2>1
  <2>4. Nat \subseteq U
    <3> HIDE DEF U
    <3>. QED BY <2>2, <2>3, AllNumbers
  <2>5. b[n] = a[n]
    BY <2>4
  <2>. QED BY <2>5 DEF a, b
<1>6. F \in [Nat -> V]
  <2>1. \A n \in Nat : At(n)[n] \in V
    <3> HIDE DEF At
    <3>. QED BY <1>4
  <2> HIDE DEF At
  <2>. QED BY <2>1
<1>7. F[0] = v
  <2>1. At(0)[0] = v
    <3> HIDE DEF At
    <3>. QED BY <1>4
  <2> HIDE DEF At
  <2>. QED BY <2>1
<1>8. ASSUME NEW n \in Nat PROVE F[n + 1] = H[n + 1][F[n]]
  <2>1. At(n + 1)[n + 1] = H[n + 1][At(n + 1)[n]]
    <3>1. Upto(n + 1, At(n + 1))
      <4> HIDE DEF At, Upto
      <4>. QED BY <1>4
    <3> HIDE DEF At
    <3>. QED BY <3>1
  <2> HIDE DEF At
  <2>. QED BY <1>5, <2>1
<1> HIDE DEF F
<1>. QED BY <1>6, <1>7, <1>8 DEF Iterates

-----------------------------------------------------------------------------
(* Balls around a set of symbols. *)

\* The symbols are finitely many.
LEMMA IdsAreCounted == Cardinality(Ids) \in Nat /\ Far \in Nat /\ Far = Cardinality(Ids) + 1
  BY IdsAreNumbered, FS_CardinalityType DEF Far

\* An edge leads to a symbol.
LEMMA AdvanceIsId ==
    ASSUME NEW e \in Edge, NEW x \in Ids, NEW dir \in Directions
    PROVE  Advance(e, x, dir) \in Ids
  BY DEF Edge, Directions, Advance

\* The hops from a set are those from its members.
LEMMA OnwardOfSet ==
    ASSUME NEW G, G.edges \subseteq Edge, NEW S \in SUBSET Ids, NEW dir \in Directions
    PROVE  /\ Onward(G, S, dir) \subseteq Ids
           /\ \A y : y \in Onward(G, S, dir) <=> \E x \in S : y \in Onward(G, {x}, dir)
<1>1. \A x \in S : Incident(G, x, dir) \subseteq Edge
  BY DEF Incident
<1>2. \A x \in S : \A e \in Incident(G, x, dir) : Advance(e, x, dir) \in Ids
  BY <1>1, AdvanceIsId
<1>3. Onward(G, S, dir) \subseteq Ids
  BY <1>2 DEF Onward
<1>4. \A y : y \in Onward(G, S, dir) <=> \E x \in S : y \in Onward(G, {x}, dir)
  BY DEF Onward
<1>. QED BY <1>3, <1>4

\* A hop is along an edge.
LEMMA OnwardOfEdges ==
    ASSUME NEW G, NEW x, NEW dir
    PROVE  \A y : y \in Onward(G, {x}, dir) <=> \E e \in Incident(G, x, dir) : y = Advance(e, x, dir)
  BY DEF Onward

\* The recursion of Ball.
LEMMA BallUnfolds ==
    ASSUME NEW G, G.edges \subseteq Edge, NEW S \in SUBSET Ids, NEW dir \in Directions
    PROVE  /\ Ball(G, S, dir) \in [Nat -> SUBSET Ids]
           /\ Ball(G, S, dir)[0] = S
           /\ \A n \in Nat : Ball(G, S, dir)[n + 1] = Meets(G, Ball(G, S, dir)[n], dir)
<1> DEFINE V == SUBSET Ids
           H == [n \in Nat |-> [T \in V |-> Meets(G, T, dir)]]
           Body(f) == [i \in Nat |-> IF i = 0 THEN S ELSE Meets(G, f[i - 1], dir)]
<1>1. \A T \in V : Meets(G, T, dir) \in V
  BY OnwardOfSet DEF Meets
<1>2. H \in [Nat -> [V -> V]] /\ \A n \in Nat : \A T \in V : H[n][T] = Meets(G, T, dir)
  BY <1>1
<1> HIDE DEF H
<1>3. PICK F : Iterates(F, V, S, H)
  <2>1. S \in V /\ H \in [Nat -> [V -> V]]
    BY <1>2
  <2> HIDE DEF V
  <2>. QED BY <2>1, RecursionExists
<1>3a. F \in [Nat -> V] /\ F[0] = S /\ \A n \in Nat : F[n + 1] = H[n + 1][F[n]]
  BY <1>3 DEF Iterates
<1>4. \A n \in Nat : F[n + 1] = Meets(G, F[n], dir)
  BY <1>2, <1>3a, SMTT(30)
<1>5. F = Body(F)
  <2>1. \A i \in Nat : F[i] = IF i = 0 THEN S ELSE Meets(G, F[i - 1], dir)
    <3> SUFFICES ASSUME NEW i \in Nat, i # 0 PROVE F[i] = Meets(G, F[i - 1], dir)
      BY <1>3a
    <3>1. i - 1 \in Nat /\ (i - 1) + 1 = i
      OBVIOUS
    <3>. QED BY <1>4, <3>1
  <2>2. F = [i \in Nat |-> F[i]]
    BY <1>3a
  <2>. QED BY <2>1, <2>2
<1>6. Ball(G, S, dir) = CHOOSE f : f = Body(f)
  BY DEF Ball
<1>7. Ball(G, S, dir) = Body(Ball(G, S, dir))
  <2> HIDE DEF Body
  <2>. QED BY <1>5, <1>6
<1> DEFINE B == Ball(G, S, dir)
<1>8. B[0] = S /\ \A n \in Nat : B[n + 1] = Meets(G, B[n], dir)
  <2> HIDE DEF B
  <2>1. B = Body(B)
    BY <1>7 DEF B
  <2>2. \A n \in Nat : n + 1 # 0 /\ n + 1 \in Nat /\ (n + 1) - 1 = n
    OBVIOUS
  <2>. QED BY <2>1, <2>2
<1>9. \A n \in Nat : B[n] \in V
  <2> DEFINE T == {n \in Nat : B[n] \in V}
  <2> HIDE DEF B
  <2>1. 0 \in T
    BY <1>8
  <2>2. \A n \in Nat : n \in T => n + 1 \in T
    BY <1>1, <1>8
  <2>3. Nat \subseteq T
    <3> HIDE DEF T
    <3>. QED BY <2>1, <2>2, AllNumbers
  <2>. QED BY <2>3
<1>10. B = [i \in Nat |-> B[i]]
  <2> HIDE DEF B
  <2>1. B = Body(B)
    BY <1>7 DEF B
  <2>. QED BY <2>1
<1>11. B \in [Nat -> V]
  <2> HIDE DEF B
  <2>. QED BY <1>9, <1>10
<1>. QED BY <1>8, <1>11

\* More hops meet more.
LEMMA BallsGrow ==
    ASSUME NEW G, G.edges \subseteq Edge, NEW S \in SUBSET Ids, NEW dir \in Directions,
           NEW i \in Nat, NEW j \in Nat, i <= j
    PROVE  Ball(G, S, dir)[i] \subseteq Ball(G, S, dir)[j]
<1> DEFINE B == Ball(G, S, dir)
           T == {n \in Nat : B[i] \subseteq B[i + n]}
<1>1. \A n \in Nat : B[n] \subseteq B[n + 1]
  BY BallUnfolds DEF Meets
<1> HIDE DEF B
<1>2. 0 \in T
  BY DEF T
<1>3. \A n \in Nat : n \in T => n + 1 \in T
  <2> SUFFICES ASSUME NEW n \in Nat, n \in T PROVE n + 1 \in T
    OBVIOUS
  <2>1. i + n \in Nat /\ (i + n) + 1 = i + (n + 1)
    OBVIOUS
  <2>2. B[i + n] \subseteq B[i + (n + 1)]
    BY <1>1, <2>1
  <2>. QED BY <2>2
<1>4. Nat \subseteq T
  <2> HIDE DEF T
  <2>. QED BY <1>2, <1>3, AllNumbers
<1>5. j - i \in Nat /\ i + (j - i) = j
  OBVIOUS
<1>6. B[i] \subseteq B[i + (j - i)]
  BY <1>4, <1>5
<1>. QED BY <1>5, <1>6 DEF B

\* Each hop that meets something new has a larger ball behind it, so no more hops
\* meet anything than there are symbols.
LEMMA BallsFill ==
    ASSUME NEW G, G.edges \subseteq Edge, NEW S \in SUBSET Ids, NEW dir \in Directions,
           NEW i \in Nat, Ball(G, S, dir)[i + 1] # Ball(G, S, dir)[i]
    PROVE  i + 1 < Cardinality(Ids)
<1> DEFINE B == Ball(G, S, dir)
           T == {n \in Nat : B[n + 1] # B[n] => Cardinality(B[n]) >= n + 1}
<1>1. /\ B \in [Nat -> SUBSET Ids] /\ B[0] = S
      /\ \A n \in Nat : B[n + 1] = Meets(G, B[n], dir)
  BY BallUnfolds
<1>2. \A n \in Nat : B[n] \subseteq B[n + 1]
  BY <1>1 DEF Meets
<1>3. \A n \in Nat : B[n + 1] = B[n] => B[(n + 1) + 1] = B[n + 1]
  BY <1>1
<1> HIDE DEF B
<1>4. \A n \in Nat : IsFiniteSet(B[n]) /\ Cardinality(B[n]) \in Nat
  BY <1>1, IdsAreNumbered, FS_Subset, FS_CardinalityType
<1>5. ASSUME NEW n \in Nat, B[n + 1] # B[n] PROVE Cardinality(B[n + 1]) >= Cardinality(B[n]) + 1
  <2>1. n + 1 \in Nat
    OBVIOUS
  <2>2. /\ B[n] \in SUBSET B[n + 1] /\ IsFiniteSet(B[n + 1])
        /\ Cardinality(B[n]) \in Nat /\ Cardinality(B[n + 1]) \in Nat
    BY <1>2, <1>4, <2>1
  <2>3. Cardinality(B[n]) <= Cardinality(B[n + 1])
    BY <2>2, FS_Subset
  <2>4. Cardinality(B[n]) # Cardinality(B[n + 1])
    BY <1>5, <2>2, FS_Subset
  <2>. QED BY <2>2, <2>3, <2>4
<1>6. 0 \in T
  <2>1. SUFFICES ASSUME B[0 + 1] # B[0] PROVE Cardinality(B[0]) >= 1
    OBVIOUS
  <2>2. B[0] # {}
    <3>1. SUFFICES ASSUME B[0] = {} PROVE FALSE
      OBVIOUS
    <3>2. Onward(G, {}, dir) = {}
      BY DEF Onward
    <3>3. B[0 + 1] = Meets(G, B[0], dir)
      BY <1>1
    <3>. QED BY <2>1, <3>1, <3>2, <3>3 DEF Meets
  <2>. QED BY <1>4, <2>2, FS_EmptySet
<1>7. ASSUME NEW n \in Nat, n \in T PROVE n + 1 \in T
  <2>1. SUFFICES ASSUME B[(n + 1) + 1] # B[n + 1] PROVE Cardinality(B[n + 1]) >= (n + 1) + 1
    OBVIOUS
  <2>2. B[n + 1] # B[n]
    BY <1>3, <2>1
  <2>3. Cardinality(B[n]) >= n + 1
    BY <1>7, <2>2
  <2>4. n + 1 \in Nat /\ Cardinality(B[n]) \in Nat /\ Cardinality(B[n + 1]) \in Nat
    BY <1>4
  <2>5. Cardinality(B[n + 1]) >= Cardinality(B[n]) + 1
    BY <1>5, <2>2
  <2>. QED BY <2>3, <2>4, <2>5
<1>8. Nat \subseteq T
  <2> HIDE DEF T
  <2>. QED BY <1>6, <1>7, AllNumbers
<1>9. B[i + 1] # B[i]
  BY DEF B
<1>10. Cardinality(B[i]) >= i + 1
  BY <1>8, <1>9
<1>11. Cardinality(B[i + 1]) >= Cardinality(B[i]) + 1
  BY <1>5, <1>9
<1>12. i + 1 \in Nat /\ B[i + 1] \in SUBSET Ids
  BY <1>1
<1>13. Cardinality(B[i + 1]) <= Cardinality(Ids)
  BY <1>12, IdsAreNumbered, FS_Subset
<1>14. Cardinality(B[i]) \in Nat /\ Cardinality(B[i + 1]) \in Nat
  BY <1>4, <1>12
<1>. QED BY <1>10, <1>11, <1>13, <1>14, IdsAreCounted

-----------------------------------------------------------------------------
(* Distances. *)

\* f is the distance of every symbol from S.
Measures(f, G, S, dir) ==
    /\ f \in [Ids -> 0..Far]
    /\ \A x \in Ids : f[x] = 0 <=> x \in S
    /\ \A x \in Ids : f[x] # Far => f[x] < Cardinality(Ids)
    /\ \A x \in Ids : f[x] # Far =>
          \A y \in Onward(G, {x}, dir) : f[y] # Far /\ f[y] <= f[x] + 1
    /\ \A y \in Ids : f[y] # Far /\ f[y] # 0 =>
          \E x \in Ids : f[x] = f[y] - 1 /\ y \in Onward(G, {x}, dir)

\* The depth at which a walk of k hops first meets a symbol.
LEMMA MinsMean ==
    ASSUME NEW G, G.edges \subseteq Edge, NEW S \in SUBSET Ids, NEW dir \in Directions,
           NEW k \in Nat, NEW x \in Ids, NEW B, B = Ball(G, S, dir)
    PROVE  \/ (\A i \in 0..k : x \notin B[i]) /\ Mins(G, S, dir, k)[x] = Far
           \/ /\ Mins(G, S, dir, k)[x] \in 0..k /\ x \in B[Mins(G, S, dir, k)[x]]
              /\ \A j \in Nat : j < Mins(G, S, dir, k)[x] => x \notin B[j]
              /\ Mins(G, S, dir, k)[x] < Cardinality(Ids)
<1> DEFINE m == Mins(G, S, dir, k)[x]
           First(i) == x \in B[i] /\ \A j \in 0..(i - 1) : x \notin B[j]
<1>1. m = IF x \in B[k] THEN CHOOSE i \in 0..k : First(i) ELSE Far
  BY DEF Mins
<1>2. \A i, j \in Nat : i <= j => B[i] \subseteq B[j]
  BY BallsGrow
<1>3. CASE x \notin B[k]
  BY <1>1, <1>2, <1>3
<1>4. CASE x \in B[k]
  <2> DEFINE T == {i \in Nat : x \in B[i]}
  <2>1. T \in SUBSET Nat /\ k \in T
    BY <1>4
  <2>2. PICK i \in T : \A j \in T : i <= j
    <3> HIDE DEF T
    <3>. QED BY <2>1, LeastNumber
  <2>3. i \in 0..k /\ First(i)
    BY <2>1, <2>2
  <2>4. m \in 0..k /\ First(m)
    <3> HIDE DEF First, m
    <3>. QED BY <1>1, <1>4, <2>3
  <2>5. \A j \in Nat : j < m => x \notin B[j]
    <3> HIDE DEF m
    <3>. QED BY <2>4
  <2>6. m < Cardinality(Ids)
    <3>1. CASE m = 0
      <4>1. IsFiniteSet(Ids) /\ Ids # {}
        BY IdsAreNumbered
      <4>2. Cardinality(Ids) # 0
        BY <4>1, FS_EmptySet
      <4> HIDE DEF m
      <4>. QED BY <3>1, <4>2, IdsAreCounted
    <3>2. CASE m # 0
      <4> HIDE DEF m
      <4>1. m - 1 \in Nat /\ (m - 1) + 1 = m
        BY <2>4, <3>2
      <4>2. B[(m - 1) + 1] # B[m - 1]
        BY <2>4, <2>5, <4>1
      <4>. QED BY <4>1, <4>2, BallsFill
    <3>. QED BY <3>1, <3>2
  <2> HIDE DEF m
  <2>7. x \in B[m]
    BY <2>4
  <2>. QED BY <2>4, <2>5, <2>6, <2>7 DEF m
<1>. QED BY <1>3, <1>4

\* A walk of as many hops as there are symbols finds the distances.
LEMMA MinsMeasure ==
    ASSUME NEW G, G.edges \subseteq Edge, NEW S \in SUBSET Ids, NEW dir \in Directions
    PROVE  Measures(Mins(G, S, dir, Cardinality(Ids)), G, S, dir)
<1> DEFINE n == Cardinality(Ids)
           f == Mins(G, S, dir, n)
           B == Ball(G, S, dir)
<1>0. n \in Nat /\ Far = n + 1
  BY IdsAreCounted
<1>1. /\ B \in [Nat -> SUBSET Ids] /\ B[0] = S
      /\ \A i \in Nat : B[i + 1] = Meets(G, B[i], dir)
  BY BallUnfolds
<1>2. \A x \in Ids : \/ (\A i \in 0..n : x \notin B[i]) /\ f[x] = Far
                     \/ /\ f[x] \in 0..n /\ x \in B[f[x]] /\ f[x] < n
                        /\ \A j \in Nat : j < f[x] => x \notin B[j]
  <2> SUFFICES ASSUME NEW x \in Ids
               PROVE  \/ (\A i \in 0..n : x \notin B[i]) /\ f[x] = Far
                      \/ /\ f[x] \in 0..n /\ x \in B[f[x]] /\ f[x] < n
                         /\ \A j \in Nat : j < f[x] => x \notin B[j]
    OBVIOUS
  <2>. QED BY MinsMean, <1>0
<1>3. f = [x \in Ids |-> f[x]]
  BY DEF Mins
<1>4. \A T \in SUBSET Ids : \A y : y \in Meets(G, T, dir) <=>
          y \in T \/ \E x \in T : y \in Onward(G, {x}, dir)
  BY OnwardOfSet DEF Meets
<1>5. \A T \in SUBSET Ids : Onward(G, T, dir) \subseteq Ids
  BY OnwardOfSet
<1> HIDE DEF f, B, n
<1>6. f \in [Ids -> 0..Far]
  <2>1. \A x \in Ids : f[x] \in 0..Far
    BY <1>0, <1>2
  <2>. QED BY <1>3, <2>1
<1>7. \A x \in Ids : f[x] = 0 <=> x \in S
  BY <1>0, <1>1, <1>2
<1>8. \A x \in Ids : f[x] # Far => f[x] < n
  BY <1>0, <1>2
<1>9. ASSUME NEW x \in Ids, f[x] # Far, NEW y \in Onward(G, {x}, dir)
      PROVE  f[y] # Far /\ f[y] <= f[x] + 1
  <2>1. f[x] \in Nat /\ x \in B[f[x]] /\ f[x] < n
    BY <1>0, <1>2, <1>9
  <2>2. f[x] + 1 \in 0..n /\ f[x] + 1 \in Nat
    BY <1>0, <2>1
  <2>3. B[f[x] + 1] = Meets(G, B[f[x]], dir) /\ B[f[x]] \in SUBSET Ids
    BY <1>1, <2>1
  <2>4. y \in B[f[x] + 1]
    BY <1>4, <2>1, <2>3
  <2>5. y \in Ids
    BY <1>5
  <2>6. f[y] # Far
    BY <1>0, <1>2, <2>2, <2>4, <2>5
  <2>7. ~(f[x] + 1 < f[y])
    BY <1>2, <2>2, <2>4, <2>5, <2>6
  <2>. QED BY <1>0, <1>2, <2>2, <2>5, <2>6, <2>7
<1>10. ASSUME NEW y \in Ids, f[y] # Far, f[y] # 0
       PROVE  \E x \in Ids : f[x] = f[y] - 1 /\ y \in Onward(G, {x}, dir)
  <2> DEFINE i == f[y] - 1
  <2>1. /\ f[y] \in Nat /\ f[y] # 0 /\ y \in B[f[y]] /\ f[y] < n
        /\ \A j \in Nat : j < f[y] => y \notin B[j]
    BY <1>0, <1>2, <1>10
  <2>2. i \in Nat /\ i + 1 = f[y] /\ i \in 0..n /\ i < f[y]
    BY <1>0, <2>1
  <2> HIDE DEF i
  <2>3. B[i + 1] = Meets(G, B[i], dir) /\ B[i] \in SUBSET Ids
    BY <1>1, <2>2
  <2>4. y \in B[i + 1] /\ y \notin B[i]
    BY <2>1, <2>2
  <2>5. PICK x \in B[i] : y \in Onward(G, {x}, dir)
    BY <1>4, <2>3, <2>4
  <2>6. x \in Ids /\ f[x] # Far /\ f[x] \in Nat
    BY <1>0, <1>2, <2>2, <2>3, <2>5
  <2>7. f[x] <= i
    BY <1>2, <2>2, <2>5, <2>6
  <2>8. f[y] <= f[x] + 1
    BY <1>9, <2>5, <2>6
  <2>9. f[x] = f[y] - 1
    BY <2>1, <2>2, <2>6, <2>7, <2>8
  <2>. QED BY <2>5, <2>6, <2>9
<1> USE DEF n
<1>11. Measures(f, G, S, dir)
  BY <1>6, <1>7, <1>8, <1>9, <1>10 DEF Measures
<1>. QED BY <1>11 DEF f

\* A walk of fewer hops sees the same distances, as far as it goes.
LEMMA MinsAt ==
    ASSUME NEW G, G.edges \subseteq Edge, NEW S \in SUBSET Ids, NEW dir \in Directions,
           NEW k \in Nat, NEW x \in Ids,
           NEW f, f = Mins(G, S, dir, Cardinality(Ids))
    PROVE  Mins(G, S, dir, k)[x] = IF f[x] > k THEN Far ELSE f[x]
<1> DEFINE B == Ball(G, S, dir)
           n == Cardinality(Ids)
           m == Mins(G, S, dir, k)[x]
<1>0. n \in Nat /\ Far = n + 1
  BY IdsAreCounted
<1>1. \/ (\A i \in 0..k : x \notin B[i]) /\ m = Far
      \/ /\ m \in 0..k /\ x \in B[m] /\ m < n
         /\ \A j \in Nat : j < m => x \notin B[j]
  BY MinsMean
<1>2. \/ (\A i \in 0..n : x \notin B[i]) /\ f[x] = Far
      \/ /\ f[x] \in 0..n /\ x \in B[f[x]] /\ f[x] < n
         /\ \A j \in Nat : j < f[x] => x \notin B[j]
  BY MinsMean, <1>0
<1> HIDE DEF m, n, B
<1>3. CASE m # Far
  <2>1. m \in Nat /\ m \in 0..n /\ m \in 0..k /\ x \in B[m] /\ \A j \in Nat : j < m => x \notin B[j]
    BY <1>0, <1>1, <1>3
  <2>2. f[x] \in Nat /\ x \in B[f[x]] /\ \A j \in Nat : j < f[x] => x \notin B[j]
    BY <1>0, <1>2, <2>1
  <2>3. ~(m < f[x]) /\ ~(f[x] < m)
    BY <2>1, <2>2
  <2>4. m = f[x]
    BY <2>1, <2>2, <2>3
  <2>. QED BY <2>1, <2>4 DEF m
<1>4. CASE m = Far
  <2>1. \A i \in 0..k : x \notin B[i]
    BY <1>0, <1>1, <1>4
  <2>2. f[x] # Far => f[x] > k
    BY <1>0, <1>2, <2>1
  <2>. QED BY <1>4, <2>2 DEF m
<1>. QED BY <1>3, <1>4

\* Depths are numbers up to Far.
LEMMA MinsTyped ==
    ASSUME NEW G, G.edges \subseteq Edge, NEW S \in SUBSET Ids, NEW dir \in Directions, NEW k \in Nat
    PROVE  Mins(G, S, dir, k) \in [Ids -> 0..Far]
<1> DEFINE m == Mins(G, S, dir, k)
<1>1. m = [x \in Ids |-> m[x]]
  BY DEF Mins
<1>2. \A x \in Ids : m[x] \in 0..Far
  <2> SUFFICES ASSUME NEW x \in Ids PROVE m[x] \in 0..Far
    OBVIOUS
  <2>1. m[x] = Far \/ (m[x] \in 0..k /\ m[x] < Cardinality(Ids))
    BY MinsMean
  <2> HIDE DEF m
  <2>. QED BY <2>1, IdsAreCounted
<1> HIDE DEF m
<1>3. m \in [Ids -> 0..Far]
  BY <1>1, <1>2
<1>. QED BY <1>3 DEF m

\* The distance from two sets together is the smaller of the two.
LEMMA MeasuresOfUnion ==
    ASSUME NEW G, G.edges \subseteq Edge, NEW dir \in Directions, NEW S \in SUBSET Ids, NEW T \in SUBSET Ids,
           NEW f, Measures(f, G, S, dir), NEW g, Measures(g, G, T, dir),
           NEW h, Measures(h, G, S \cup T, dir), NEW x \in Ids
    PROVE  h[x] = Smaller(f[x], g[x])
<1>0. Cardinality(Ids) \in Nat /\ Far = Cardinality(Ids) + 1
  BY IdsAreCounted
<1>1. ASSUME NEW k, NEW F, NEW U \in SUBSET Ids, NEW W \in SUBSET Ids, U \subseteq W,
             Measures(F, G, U, dir), Measures(k, G, W, dir), NEW y \in Ids
      PROVE  k[y] <= F[y]
  <2> DEFINE P == {i \in Nat : \A z \in Ids : F[z] = i /\ i # Far => k[z] <= i}
  <2>1. F \in [Ids -> 0..Far] /\ k \in [Ids -> 0..Far]
    BY <1>1 DEF Measures
  <2>2. 0 \in P
    BY <1>1, <2>1 DEF Measures
  <2>3. ASSUME NEW i \in Nat, i \in P PROVE i + 1 \in P
    <3>1. SUFFICES ASSUME NEW z \in Ids, F[z] = i + 1, i + 1 # Far PROVE k[z] <= i + 1
      OBVIOUS
    <3>1a. F[z] # Far /\ F[z] # 0
      BY <3>1
    <3>2. PICK w \in Ids : F[w] = F[z] - 1 /\ z \in Onward(G, {w}, dir)
      <4>1. Measures(F, G, U, dir)
        BY <1>1
      <4>. QED BY <3>1a, <4>1 DEF Measures
    <3>3. F[w] = i /\ i # Far
      BY <1>0, <1>1, <2>1, <3>1, <3>2 DEF Measures
    <3>4. k[w] <= i
      BY <2>3, <3>3
    <3>5. F[z] <= Far
      BY <2>1, <1>0
    <3>6. k[w] # Far /\ k[w] \in Nat
      BY <1>0, <2>1, <3>1, <3>3, <3>4, <3>5
    <3>7. k[z] <= k[w] + 1 /\ k[z] \in Nat
      BY <1>1, <2>1, <3>2, <3>6 DEF Measures
    <3>. QED BY <3>4, <3>6, <3>7
  <2>4. Nat \subseteq P
    <3> HIDE DEF P
    <3>. QED BY <2>2, <2>3, AllNumbers
  <2>5. F[y] \in Nat /\ k[y] \in 0..Far
    BY <2>1
  <2>6. CASE F[y] = Far
    BY <1>0, <2>5, <2>6
  <2>7. CASE F[y] # Far
    BY <2>4, <2>5, <2>7
  <2>. QED BY <2>6, <2>7
<1>2. h[x] <= f[x] /\ h[x] <= g[x]
  BY <1>1
<1>3. f \in [Ids -> 0..Far] /\ g \in [Ids -> 0..Far] /\ h \in [Ids -> 0..Far]
  BY DEF Measures
<1> DEFINE Q == {i \in Nat : \A z \in Ids : h[z] = i /\ i # Far => f[z] <= i \/ g[z] <= i}
<1>4. 0 \in Q
  BY <1>3 DEF Measures
<1>5. ASSUME NEW i \in Nat, i \in Q PROVE i + 1 \in Q
  <2>1. SUFFICES ASSUME NEW z \in Ids, h[z] = i + 1, i + 1 # Far PROVE f[z] <= i + 1 \/ g[z] <= i + 1
    OBVIOUS
  <2>1a. h[z] # Far /\ h[z] # 0
    BY <2>1
  <2>2. PICK w \in Ids : h[w] = h[z] - 1 /\ z \in Onward(G, {w}, dir)
    BY <2>1a DEF Measures
  <2>3. h[z] <= Far
    BY <1>0, <1>3
  <2>4. h[w] = i /\ i # Far /\ i < Far
    BY <1>0, <1>3, <2>1, <2>2, <2>3
  <2>5. f[w] <= i \/ g[w] <= i
    BY <1>5, <2>4
  <2>6. f[w] \in Nat /\ g[w] \in Nat /\ f[z] \in Nat /\ g[z] \in Nat
    BY <1>3
  <2>7. f[w] <= i => f[z] <= f[w] + 1
    BY <1>0, <2>2, <2>4, <2>6 DEF Measures
  <2>8. g[w] <= i => g[z] <= g[w] + 1
    BY <1>0, <2>2, <2>4, <2>6 DEF Measures
  <2>. QED BY <2>5, <2>6, <2>7, <2>8
<1>6. Nat \subseteq Q
  <2> HIDE DEF Q
  <2>. QED BY <1>4, <1>5, AllNumbers
<1>7. f[x] \in 0..Far /\ g[x] \in 0..Far /\ h[x] \in 0..Far
  BY <1>3
<1>8. h[x] # Far => f[x] <= h[x] \/ g[x] <= h[x]
  BY <1>6, <1>7
<1>. QED BY <1>0, <1>2, <1>7, <1>8 DEF Smaller

\* What holds S and is closed under hops as far as n holds everything within n.
LEMMA ClosedIsFull ==
    ASSUME NEW G, G.edges \subseteq Edge, NEW dir \in Directions, NEW S \in SUBSET Ids,
           NEW f, Measures(f, G, S, dir), NEW A \in SUBSET Ids, S \subseteq A, NEW n \in Nat,
           \A x \in A : f[x] < n => Onward(G, {x}, dir) \subseteq A
    PROVE  \A x \in Ids : f[x] # Far /\ f[x] <= n => x \in A
<1> DEFINE P == {i \in Nat : \A z \in Ids : f[z] = i /\ i # Far /\ i <= n => z \in A}
<1>1. f \in [Ids -> 0..Far]
  BY DEF Measures
<1>2. 0 \in P
  BY DEF Measures
<1>3. ASSUME NEW i \in Nat, i \in P PROVE i + 1 \in P
  <2>1. SUFFICES ASSUME NEW z \in Ids, f[z] = i + 1, i + 1 # Far, i + 1 <= n PROVE z \in A
    OBVIOUS
  <2>2. f[z] # Far /\ f[z] # 0
    BY <2>1
  <2>3. PICK w \in Ids : f[w] = f[z] - 1 /\ z \in Onward(G, {w}, dir)
    BY <2>2 DEF Measures
  <2>4. f[z] <= Far /\ Far \in Nat
    BY <1>1, IdsAreCounted
  <2>5. f[w] = i /\ i # Far /\ i < n
    BY <2>1, <2>3, <2>4
  <2>6. w \in A
    BY <1>3, <2>5
  <2>. QED BY <2>3, <2>5, <2>6
<1>4. Nat \subseteq P
  <2> HIDE DEF P
  <2>. QED BY <1>2, <1>3, AllNumbers
<1>5. \A x \in Ids : f[x] \in Nat
  BY <1>1, IdsAreCounted
<1>. QED BY <1>4, <1>5

\* What holds S and is closed under hops holds everything that can be reached.
LEMMA ClosedIsWhole ==
    ASSUME NEW G, G.edges \subseteq Edge, NEW dir \in Directions, NEW S \in SUBSET Ids,
           NEW f, Measures(f, G, S, dir), NEW A \in SUBSET Ids, S \subseteq A,
           \A x \in A : Onward(G, {x}, dir) \subseteq A
    PROVE  \A x \in Ids : f[x] # Far => x \in A
<1>1. Far \in Nat
  BY IdsAreCounted
<1>2. \A x \in Ids : f[x] # Far /\ f[x] <= Far => x \in A
  BY <1>1, ClosedIsFull
<1>3. \A x \in Ids : f[x] <= Far
  BY <1>1 DEF Measures
<1>. QED BY <1>2, <1>3

\* On the way to a symbol there is one at every smaller distance.
LEMMA EveryDistanceOnTheWay ==
    ASSUME NEW G, NEW dir, NEW S, NEW f, Measures(f, G, S, dir), NEW y \in Ids, f[y] # Far,
           NEW j \in Nat, j <= f[y]
    PROVE  \E z \in Ids : f[z] # Far /\ f[z] = j
<1> DEFINE P == {i \in Nat : i <= f[y] => \E z \in Ids : f[z] # Far /\ f[z] = f[y] - i}
<1>1. f \in [Ids -> 0..Far] /\ Far \in Nat
  BY IdsAreCounted DEF Measures
<1>2. 0 \in P
  BY <1>1
<1>3. ASSUME NEW i \in Nat, i \in P PROVE i + 1 \in P
  <2>1. SUFFICES ASSUME i + 1 <= f[y] PROVE \E z \in Ids : f[z] # Far /\ f[z] = f[y] - (i + 1)
    OBVIOUS
  <2>2. f[y] \in Nat /\ f[y] < Far
    BY <1>1
  <2>3. PICK w \in Ids : f[w] # Far /\ f[w] = f[y] - i
    BY <1>3, <2>1, <2>2
  <2>4. f[w] # 0
    BY <2>1, <2>2, <2>3
  <2>5. PICK z \in Ids : f[z] = f[w] - 1
    BY <2>3, <2>4 DEF Measures
  <2>. QED BY <2>1, <2>2, <2>3, <2>5
<1>4. Nat \subseteq P
  <2> HIDE DEF P
  <2>. QED BY <1>2, <1>3, AllNumbers
<1>5. f[y] \in Nat /\ f[y] - j \in Nat /\ f[y] - j <= f[y] /\ f[y] - (f[y] - j) = j
  BY <1>1
<1>. QED BY <1>4, <1>5

-----------------------------------------------------------------------------
(* Keeping the n nearest. *)

\* What a list sorted by depth and name has before x, were x at depth v.
Before(d, v, x) == {y \in Ids : d[y] < v \/ (d[y] = v /\ y < x)}

\* Nearest by what comes before a symbol.
LEMMA NearestMeans ==
    ASSUME NEW d \in [Ids -> 0..Far], NEW n \in Nat
    PROVE  /\ Nearest(d, n) \in [Ids -> 0..Far]
           /\ \A x \in Ids : Nearest(d, n)[x] = IF Cardinality(Before(d, d[x], x)) < n THEN d[x] ELSE Far
<1>1. Far \in Nat
  BY IdsAreCounted
<1>. QED BY <1>1 DEF Nearest, Before

LEMMA BeforeIsFinite ==
    ASSUME NEW d, NEW v, NEW x
    PROVE  /\ Before(d, v, x) \in SUBSET Ids /\ IsFiniteSet(Before(d, v, x))
           /\ Cardinality(Before(d, v, x)) \in Nat
<1>1. Before(d, v, x) \in SUBSET Ids
  BY DEF Before
<1>. QED BY <1>1, IdsAreNumbered, FS_Subset, FS_CardinalityType

LEMMA MoreIsLarger ==
    ASSUME NEW A, NEW B, IsFiniteSet(B), A \subseteq B
    PROVE  /\ IsFiniteSet(A) /\ Cardinality(A) \in Nat /\ Cardinality(B) \in Nat
           /\ Cardinality(A) <= Cardinality(B)
           /\ A # B => Cardinality(A) < Cardinality(B)
<1>1. A \in SUBSET B
  OBVIOUS
<1>2. IsFiniteSet(A) /\ Cardinality(A) <= Cardinality(B) /\ (Cardinality(B) = Cardinality(A) => B = A)
  BY <1>1, FS_Subset
<1>. QED BY <1>2, FS_CardinalityType

\* Nearer symbols have fewer before them.
LEMMA NearerIsEarlier ==
    ASSUME NEW d \in [Ids -> 0..Far], NEW x \in Ids, NEW y \in Ids, y \in Before(d, d[x], x)
    PROVE  /\ Before(d, d[y], y) \subseteq Before(d, d[x], x)
           /\ Cardinality(Before(d, d[y], y)) < Cardinality(Before(d, d[x], x))
<1>1. Far \in Nat /\ \A z \in Ids : d[z] \in Nat /\ z \in Nat
  BY IdsAreCounted, IdsAreNumbered
<1>2. Before(d, d[y], y) \subseteq Before(d, d[x], x)
  BY <1>1 DEF Before
<1>3. y \notin Before(d, d[y], y)
  BY <1>1 DEF Before
<1>. QED BY <1>2, <1>3, BeforeIsFinite, MoreIsLarger

\* Of two symbols one comes before the other.
LEMMA OneIsEarlier ==
    ASSUME NEW d \in [Ids -> 0..Far], NEW x \in Ids, NEW y \in Ids, x # y
    PROVE  x \in Before(d, d[y], y) \/ y \in Before(d, d[x], x)
<1>1. Far \in Nat /\ \A z \in Ids : d[z] \in Nat /\ z \in Nat
  BY IdsAreCounted, IdsAreNumbered
<1>. QED BY <1>1 DEF Before

LEMMA ReachedIsFinite ==
    ASSUME NEW d
    PROVE  ReachedIn(d) \in SUBSET Ids /\ IsFiniteSet(ReachedIn(d)) /\ Cardinality(ReachedIn(d)) \in Nat
<1>1. ReachedIn(d) \in SUBSET Ids
  BY DEF ReachedIn
<1>. QED BY <1>1, IdsAreNumbered, FS_Subset, FS_CardinalityType

\* No more than n are kept.
LEMMA NearestAreFew ==
    ASSUME NEW d \in [Ids -> 0..Far], NEW n \in Nat
    PROVE  Cardinality(ReachedIn(Nearest(d, n))) <= n
<1> DEFINE K == ReachedIn(Nearest(d, n))
           rank == [x \in K |-> Cardinality(Before(d, d[x], x))]
<1>1. K \in SUBSET Ids /\ \A x \in K : Cardinality(Before(d, d[x], x)) < n
  BY NearestMeans DEF ReachedIn
<1>2. \A x \in K : Cardinality(Before(d, d[x], x)) \in 0..(n - 1)
  BY <1>1, BeforeIsFinite
<1>3. ASSUME NEW x \in K, NEW y \in K, x # y PROVE rank[x] # rank[y]
  <2>1. x \in Ids /\ y \in Ids
    BY <1>1
  <2>2. x \in Before(d, d[y], y) \/ y \in Before(d, d[x], x)
    BY <1>3, <2>1, OneIsEarlier
  <2>3. \/ Cardinality(Before(d, d[x], x)) < Cardinality(Before(d, d[y], y))
        \/ Cardinality(Before(d, d[y], y)) < Cardinality(Before(d, d[x], x))
    BY <2>1, <2>2, NearerIsEarlier
  <2> HIDE DEF K
  <2>. QED BY <1>3, <2>3, BeforeIsFinite
<1> HIDE DEF K
<1>4. rank \in [K -> 0..(n - 1)]
  BY <1>2
<1>5. rank \in Injection(K, 0..(n - 1))
  <2> HIDE DEF rank
  <2>. QED BY <1>3, <1>4 DEF Injection, IsInjective
<1>6. IsFiniteSet(0..(n - 1)) /\ Cardinality(0..(n - 1)) = n
  <2>1. 0 \in Int /\ n - 1 \in Int
    OBVIOUS
  <2>. QED BY <2>1, FS_Interval
<1>7. Cardinality(K) <= Cardinality(0..(n - 1))
  <2> HIDE DEF rank
  <2>. QED BY <1>5, <1>6, FS_Injection
<1>. QED BY <1>6, <1>7 DEF K

\* Something dropped was dropped for n nearer ones that were kept.
LEMMA DroppedForNearer ==
    ASSUME NEW d \in [Ids -> 0..Far], NEW n \in Nat, NEW x \in Ids, Nearest(d, n)[x] # d[x]
    PROVE  Cardinality(Before(Nearest(d, n), d[x], x)) >= n
<1> DEFINE h == Nearest(d, n)
           Rank(z) == Cardinality(Before(d, d[z], z))
           T == {z \in Ids : Rank(z) >= n /\ (z = x \/ z \in Before(d, d[x], x))}
           N == {Rank(z) : z \in T}
<1>0. Far \in Nat /\ \A z \in Ids : d[z] \in 0..Far /\ z \in Nat
  BY IdsAreCounted, IdsAreNumbered
<1>1. /\ h \in [Ids -> 0..Far]
      /\ \A z \in Ids : h[z] = IF Rank(z) < n THEN d[z] ELSE Far
      /\ \A z \in Ids : Rank(z) \in Nat
  BY NearestMeans, BeforeIsFinite
<1>2. h[x] # d[x]
  OBVIOUS
<1> HIDE DEF h, Rank
<1>3. x \in T /\ d[x] # Far
  BY <1>0, <1>1, <1>2
<1>4. N \in SUBSET Nat /\ N # {}
  BY <1>1, <1>3
<1>5. PICK z \in T : \A w \in T : Rank(z) <= Rank(w)
  <2>1. PICK r \in N : \A q \in N : r <= q
    <3> HIDE DEF N
    <3>. QED BY <1>4, LeastNumber
  <2>. QED BY <2>1
<1>6. z \in Ids /\ Rank(z) >= n /\ d[z] <= d[x] /\ d[z] # Far
  BY <1>0, <1>3, <1>5 DEF Before
<1>7. Before(d, d[z], z) \subseteq Before(d, d[x], x)
  BY <1>5, NearerIsEarlier
<1>8. ASSUME NEW w \in Before(d, d[z], z) PROVE h[w] = d[w]
  <2>1. w \in Ids /\ w \in Before(d, d[x], x)
    BY <1>7 DEF Before
  <2>2. Rank(w) < Rank(z)
    BY <1>6, <1>8, <2>1, NearerIsEarlier DEF Rank
  <2>3. w \notin T
    BY <1>1, <1>5, <1>6, <2>1, <2>2
  <2>4. Rank(w) < n
    BY <1>1, <2>1, <2>3
  <2>. QED BY <1>1, <2>1, <2>4
<1>9. Before(d, d[z], z) \subseteq Before(h, d[x], x)
  BY <1>7, <1>8 DEF Before
<1>10. Cardinality(Before(d, d[z], z)) <= Cardinality(Before(h, d[x], x))
  BY <1>9, BeforeIsFinite, MoreIsLarger
<1>11. Cardinality(Before(d, d[z], z)) \in Nat /\ Cardinality(Before(h, d[x], x)) \in Nat
  BY BeforeIsFinite
<1>. QED BY <1>6, <1>10, <1>11 DEF h, Rank

\* If few were reached, none is dropped.
LEMMA FewAreKept ==
    ASSUME NEW d \in [Ids -> 0..Far], NEW n \in Nat, Cardinality(ReachedIn(d)) <= n
    PROVE  Nearest(d, n) = d
<1>0. Far \in Nat /\ \A z \in Ids : d[z] \in 0..Far /\ z \in Nat
  BY IdsAreCounted, IdsAreNumbered
<1>1. ASSUME NEW x \in Ids, d[x] # Far PROVE Cardinality(Before(d, d[x], x)) < n
  <2>1. Before(d, d[x], x) \subseteq ReachedIn(d)
    BY <1>0, <1>1 DEF Before, ReachedIn
  <2>2. x \in ReachedIn(d) /\ x \notin Before(d, d[x], x)
    BY <1>0, <1>1 DEF Before, ReachedIn
  <2>3. Cardinality(Before(d, d[x], x)) < Cardinality(ReachedIn(d))
    BY <2>1, <2>2, ReachedIsFinite, MoreIsLarger
  <2>. QED BY <2>3, ReachedIsFinite, BeforeIsFinite
<1>2. \A x \in Ids : Nearest(d, n)[x] = d[x]
  BY <1>1, NearestMeans
<1>3. Nearest(d, n) \in [Ids -> 0..Far]
  BY NearestMeans
<1>. QED BY <1>2, <1>3

\* Keeping the nearest keeps at least n, if it drops any.
LEMMA DropsKeepMany ==
    ASSUME NEW d \in [Ids -> 0..Far], NEW n \in Nat, Cardinality(ReachedIn(Nearest(d, n))) < n
    PROVE  Nearest(d, n) = d
<1> DEFINE h == Nearest(d, n)
<1>0. Far \in Nat /\ h \in [Ids -> 0..Far]
  BY IdsAreCounted, NearestMeans
<1>1. ASSUME NEW x \in Ids, h[x] # d[x] PROVE FALSE
  <2>1. Cardinality(Before(h, d[x], x)) >= n
    BY <1>1, DroppedForNearer
  <2> HIDE DEF h
  <2>2. d[x] \in 0..Far
    OBVIOUS
  <2>3. Before(h, d[x], x) \subseteq ReachedIn(h)
    <3>1. d[x] # Far
      BY <1>1, NearestMeans DEF h
    <3>. QED BY <1>0, <2>2, <3>1 DEF Before, ReachedIn
  <2>4. Cardinality(Before(h, d[x], x)) <= Cardinality(ReachedIn(h))
    BY <2>3, ReachedIsFinite, MoreIsLarger
  <2>5. Cardinality(ReachedIn(h)) < n
    BY DEF h
  <2>. QED BY <2>1, <2>4, <2>5, ReachedIsFinite, BeforeIsFinite
<1>. QED BY <1>0, <1>1

-----------------------------------------------------------------------------
(* Lists of nodes. *)

\* The members of a list; and of one with a last element, and without its first.
LEMMA ListRange ==
    ASSUME NEW S, NEW s \in Seq(S)
    PROVE  /\ ToSet(s) \subseteq S
           /\ \A x : x \in ToSet(s) <=> \E i \in 1..Len(s) : x = s[i]
           /\ \A i \in 1..Len(s) : s[i] \in ToSet(s)
  BY DEF ToSet

LEMMA ListRangeAppend ==
    ASSUME NEW S, NEW s \in Seq(S), NEW x \in S
    PROVE  ToSet(Append(s, x)) = ToSet(s) \cup {x}
<1> DEFINE t == Append(s, x)
<1>1. /\ t \in Seq(S) /\ Len(t) = Len(s) + 1 /\ Len(s) \in Nat
      /\ \A i \in 1..Len(s) : t[i] = s[i]
      /\ t[Len(s) + 1] = x
  BY AppendProperties
<1> HIDE DEF t
<1>2. \A i \in 1..Len(t) : i \in 1..Len(s) \/ i = Len(s) + 1
  BY <1>1
<1>3. \A i \in 1..Len(s) : i \in 1..Len(t)
  BY <1>1
<1>4. Len(s) + 1 \in 1..Len(t)
  BY <1>1
<1>5. \A y : y \in ToSet(t) <=> \E i \in 1..Len(t) : y = t[i]
  BY <1>1, ListRange
<1>6. \A y : y \in ToSet(s) <=> \E i \in 1..Len(s) : y = s[i]
  BY ListRange
<1>7. \A y : y \in ToSet(t) <=> y \in ToSet(s) \cup {x}
  BY <1>1, <1>2, <1>3, <1>4, <1>5, <1>6
<1>. QED BY <1>7 DEF t

LEMMA ListRangeTail ==
    ASSUME NEW S, NEW s \in Seq(S), s # <<>>
    PROVE  /\ Head(s) \in S /\ Tail(s) \in Seq(S) /\ ToSet(s) = {Head(s)} \cup ToSet(Tail(s))
           /\ Len(Tail(s)) = Len(s) - 1 /\ s[1] = Head(s) /\ Len(s) \in Nat \ {0}
           /\ \A i \in 1..Len(Tail(s)) : Tail(s)[i] = s[i + 1]
<1> DEFINE t == Tail(s)
<1>1. /\ Head(s) \in S /\ t \in Seq(S) /\ Len(t) = Len(s) - 1
      /\ \A i \in 1..Len(t) : t[i] = s[i + 1]
  BY HeadTailProperties
<1>2. Len(s) \in Nat \ {0} /\ s[1] = Head(s)
  BY EmptySeq
<1> HIDE DEF t
<1>3. \A y : y \in ToSet(t) <=> \E i \in 1..Len(t) : y = t[i]
  BY <1>1, ListRange
<1>4. \A y : y \in ToSet(s) <=> \E i \in 1..Len(s) : y = s[i]
  BY ListRange
<1>5. \A i \in 1..Len(s) : i = 1 \/ (i - 1 \in 1..Len(t) /\ (i - 1) + 1 = i)
  BY <1>1, <1>2
<1>6. \A i \in 1..Len(t) : i + 1 \in 1..Len(s)
  BY <1>1, <1>2
<1>7. ASSUME NEW y, y \in ToSet(s) PROVE y = Head(s) \/ y \in ToSet(t)
  <2>1. PICK i \in 1..Len(s) : y = s[i]
    BY <1>4, <1>7
  <2>2. CASE i = 1
    BY <1>2, <2>1, <2>2
  <2>3. CASE i # 1
    <3>1. i - 1 \in 1..Len(t) /\ (i - 1) + 1 = i
      BY <1>5, <2>3
    <3>2. y = t[i - 1]
      BY <1>1, <2>1, <3>1
    <3>. QED BY <1>3, <3>1, <3>2
  <2>. QED BY <2>2, <2>3
<1>8. \A y : y = Head(s) \/ y \in ToSet(t) => y \in ToSet(s)
  BY <1>1, <1>2, <1>3, <1>4, <1>6
<1>9. ToSet(s) = {Head(s)} \cup ToSet(t)
  BY <1>7, <1>8
<1>. QED BY <1>1, <1>2, <1>9 DEF t

LEMMA ListRangeEmpty == ToSet(<<>>) = {} /\ \A S : \A s \in Seq(S) : ToSet(s) = {} => s = <<>>
<1>1. ASSUME NEW S, NEW s \in Seq(S), ToSet(s) = {} PROVE s = <<>>
  <2>1. s # <<>> => Head(s) \in ToSet(s)
    BY ListRangeTail
  <2>. QED BY <1>1, <2>1
<1>2. ToSet(<<>>) = {}
  BY DEF ToSet
<1>. QED BY <1>1, <1>2

\* A node is listed once.
LEMMA ListedOnce ==
    ASSUME NEW S, IsFiniteSet(S)
    PROVE  SetToSeq(S) \in Seq(S) /\ ToSet(SetToSeq(S)) = S
<1> DEFINE n == Cardinality(S)
           s == SetToSeq(S)
<1>1. n \in Nat /\ ExistsBijection(1..n, S)
  BY FS_CardinalityType
<1>2. PICK f : f \in Bijection(1..n, S)
  BY <1>1 DEF ExistsBijection
<1>3. f \in [1..n -> S] /\ IsInjective(f)
  BY <1>2 DEF Bijection, Injection, IsInjective
<1>4. s \in [1..n -> S] /\ IsInjective(s)
  BY <1>3 DEF SetToSeq
<1> HIDE DEF s
<1>5. s \in Injection(1..n, S)
  BY <1>4 DEF Injection
<1>6. Cardinality(1..n) = n
  <2>1. 1 \in Int /\ n \in Int
    BY <1>1
  <2>. QED BY <1>1, <2>1, FS_Interval
<1>7. s \in Surjection(1..n, S)
  BY <1>5, <1>6, FS_Injection
<1>8. \A y \in S : \E i \in 1..n : s[i] = y
  BY <1>7 DEF Surjection
<1>9. s \in Seq(S) /\ Len(s) = n
  BY <1>1, <1>4
<1>10. ToSet(s) = S
  <2>1. ToSet(s) \subseteq S /\ \A x : x \in ToSet(s) <=> \E i \in 1..Len(s) : x = s[i]
    BY <1>9, ListRange
  <2>. QED BY <1>8, <1>9, <2>1
<1>. QED BY <1>9, <1>10 DEF s

\* What the list holds once the first i of xs were taken up.
LEMMA AddNodesUnfolds ==
    ASSUME NEW ns \in Seq(Ids), NEW xs \in Seq(Ids)
    PROVE  \E A : /\ A \in [0..Len(xs) -> Seq(Ids)] /\ A[0] = ns
                  /\ \A i \in 1..Len(xs) : A[i] = AddNode(A[i - 1], xs[i])
                  /\ AddNodes(ns, xs) = A[Len(xs)]
<1> DEFINE V == Seq(Ids)
           n == Len(xs)
           H == [i \in Nat |-> [s \in V |-> IF i \in 1..n THEN AddNode(s, xs[i]) ELSE s]]
           Body(f) == [i \in 0..n |-> IF i = 0 THEN ns ELSE AddNode(f[i - 1], xs[i])]
           A == CHOOSE f : f = Body(f)
<1>0. n \in Nat /\ \A i \in 1..n : xs[i] \in Ids
  OBVIOUS
<1>1. \A s \in V : \A i \in 1..n : AddNode(s, xs[i]) \in V
  BY <1>0, AppendProperties DEF AddNode
<1>2. H \in [Nat -> [V -> V]]
  BY <1>1
<1>3. \A i \in 1..n : \A s \in V : i \in Nat /\ H[i][s] = AddNode(s, xs[i])
  BY <1>0
<1> HIDE DEF H
<1>4. PICK F : Iterates(F, V, ns, H)
  <2>1. ns \in V
    OBVIOUS
  <2> HIDE DEF V
  <2>. QED BY <1>2, <2>1, RecursionExists
<1>5. F \in [Nat -> V] /\ F[0] = ns /\ \A i \in Nat : F[i + 1] = H[i + 1][F[i]]
  BY <1>4 DEF Iterates
<1> DEFINE g == [i \in 0..n |-> F[i]]
<1>6. g = Body(g)
  <2>1. ASSUME NEW i \in 0..n PROVE g[i] = IF i = 0 THEN ns ELSE AddNode(g[i - 1], xs[i])
    <3>1. CASE i = 0
      BY <1>0, <1>5, <3>1
    <3>2. CASE i # 0
      <4>1. i \in 1..n /\ i - 1 \in Nat /\ (i - 1) + 1 = i /\ i - 1 \in 0..n
        BY <1>0, <3>2
      <4>2. F[i] = H[i][F[i - 1]] /\ F[i - 1] \in V
        BY <1>5, <4>1
      <4>3. F[i] = AddNode(F[i - 1], xs[i])
        <5> HIDE DEF V
        <5>. QED BY <1>3, <4>1, <4>2
      <4>. QED BY <3>2, <4>1, <4>3
    <3>. QED BY <3>1, <3>2
  <2>2. g = [i \in 0..n |-> g[i]]
    OBVIOUS
  <2> HIDE DEF g
  <2>. QED BY <2>1, <2>2
<1>7. A = Body(A)
  <2> HIDE DEF Body, g
  <2>. QED BY <1>6
<1>8. AddNodes(ns, xs) = A[n]
  BY DEF AddNodes
<1> HIDE DEF A
<1>9. A[0] = ns /\ \A i \in 1..n : A[i] = AddNode(A[i - 1], xs[i])
  <2>1. \A i \in 0..n : Body(A)[i] = IF i = 0 THEN ns ELSE AddNode(A[i - 1], xs[i])
    OBVIOUS
  <2>2. \A i \in 1..n : i \in 0..n /\ i # 0
    BY <1>0
  <2> HIDE DEF Body
  <2>. QED BY <1>0, <1>7, <2>1, <2>2
<1>10. \A i \in 0..n : A[i] \in V
  <2> DEFINE T == {i \in Nat : i <= n => A[i] \in V}
  <2>1. 0 \in T
    BY <1>9
  <2>2. \A i \in Nat : i \in T => i + 1 \in T
    <3> SUFFICES ASSUME NEW i \in Nat, i \in T, i + 1 <= n PROVE A[i + 1] \in V
      OBVIOUS
    <3>1. i + 1 \in 1..n /\ (i + 1) - 1 = i /\ A[i] \in V
      BY <1>0
    <3>. QED BY <1>1, <1>9, <3>1
  <2>3. Nat \subseteq T
    <3> HIDE DEF T
    <3>. QED BY <2>1, <2>2, AllNumbers
  <2>. QED BY <1>0, <2>3
<1>11. A \in [0..n -> V]
  <2>1. A = [i \in 0..n |-> A[i]]
    BY <1>7
  <2>. QED BY <1>10, <2>1
<1>. QED BY <1>8, <1>9, <1>11

\* The union of two lists of nodes lists the nodes of both.
LEMMA AddNodesMeans ==
    ASSUME NEW ns \in Seq(Ids), NEW xs \in Seq(Ids)
    PROVE  /\ AddNodes(ns, xs) \in Seq(Ids)
           /\ ToSet(AddNodes(ns, xs)) = ToSet(ns) \cup NodesIn(ask, ToSet(xs))
<1> DEFINE n == Len(xs)
           Firsts(i) == {xs[j] : j \in 1..i}
<1>0. n \in Nat /\ \A i \in 1..n : xs[i] \in Ids
  OBVIOUS
<1>1. PICK A : /\ A \in [0..n -> Seq(Ids)] /\ A[0] = ns
               /\ \A i \in 1..n : A[i] = AddNode(A[i - 1], xs[i])
               /\ AddNodes(ns, xs) = A[n]
  BY AddNodesUnfolds
<1> DEFINE T == {i \in Nat : i <= n => ToSet(A[i]) = ToSet(ns) \cup NodesIn(ask, Firsts(i))}
<1>2. 0 \in T
  BY <1>1 DEF NodesIn
<1>3. ASSUME NEW i \in Nat, i \in T PROVE i + 1 \in T
  <2>1. SUFFICES ASSUME i + 1 <= n
                 PROVE  ToSet(A[i + 1]) = ToSet(ns) \cup NodesIn(ask, Firsts(i + 1))
    OBVIOUS
  <2>2. i + 1 \in 1..n /\ (i + 1) - 1 = i /\ i \in 0..n
    BY <1>0, <2>1
  <2>3. A[i + 1] = AddNode(A[i], xs[i + 1]) /\ A[i] \in Seq(Ids) /\ xs[i + 1] \in Ids
    BY <1>0, <1>1, <2>2
  <2>4. ToSet(A[i]) = ToSet(ns) \cup NodesIn(ask, Firsts(i))
    BY <1>3, <2>1
  <2>5. \A j : j \in 1..(i + 1) <=> j \in 1..i \/ j = i + 1
    OBVIOUS
  <2>6. Firsts(i + 1) = Firsts(i) \cup {xs[i + 1]}
    BY <2>5
  <2>7. ToSet(A[i + 1]) = ToSet(A[i]) \cup NodesIn(ask, {xs[i + 1]})
    BY <2>3, ListRangeAppend DEF AddNode, NodesIn, HasNode
  <2> HIDE DEF Firsts
  <2>. QED BY <2>4, <2>6, <2>7 DEF NodesIn
<1>4. Nat \subseteq T
  <2> HIDE DEF T
  <2>. QED BY <1>2, <1>3, AllNumbers
<1>5. ToSet(A[n]) = ToSet(ns) \cup NodesIn(ask, Firsts(n))
  BY <1>0, <1>4
<1>6. Firsts(n) = ToSet(xs)
  BY DEF ToSet
<1>7. n \in 0..n
  BY <1>0
<1>8. A[n] \in Seq(Ids)
  BY <1>1, <1>7
<1> HIDE DEF Firsts
<1>. QED BY <1>1, <1>5, <1>6, <1>8

\* To an empty list a sorted one adds itself, in order.
LEMMA AddNodesSorts ==
    ASSUME NEW xs \in Seq(Ids), NEW f \in [Ids -> Nat], Sorted(f, xs)
    PROVE  Sorted(f, AddNodes(<<>>, xs))
<1> DEFINE n == Len(xs)
<1>0. n \in Nat /\ (\A i \in 1..n : xs[i] \in Ids) /\ <<>> \in Seq(Ids)
  OBVIOUS
<1>1. PICK A : /\ A \in [0..n -> Seq(Ids)] /\ A[0] = <<>>
               /\ \A i \in 1..n : A[i] = AddNode(A[i - 1], xs[i])
               /\ AddNodes(<<>>, xs) = A[n]
  BY <1>0, AddNodesUnfolds
<1> DEFINE T == {i \in Nat : i <= n => /\ Sorted(f, A[i])
                                       /\ \A j \in 1..Len(A[i]) : i # 0 /\ f[A[i][j]] <= f[xs[i]]}
<1>2. 0 \in T
  BY <1>1 DEF Sorted
<1>3. ASSUME NEW i \in Nat, i \in T PROVE i + 1 \in T
  <2>1. SUFFICES ASSUME i + 1 <= n
                 PROVE  /\ Sorted(f, A[i + 1])
                        /\ \A j \in 1..Len(A[i + 1]) : f[A[i + 1][j]] <= f[xs[i + 1]]
    OBVIOUS
  <2>2. i + 1 \in 1..n /\ (i + 1) - 1 = i /\ i \in 0..n
    BY <1>0, <2>1
  <2>3. A[i + 1] = AddNode(A[i], xs[i + 1]) /\ A[i] \in Seq(Ids) /\ xs[i + 1] \in Ids
    BY <1>0, <1>1, <2>2
  <2>4. Sorted(f, A[i]) /\ \A j \in 1..Len(A[i]) : i # 0 /\ f[A[i][j]] <= f[xs[i]]
    BY <1>3, <2>1
  <2>5. ASSUME NEW j \in 1..Len(A[i]) PROVE f[A[i][j]] <= f[xs[i + 1]]
    <3>1. i # 0 /\ i \in 1..n
      BY <2>2, <2>4
    <3>2. f[xs[i]] <= f[xs[i + 1]]
      BY <2>2, <3>1 DEF Sorted
    <3>3. xs[i] \in Ids /\ A[i][j] \in Ids
      BY <1>0, <2>3, <3>1
    <3>. QED BY <2>3, <2>4, <3>2, <3>3, SMTT(30)
  <2>6. CASE A[i + 1] = A[i]
    BY <2>4, <2>5, <2>6
  <2>7. CASE A[i + 1] = Append(A[i], xs[i + 1])
    <3> DEFINE s == A[i]
               t == A[i + 1]
               x == xs[i + 1]
    <3>1. /\ Len(t) = Len(s) + 1 /\ Len(s) \in Nat
          /\ \A j \in 1..Len(s) : t[j] = s[j] /\ f[t[j]] <= f[x]
          /\ t[Len(s) + 1] = x /\ f[x] \in Nat
      BY <2>3, <2>5, <2>7, AppendProperties
    <3>2. Sorted(f, s)
      BY <2>4
    <3> HIDE DEF s, t, x
    <3>3. \A j \in 1..Len(t) : j \in 1..Len(s) \/ j = Len(s) + 1
      BY <3>1
    <3>4. \A j \in 1..Len(t) : f[t[j]] <= f[x]
      BY <3>1, <3>3
    <3>5. ASSUME NEW j \in 1..Len(t), NEW k \in 1..Len(t), j <= k PROVE f[t[j]] <= f[t[k]]
      <4>1. CASE k = Len(s) + 1
        BY <3>1, <3>4, <4>1
      <4>2. CASE k # Len(s) + 1
        <5>1. j \in 1..Len(s) /\ k \in 1..Len(s)
          BY <3>1, <3>3, <3>5, <4>2
        <5>2. f[s[j]] <= f[s[k]]
          BY <3>2, <3>5, <5>1 DEF Sorted
        <5>. QED BY <3>1, <5>1, <5>2
      <4>. QED BY <4>1, <4>2
    <3>6. Sorted(f, t) /\ \A j \in 1..Len(t) : f[t[j]] <= f[x]
      BY <3>4, <3>5 DEF Sorted
    <3>. QED BY <3>6 DEF t, x
  <2>. QED BY <2>3, <2>6, <2>7 DEF AddNode
<1>4. Nat \subseteq T
  <2> HIDE DEF T
  <2>. QED BY <1>2, <1>3, AllNumbers
<1>. QED BY <1>0, <1>1, <1>4

-----------------------------------------------------------------------------
(* The recursive queries of SQLite. *)

\* A list has no more members than places.
LEMMA ListIsNoShorter ==
    ASSUME NEW S, NEW s \in Seq(S)
    PROVE  IsFiniteSet(ToSet(s)) /\ Cardinality(ToSet(s)) \in Nat /\ Cardinality(ToSet(s)) <= Len(s)
<1>1. Len(s) \in Nat /\ s \in [1..Len(s) -> ToSet(s)]
  BY DEF ToSet
<1>2. \A y \in ToSet(s) : \E i \in 1..Len(s) : s[i] = y
  BY DEF ToSet
<1>3. s \in Surjection(1..Len(s), ToSet(s))
  BY <1>1, <1>2 DEF Surjection
<1>4. ExistsSurjection(1..Len(s), ToSet(s))
  BY <1>3 DEF ExistsSurjection
<1>5. IsFiniteSet(ToSet(s))
  BY <1>1, <1>4, FS_NatSurjection
<1>. QED BY <1>1, <1>4, <1>5, FS_SurjCardinalityBound, FS_CardinalityType

\* What a question is.
LEMMA Asked ==
    ASSUME NEW q \in Questions
    PROVE  /\ q.graph.edges \subseteq Edge /\ q.graph.kind \in [Ids -> Kinds]
           /\ q.seeds \in Seq(Ids) /\ q.seeds # <<>> /\ ToSet(q.seeds) \in SUBSET Ids
           /\ q.dir \in Directions /\ q.depth \in Nat /\ q.cap \in Nat \ {0}
           /\ q.depth = 0 => Cardinality(ToSet(q.seeds)) <= q.cap
           /\ q.use \in {"walk", "blast", "recall"} /\ q.engine \in {"memory", "sqlite"}
<1>1. q.graph.edges \subseteq Edge /\ q.graph.kind \in [Ids -> Kinds]
  BY QuestionsAreAsked
<1>2. /\ q.seeds \in Seq(Ids) /\ q.seeds # <<>>
      /\ q.dir \in Directions /\ q.depth \in Nat /\ q.cap \in Nat \ {0}
      /\ q.depth = 0 => Len(q.seeds) <= q.cap
      /\ q.use \in {"walk", "blast", "recall"} /\ q.engine \in {"memory", "sqlite"}
  BY QuestionsAreAsked
<1>3. ToSet(q.seeds) \in SUBSET Ids
  BY <1>2, ListRange
<1>4. Cardinality(ToSet(q.seeds)) <= Len(q.seeds) /\ Cardinality(ToSet(q.seeds)) \in Nat /\ Len(q.seeds) \in Nat
  BY <1>2, ListIsNoShorter
<1>. QED BY <1>1, <1>2, <1>3, <1>4

\* What an answer of depth k about the distance f from S has to say.
Cut(f, S, k) == [x \in Ids |-> IF x \in S \/ f[x] > k THEN Far ELSE f[x]]

\* A depth is right, or its symbol had n or more nearer ones.
LegCuts(d, t, n) ==
    \A x \in Ids : d[x] = t[x] \/ (d[x] > t[x] /\ Cardinality(Before(d, t[x], x)) >= n)

\* What one or two of SQLite's walks over the distance f from S say, with a depth of k
\* and a limit of n and one: a depth is right or cut for nearer ones, and if no more
\* than n came nothing was cut and an unmarked answer is the whole.
LegSays(leg, f, S, k, n) ==
    /\ leg.depths \in [Ids -> 0..Far] /\ leg.horizon \in BOOLEAN
    /\ LegCuts(leg.depths, Cut(f, S, k), n + 1)
    /\ Cardinality(ReachedIn(leg.depths)) <= n =>
          /\ leg.depths = Cut(f, S, k)
          /\ ~leg.horizon => \A x \in Ids : f[x] = Far \/ f[x] <= k

\* There is something one hop past k.
OnePast(f, k) == \E x \in Ids : f[x] # Far /\ f[x] = k + 1

LEMMA CutTyped ==
    ASSUME NEW f \in [Ids -> 0..Far], NEW S, NEW k \in Nat
    PROVE  Cut(f, S, k) \in [Ids -> 0..Far]
  BY IdsAreCounted DEF Cut

\* One direction, walked k hops from S, with a limit of n and one.
LEMMA LegMeans ==
    ASSUME ask \in Questions, NEW S \in SUBSET Ids, NEW dir \in Directions, NEW k \in Nat, NEW n \in Nat,
           k = 0 => Cardinality(S) <= n,
           NEW leg \in Legs(S, dir, k, n), NEW f, f = Mins(ask.graph, S, dir, Cardinality(Ids))
    PROVE  LegSays(leg, f, S, k, n) /\ (leg.horizon => OnePast(f, k))
<1> DEFINE G     == ask.graph
           m     == Mins(G, S, dir, k)
           base  == [x \in Ids |-> IF x \in S THEN Far ELSE m[x]]
           rows  == Nearest(base, n + 1)
           front == {x \in ReachedIn(m) : m[x] = k}
<1>0. G.edges \subseteq Edge /\ Far \in Nat /\ Far = Cardinality(Ids) + 1 /\ Cardinality(Ids) \in Nat
  BY Asked, IdsAreCounted
<1>1. Measures(f, G, S, dir)
  BY <1>0, MinsMeasure
<1>2. f \in [Ids -> 0..Far] /\ \A x \in Ids : f[x] \in Nat
  BY <1>0, <1>1 DEF Measures
<1>3. m \in [Ids -> 0..Far] /\ \A x \in Ids : m[x] = IF f[x] > k THEN Far ELSE f[x]
  <2>1. m \in [Ids -> 0..Far]
    BY <1>0, MinsTyped
  <2>2. ASSUME NEW x \in Ids PROVE m[x] = IF f[x] > k THEN Far ELSE f[x]
    BY <1>0, MinsAt
  <2>. QED BY <2>1, <2>2
<1>4. PICK F \in SUBSET front :
          /\ Cardinality(F) = Smaller(n, Cardinality(front))
          /\ leg = [depths |-> rows, horizon |-> Onward(G, F, dir) \cap Unvisited(m, S) # {}]
  BY DEF Legs
<1> HIDE DEF m
<1>5. base = Cut(f, S, k)
  BY <1>3 DEF Cut
<1>6. base \in [Ids -> 0..Far] /\ n + 1 \in Nat
  BY <1>0, <1>3
<1> HIDE DEF base
<1>7. leg.depths = rows /\ leg.horizon = (Onward(G, F, dir) \cap Unvisited(m, S) # {})
  BY <1>4
<1>8. rows \in [Ids -> 0..Far]
  BY <1>6, NearestMeans
<1>9. LegCuts(rows, base, n + 1)
  <2>1. SUFFICES ASSUME NEW x \in Ids, rows[x] # base[x]
                 PROVE  rows[x] > base[x] /\ Cardinality(Before(rows, base[x], x)) >= n + 1
    BY DEF LegCuts
  <2>2. Cardinality(Before(rows, base[x], x)) >= n + 1
    BY <1>6, <2>1, DroppedForNearer
  <2>3. rows[x] = Far /\ base[x] \in 0..Far
    BY <1>6, <2>1, NearestMeans
  <2>. QED BY <1>0, <2>1, <2>2, <2>3
<1>10. ASSUME Cardinality(ReachedIn(rows)) <= n PROVE rows = base
  <2>1. Cardinality(ReachedIn(rows)) < n + 1
    BY <1>10, ReachedIsFinite
  <2>. QED BY <1>6, <2>1, DropsKeepMany
<1>11. front \in SUBSET Ids /\ IsFiniteSet(front) /\ Cardinality(front) \in Nat /\ IsFiniteSet(F)
  <2>1. front \in SUBSET Ids /\ F \in SUBSET Ids
    BY DEF ReachedIn
  <2>. QED BY <2>1, IdsAreNumbered, FS_Subset, FS_CardinalityType
<1>12. ASSUME Cardinality(ReachedIn(rows)) <= n PROVE F = front
  <2>1. Cardinality(front) <= n
    <3>1. CASE k = 0
      <4>1. front = S
        BY <1>0, <1>1, <1>3, <3>1 DEF ReachedIn, Measures
      <4>. QED BY <3>1, <4>1
    <3>2. CASE k # 0
      <4>1. front \subseteq ReachedIn(base)
        BY <1>0, <1>1, <1>2, <1>3, <3>2 DEF ReachedIn, Measures, base
      <4>2. front \subseteq ReachedIn(rows)
        BY <1>10, <1>12, <4>1
      <4>3. Cardinality(front) <= Cardinality(ReachedIn(rows))
        BY <4>2, ReachedIsFinite, MoreIsLarger
      <4>. QED BY <1>11, <1>12, <4>3, ReachedIsFinite
    <3>. QED BY <3>1, <3>2
  <2>2. Cardinality(F) = Cardinality(front)
    BY <1>4, <1>11, <2>1 DEF Smaller
  <2>3. F \in SUBSET front
    OBVIOUS
  <2> HIDE DEF front
  <2>. QED BY <1>11, <2>2, <2>3, FS_Subset
<1>13. ASSUME Cardinality(ReachedIn(rows)) <= n, ~(Onward(G, F, dir) \cap Unvisited(m, S) # {}),
              NEW x \in Ids, f[x] # Far, f[x] > k
       PROVE  FALSE
  <2>1. k + 1 \in Nat /\ k + 1 <= f[x]
    BY <1>2, <1>13
  <2>2. PICK z \in Ids : f[z] # Far /\ f[z] = k + 1
    BY <1>1, <1>13, <2>1, EveryDistanceOnTheWay
  <2>3. f[z] # 0
    BY <2>2
  <2>4. PICK w \in Ids : f[w] = f[z] - 1 /\ z \in Onward(G, {w}, dir)
    BY <1>1, <2>2, <2>3 DEF Measures
  <2>5. f[w] = k /\ f[w] # Far
    BY <1>0, <1>1, <1>2, <2>2, <2>4 DEF Measures
  <2>6. w \in front
    BY <1>3, <2>5 DEF ReachedIn
  <2>7. w \in F
    BY <1>12, <1>13, <2>6
  <2>8. F \in SUBSET Ids
    BY <1>11
  <2>9. z \in Onward(G, F, dir)
    BY <1>0, <2>4, <2>7, <2>8, OnwardOfSet
  <2>10. z \in Unvisited(m, S)
    BY <1>3, <2>2 DEF Unvisited
  <2>. QED BY <1>13, <2>9, <2>10
<1>14. ASSUME NEW z \in Onward(G, F, dir) \cap Unvisited(m, S)
       PROVE  z \in Ids /\ f[z] # Far /\ f[z] = k + 1
  <2>1. F \in SUBSET Ids
    BY <1>11
  <2>2. PICK w \in F : z \in Onward(G, {w}, dir)
    BY <1>0, <1>14, <2>1, OnwardOfSet
  <2>3. w \in Ids /\ f[w] = k /\ f[w] # Far
    BY <1>3, <2>1, <2>2 DEF ReachedIn
  <2>4. z \in Ids /\ m[z] = Far
    BY <1>14 DEF Unvisited
  <2>5. f[z] # Far /\ f[z] <= k + 1
    BY <1>1, <2>2, <2>3 DEF Measures
  <2>6. f[z] > k
    BY <1>3, <2>4, <2>5
  <2>. QED BY <1>2, <2>4, <2>5, <2>6
<1> HIDE DEF rows, front
<1>15. LegCuts(leg.depths, Cut(f, S, k), n + 1)
  BY <1>5, <1>7, <1>9
<1>16. Cardinality(ReachedIn(leg.depths)) <= n => leg.depths = Cut(f, S, k)
  BY <1>5, <1>7, <1>10
<1>17. Cardinality(ReachedIn(leg.depths)) <= n /\ ~leg.horizon => \A x \in Ids : f[x] = Far \/ f[x] <= k
  <2>1. SUFFICES ASSUME Cardinality(ReachedIn(leg.depths)) <= n, ~leg.horizon,
                        NEW x \in Ids, f[x] # Far, ~(f[x] <= k)
                 PROVE  FALSE
    OBVIOUS
  <2>2. f[x] > k
    BY <1>2, <2>1
  <2>3. Cardinality(ReachedIn(rows)) <= n
    BY <1>7, <2>1
  <2>4. ~(Onward(G, F, dir) \cap Unvisited(m, S) # {})
    BY <1>7, <2>1
  <2>. QED BY <1>13, <2>1, <2>2, <2>3, <2>4
<1>18. leg.horizon => OnePast(f, k)
  BY <1>7, <1>14 DEF OnePast
<1>19. leg.horizon \in BOOLEAN
  BY <1>7
<1>. QED BY <1>7, <1>8, <1>15, <1>16, <1>17, <1>18, <1>19 DEF LegSays

\* The smaller of two depths, symbol by symbol.
Lesser(d, a, b) == \A x \in Ids : d[x] = Smaller(a[x], b[x])

\* Taking the smaller depth of two legs keeps what each of them says.
LEMMA LegCutsMeet ==
    ASSUME NEW a \in [Ids -> 0..Far], NEW b \in [Ids -> 0..Far], NEW s \in [Ids -> 0..Far],
           NEW t \in [Ids -> 0..Far], NEW n \in Nat, LegCuts(a, s, n), LegCuts(b, t, n),
           NEW d, Lesser(d, a, b), NEW u, Lesser(u, s, t)
    PROVE  LegCuts(d, u, n)
<1>0. Far \in Nat /\ \A x \in Ids : /\ a[x] \in Nat /\ b[x] \in Nat /\ s[x] \in Nat /\ t[x] \in Nat
                                    /\ x \in Nat
  BY IdsAreCounted, IdsAreNumbered
<1>1. \A x \in Ids : /\ d[x] \in Nat /\ d[x] <= a[x] /\ d[x] <= b[x] /\ (d[x] = a[x] \/ d[x] = b[x])
                     /\ u[x] \in Nat /\ u[x] <= s[x] /\ u[x] <= t[x] /\ (u[x] = s[x] \/ u[x] = t[x])
  BY <1>0 DEF Smaller, Lesser
<1>2. \A x \in Ids : a[x] >= s[x] /\ b[x] >= t[x]
  BY <1>0 DEF LegCuts
<1>3. SUFFICES ASSUME NEW x \in Ids, d[x] # u[x]
               PROVE  d[x] > u[x] /\ Cardinality(Before(d, u[x], x)) >= n
  BY DEF LegCuts
<1>4. d[x] > u[x]
  BY <1>0, <1>1, <1>2, <1>3
<1>5. \A v \in Nat : Before(a, v, x) \subseteq Before(d, v, x) /\ Before(b, v, x) \subseteq Before(d, v, x)
  BY <1>0, <1>1 DEF Before
<1>6. CASE u[x] = s[x]
  <2>1. a[x] # s[x]
    BY <1>0, <1>1, <1>4, <1>6
  <2>2. Cardinality(Before(a, u[x], x)) >= n
    BY <1>6, <2>1 DEF LegCuts
  <2>3. Before(a, u[x], x) \subseteq Before(d, u[x], x)
    BY <1>1, <1>5
  <2>4. Cardinality(Before(a, u[x], x)) <= Cardinality(Before(d, u[x], x))
    BY <2>3, BeforeIsFinite, MoreIsLarger
  <2>. QED BY <1>4, <2>2, <2>4, BeforeIsFinite
<1>7. CASE u[x] = t[x]
  <2>1. b[x] # t[x]
    BY <1>0, <1>1, <1>4, <1>7
  <2>2. Cardinality(Before(b, u[x], x)) >= n
    BY <1>7, <2>1 DEF LegCuts
  <2>3. Before(b, u[x], x) \subseteq Before(d, u[x], x)
    BY <1>1, <1>5
  <2>4. Cardinality(Before(b, u[x], x)) <= Cardinality(Before(d, u[x], x))
    BY <2>3, BeforeIsFinite, MoreIsLarger
  <2>. QED BY <1>4, <2>2, <2>4, BeforeIsFinite
<1>. QED BY <1>1, <1>6, <1>7

\* The distance that SQLite's answer in a direction is about.
SqlFrom(G, S, dir) ==
    IF dir = "both"
    THEN [x \in Ids |-> Smaller(Mins(G, S, "dependents", Cardinality(Ids))[x],
                                Mins(G, S, "dependencies", Cardinality(Ids))[x])]
    ELSE Mins(G, S, dir, Cardinality(Ids))

LEMMA SqlFromTyped ==
    ASSUME NEW G, G.edges \subseteq Edge, NEW S \in SUBSET Ids, NEW dir \in Directions
    PROVE  SqlFrom(G, S, dir) \in [Ids -> 0..Far] /\ \A x \in Ids : SqlFrom(G, S, dir)[x] = 0 <=> x \in S
<1> DEFINE a == Mins(G, S, "dependents", Cardinality(Ids))
           b == Mins(G, S, "dependencies", Cardinality(Ids))
           c == Mins(G, S, dir, Cardinality(Ids))
<1>1. "dependents" \in Directions /\ "dependencies" \in Directions
  BY DEF Directions
<1>2. Measures(a, G, S, "dependents") /\ Measures(b, G, S, "dependencies") /\ Measures(c, G, S, dir)
  BY <1>1, MinsMeasure
<1>3. /\ a \in [Ids -> 0..Far] /\ \A x \in Ids : a[x] = 0 <=> x \in S
      /\ b \in [Ids -> 0..Far] /\ \A x \in Ids : b[x] = 0 <=> x \in S
      /\ c \in [Ids -> 0..Far] /\ \A x \in Ids : c[x] = 0 <=> x \in S
  BY <1>2 DEF Measures
<1>4. SqlFrom(G, S, dir) = IF dir = "both" THEN [x \in Ids |-> Smaller(a[x], b[x])] ELSE c
  BY DEF SqlFrom
<1> HIDE DEF a, b, c
<1>. QED BY <1>3, <1>4, IdsAreCounted DEF Smaller

\* One direction or both, walked k hops from S.
LEMMA BothLegsMean ==
    ASSUME ask \in Questions, NEW S \in SUBSET Ids, NEW dir \in Directions, NEW k \in Nat, NEW n \in Nat,
           k = 0 => Cardinality(S) <= n,
           NEW leg \in BothLegs(S, dir, k, n), NEW f, f = SqlFrom(ask.graph, S, dir)
    PROVE  LegSays(leg, f, S, k, n) /\ (leg.horizon /\ dir # "both" => OnePast(f, k))
<1>1. CASE dir # "both"
  <2>1. leg \in Legs(S, dir, k, n) /\ f = Mins(ask.graph, S, dir, Cardinality(Ids))
    BY <1>1 DEF BothLegs, SqlFrom
  <2>. QED BY <1>1, <2>1, LegMeans
<1>2. CASE dir = "both"
  <2> DEFINE fa == Mins(ask.graph, S, "dependents", Cardinality(Ids))
             fb == Mins(ask.graph, S, "dependencies", Cardinality(Ids))
  <2>0. "dependents" \in Directions /\ "dependencies" \in Directions
    BY DEF Directions
  <2>1. PICK a \in Legs(S, "dependents", k, n), b \in Legs(S, "dependencies", k, n) :
            leg = [depths |-> [x \in Ids |-> Smaller(a.depths[x], b.depths[x])],
                   horizon |-> a.horizon \/ b.horizon]
    BY <1>2 DEF BothLegs
  <2>2. leg.depths = [x \in Ids |-> Smaller(a.depths[x], b.depths[x])] /\ leg.horizon = (a.horizon \/ b.horizon)
    BY <2>1
  <2>3. f = [x \in Ids |-> Smaller(fa[x], fb[x])]
    BY <1>2 DEF SqlFrom
  <2>4. /\ a.depths \in [Ids -> 0..Far] /\ a.horizon \in BOOLEAN
        /\ LegCuts(a.depths, Cut(fa, S, k), n + 1)
        /\ Cardinality(ReachedIn(a.depths)) <= n =>
              /\ a.depths = Cut(fa, S, k)
              /\ ~a.horizon => \A x \in Ids : fa[x] = Far \/ fa[x] <= k
    <3>1. LegSays(a, fa, S, k, n)
      BY <2>0, LegMeans
    <3>. QED BY <3>1 DEF LegSays
  <2>5. /\ b.depths \in [Ids -> 0..Far] /\ b.horizon \in BOOLEAN
        /\ LegCuts(b.depths, Cut(fb, S, k), n + 1)
        /\ Cardinality(ReachedIn(b.depths)) <= n =>
              /\ b.depths = Cut(fb, S, k)
              /\ ~b.horizon => \A x \in Ids : fb[x] = Far \/ fb[x] <= k
    <3>1. LegSays(b, fb, S, k, n)
      BY <2>0, LegMeans
    <3>. QED BY <3>1 DEF LegSays
  <2>6. fa \in [Ids -> 0..Far] /\ fb \in [Ids -> 0..Far] /\ n + 1 \in Nat
    <3>1. ask.graph.edges \subseteq Edge
      BY Asked
    <3>. QED BY <2>0, <3>1, MinsTyped, IdsAreCounted
  <2> HIDE DEF fa, fb
  <2>7. Cut(fa, S, k) \in [Ids -> 0..Far] /\ Cut(fb, S, k) \in [Ids -> 0..Far]
    BY <2>6, CutTyped
  <2>8. Cut(f, S, k) = [x \in Ids |-> Smaller(Cut(fa, S, k)[x], Cut(fb, S, k)[x])]
    <3>1. \A x \in Ids : fa[x] \in 0..Far /\ fb[x] \in 0..Far
      BY <2>6
    <3>. QED BY <2>3, <3>1, IdsAreCounted DEF Cut, Smaller
  <2>9. leg.depths \in [Ids -> 0..Far] /\ leg.horizon \in BOOLEAN
    BY <2>2, <2>4, <2>5, IdsAreCounted DEF Smaller
  <2>10. LegCuts(leg.depths, Cut(f, S, k), n + 1)
    <3>1. LegCuts(a.depths, Cut(fa, S, k), n + 1) /\ LegCuts(b.depths, Cut(fb, S, k), n + 1)
      BY <2>4, <2>5
    <3>2. a.depths \in [Ids -> 0..Far] /\ b.depths \in [Ids -> 0..Far] /\ n + 1 \in Nat
      BY <2>4, <2>5, <2>6
    <3>3. \A x \in Ids : leg.depths[x] = Smaller(a.depths[x], b.depths[x])
      BY <2>2
    <3>4. \A x \in Ids : Cut(f, S, k)[x] = Smaller(Cut(fa, S, k)[x], Cut(fb, S, k)[x])
      BY <2>8
    <3> DEFINE ad == a.depths
               bd == b.depths
               ld == leg.depths
               cf == Cut(f, S, k)
               ca == Cut(fa, S, k)
               cb == Cut(fb, S, k)
    <3>5. /\ LegCuts(ad, ca, n + 1) /\ LegCuts(bd, cb, n + 1)
          /\ ad \in [Ids -> 0..Far] /\ bd \in [Ids -> 0..Far] /\ n + 1 \in Nat
          /\ ca \in [Ids -> 0..Far] /\ cb \in [Ids -> 0..Far]
          /\ Lesser(ld, ad, bd) /\ Lesser(cf, ca, cb)
      BY <2>7, <3>1, <3>2, <3>3, <3>4 DEF Lesser
    <3>6. LegCuts(ld, cf, n + 1)
      <4> HIDE DEF ad, bd, ld, cf, ca, cb
      <4>. QED BY <3>5, LegCutsMeet
    <3>. QED BY <3>6
  <2>11. ASSUME Cardinality(ReachedIn(leg.depths)) <= n
         PROVE  /\ Cardinality(ReachedIn(a.depths)) <= n
                /\ Cardinality(ReachedIn(b.depths)) <= n
    <3>1. \A x \in Ids : a.depths[x] \in 0..Far /\ b.depths[x] \in 0..Far
      BY <2>4, <2>5
    <3>2. /\ ReachedIn(a.depths) \subseteq ReachedIn(leg.depths)
          /\ ReachedIn(b.depths) \subseteq ReachedIn(leg.depths)
      BY <2>2, <3>1, IdsAreCounted DEF ReachedIn, Smaller
    <3>3. /\ Cardinality(ReachedIn(a.depths)) <= Cardinality(ReachedIn(leg.depths))
          /\ Cardinality(ReachedIn(b.depths)) <= Cardinality(ReachedIn(leg.depths))
      BY <3>2, ReachedIsFinite, MoreIsLarger
    <3>. QED BY <2>11, <3>3, ReachedIsFinite
  <2>12. ASSUME Cardinality(ReachedIn(leg.depths)) <= n PROVE leg.depths = Cut(f, S, k)
    <3>1. a.depths = Cut(fa, S, k) /\ b.depths = Cut(fb, S, k)
      BY <2>4, <2>5, <2>11, <2>12
    <3>. QED BY <2>2, <2>8, <3>1
  <2>13. ASSUME Cardinality(ReachedIn(leg.depths)) <= n, ~leg.horizon, NEW x \in Ids
         PROVE  f[x] = Far \/ f[x] <= k
    <3>1. (fa[x] = Far \/ fa[x] <= k) /\ (fb[x] = Far \/ fb[x] <= k)
      BY <2>2, <2>4, <2>5, <2>11, <2>13
    <3>. QED BY <2>3, <3>1 DEF Smaller
  <2>. QED BY <1>2, <2>9, <2>10, <2>12, <2>13 DEF LegSays
<1>. QED BY <1>1, <1>2

\* What an answer of SQLite says of the distance from its seeds: [depths, cap, horizon]
\* for a depth of k.
SqlSays(a, f, S, k) ==
    /\ a.depths \in [Ids -> 0..Far] /\ a.cap \in BOOLEAN /\ a.horizon \in BOOLEAN
    /\ \A x \in S : a.depths[x] = Far
    /\ ~a.cap => a.depths = Cut(f, S, k)
    /\ ~a.cap /\ ~a.horizon => \A x \in Ids : f[x] = Far \/ f[x] <= k
    /\ a.cap => \E y \in Ids \ (ReachedIn(a.depths) \cup S) : f[y] # Far
    /\ \A x \in ReachedIn(a.depths) :
          /\ a.depths[x] = f[x] /\ f[x] <= k
          /\ \A y \in Ids \ (ReachedIn(a.depths) \cup S) : f[x] <= f[y]

\* The nodes and edges of an answer from SQLite.
SqlTells(a, f, S, dir, k, n) ==
    /\ SqlSays(a, f, S, k)
    /\ ~a.cap => Cardinality(ReachedIn(a.depths)) <= n
    /\ a.horizon /\ dir # "both" => OnePast(f, k)
    /\ a.nodes \in Seq(Ids) /\ ToSet(a.nodes) = NodesIn(ask, S \cup ReachedIn(a.depths))
    /\ a.edges = UNION {Incident(ask.graph, x, dir) : x \in S \cup ReachedIn(a.depths)}

\* An answer of SQLite says what SqlSays and SqlTells promise.
LEMMA SqlMeans ==
    ASSUME ask \in Questions, NEW starts \in Seq(Ids), NEW S, S = ToSet(starts),
           NEW dir \in Directions, NEW k \in Nat, NEW n \in Nat,
           k = 0 => Cardinality(S) <= n,
           NEW a \in SqlAnswers(starts, dir, k, n), NEW f, f = SqlFrom(ask.graph, S, dir)
    PROVE  SqlTells(a, f, S, dir, k, n)
<1>0. ask.graph.edges \subseteq Edge /\ S \in SUBSET Ids /\ Far \in Nat
  BY Asked, ListRange, IdsAreCounted
<1>1. PICK leg \in BothLegs(S, dir, k, n) : a = SqlAnswer(starts, dir, n, leg)
  BY DEF SqlAnswers
<1> DEFINE g == leg.depths
           d == Nearest(g, n)
           t == Cut(f, S, k)
<1>2. /\ a.depths = d /\ a.cap = (Cardinality(ReachedIn(g)) > n) /\ a.horizon = leg.horizon
      /\ a.nodes = AddNodes(AddNodes(<<>>, starts), SetToSeq(ReachedIn(d)))
      /\ a.edges = UNION {Incident(ask.graph, x, dir) : x \in S \cup ReachedIn(d)}
  BY <1>1 DEF SqlAnswer
<1>3. /\ g \in [Ids -> 0..Far] /\ leg.horizon \in BOOLEAN
      /\ LegCuts(g, t, n + 1)
      /\ Cardinality(ReachedIn(g)) <= n =>
            /\ g = t
            /\ ~leg.horizon => \A x \in Ids : f[x] = Far \/ f[x] <= k
      /\ leg.horizon /\ dir # "both" => OnePast(f, k)
  <2>1. LegSays(leg, f, S, k, n) /\ (leg.horizon /\ dir # "both" => OnePast(f, k))
    <3> HIDE DEF d, t, g
    <3>. QED BY <1>0, BothLegsMean
  <2>. QED BY <2>1 DEF LegSays
<1>4. f \in [Ids -> 0..Far] /\ \A x \in Ids : f[x] \in Nat
  <2>1. f \in [Ids -> 0..Far]
    BY <1>0, SqlFromTyped
  <2>. QED BY <1>0, <2>1
<1>5. /\ t \in [Ids -> 0..Far]
      /\ \A x \in Ids : t[x] = IF x \in S \/ f[x] > k THEN Far ELSE f[x]
  BY <1>4, CutTyped DEF Cut
<1>6. /\ d \in [Ids -> 0..Far]
      /\ \A x \in Ids : d[x] = IF Cardinality(Before(g, g[x], x)) < n THEN g[x] ELSE Far
  BY <1>3, NearestMeans
<1>7. Cardinality(ReachedIn(d)) <= n
  BY <1>3, NearestAreFew
<1>8. ReachedIn(d) \in SUBSET Ids /\ IsFiniteSet(ReachedIn(d))
  BY ReachedIsFinite
<1>9. a.nodes \in Seq(Ids) /\ ToSet(a.nodes) = NodesIn(ask, S \cup ReachedIn(d))
  <2>1. SetToSeq(ReachedIn(d)) \in Seq(ReachedIn(d)) /\ ToSet(SetToSeq(ReachedIn(d))) = ReachedIn(d)
    BY <1>8, ListedOnce
  <2>2. SetToSeq(ReachedIn(d)) \in Seq(Ids)
    BY <1>8, <2>1, SeqMonotonic
  <2>3. <<>> \in Seq(Ids) /\ ToSet(<<>>) = {}
    BY ListRangeEmpty
  <2>4. AddNodes(<<>>, starts) \in Seq(Ids) /\ ToSet(AddNodes(<<>>, starts)) = NodesIn(ask, S)
    <3>1. /\ AddNodes(<<>>, starts) \in Seq(Ids)
          /\ ToSet(AddNodes(<<>>, starts)) = ToSet(<<>>) \cup NodesIn(ask, ToSet(starts))
      BY <2>3, AddNodesMeans
    <3>. QED BY <2>3, <3>1
  <2>5. /\ a.nodes \in Seq(Ids)
        /\ ToSet(a.nodes) = NodesIn(ask, S) \cup NodesIn(ask, ReachedIn(d))
    BY <1>2, <2>1, <2>2, <2>4, AddNodesMeans
  <2>. QED BY <2>5 DEF NodesIn
<1> HIDE DEF d, t, g
<1>9a. /\ Cardinality(ReachedIn(g)) \in Nat /\ Cardinality(ReachedIn(d)) \in Nat
       /\ ~a.cap => Cardinality(ReachedIn(g)) <= n
       /\ a.cap => Cardinality(ReachedIn(g)) > n
  <2>1. Cardinality(ReachedIn(g)) \in Nat /\ Cardinality(ReachedIn(d)) \in Nat
    BY ReachedIsFinite
  <2>2. a.cap = (Cardinality(ReachedIn(g)) > n)
    BY <1>2 DEF g
  <2>3. Cardinality(ReachedIn(g)) > n <=> ~(Cardinality(ReachedIn(g)) <= n)
    BY <2>1
  <2> HIDE DEF g
  <2>4. ~a.cap => Cardinality(ReachedIn(g)) <= n
    BY <2>2, <2>3, Zenon
  <2>5. a.cap => Cardinality(ReachedIn(g)) > n
    BY <2>2, <2>3, Zenon
  <2>. QED BY <2>1, <2>4, <2>5
<1>10. \A x \in S : t[x] = Far /\ g[x] = Far /\ d[x] = Far
  <2>1. \A x \in Ids : g[x] = t[x] \/ g[x] > t[x]
    BY <1>3 DEF LegCuts
  <2>. QED BY <1>0, <1>3, <1>5, <1>6, <2>1
<1>11. ASSUME ~a.cap PROVE d = t
  <2>1. Cardinality(ReachedIn(g)) <= n
    BY <1>9a, <1>11
  <2>. QED BY <1>3, <2>1, FewAreKept DEF d
<1>12. ASSUME ~a.cap, ~a.horizon PROVE \A x \in Ids : f[x] = Far \/ f[x] <= k
  <2>1. Cardinality(ReachedIn(g)) <= n
    BY <1>9a, <1>12
  <2>. QED BY <1>2, <1>3, <1>12, <2>1
<1>13. ASSUME a.cap PROVE \E y \in Ids \ (ReachedIn(d) \cup S) : f[y] # Far
  <2>1. Cardinality(ReachedIn(g)) > Cardinality(ReachedIn(d))
    BY <1>7, <1>9a, <1>13
  <2>2. ~(ReachedIn(g) \subseteq ReachedIn(d))
    <3>1. ReachedIn(g) \subseteq ReachedIn(d) => Cardinality(ReachedIn(g)) <= Cardinality(ReachedIn(d))
      BY <1>8, MoreIsLarger
    <3>. QED BY <2>1, <3>1, ReachedIsFinite
  <2>3. PICK y \in ReachedIn(g) : y \notin ReachedIn(d)
    BY <2>2
  <2>4. y \in Ids /\ g[y] # Far /\ y \notin S
    BY <1>10, <2>3 DEF ReachedIn
  <2>5. g[y] >= t[y] /\ g[y] \in 0..Far /\ t[y] \in 0..Far
    BY <1>3, <1>5, <2>4 DEF LegCuts
  <2>6. t[y] # Far
    BY <1>0, <2>4, <2>5
  <2>. QED BY <1>5, <2>3, <2>4, <2>6
<1>14. ASSUME NEW x \in ReachedIn(d)
       PROVE  /\ x \in Ids /\ d[x] = g[x] /\ g[x] = f[x] /\ f[x] <= k /\ x \notin S
              /\ Cardinality(Before(g, g[x], x)) < n /\ g[x] \in Nat
  <2>1. x \in Ids /\ d[x] # Far
    BY <1>14 DEF ReachedIn
  <2>2. d[x] = g[x] /\ Cardinality(Before(g, g[x], x)) < n /\ g[x] \in 0..Far
    BY <1>3, <1>6, <2>1
  <2>3. g[x] = t[x]
    <3>1. SUFFICES ASSUME g[x] > t[x], Cardinality(Before(g, t[x], x)) >= n + 1 PROVE FALSE
      BY <1>3, <2>1 DEF LegCuts
    <3>2. Before(g, t[x], x) \subseteq Before(g, g[x], x)
      <4>1. \A y \in Ids : g[y] \in 0..Far /\ t[y] \in 0..Far
        BY <1>3, <1>5
      <4>. QED BY <1>0, <2>1, <3>1, <4>1 DEF Before
    <3>3. Cardinality(Before(g, t[x], x)) <= Cardinality(Before(g, g[x], x))
      BY <3>2, BeforeIsFinite, MoreIsLarger
    <3>. QED BY <2>2, <3>1, <3>3, BeforeIsFinite
  <2>. QED BY <1>4, <1>5, <1>10, <2>1, <2>2, <2>3
<1>15. ASSUME NEW x \in ReachedIn(d), NEW y \in Ids \ (ReachedIn(d) \cup S) PROVE f[x] <= f[y]
  <2>1. SUFFICES ASSUME f[y] < f[x] PROVE FALSE
    BY <1>4, <1>14
  <2>2. /\ x \in Ids /\ g[x] = f[x] /\ f[x] <= k /\ Cardinality(Before(g, g[x], x)) < n
        /\ f[x] \in Nat /\ f[y] \in Nat /\ f[x] <= Far
    BY <1>0, <1>4, <1>14
  <2>3. t[y] = f[y]
    BY <1>5, <2>1, <2>2
  <2>4. \A z \in Ids : g[z] \in 0..Far /\ z \in Nat
    BY <1>3, IdsAreNumbered
  <2>5. Before(g, f[y], y) \subseteq Before(g, g[x], x)
    BY <1>0, <2>1, <2>2, <2>4 DEF Before
  <2>6. Cardinality(Before(g, f[y], y)) <= Cardinality(Before(g, g[x], x))
    BY <2>5, BeforeIsFinite, MoreIsLarger
  <2>7. CASE g[y] = t[y]
    <3>1. Cardinality(Before(g, g[y], y)) < n
      BY <2>2, <2>3, <2>6, <2>7, BeforeIsFinite
    <3>2. d[y] = g[y] /\ d[y] # Far
      BY <1>0, <1>6, <2>1, <2>2, <2>3, <2>7, <3>1
    <3>. QED BY <3>2 DEF ReachedIn
  <2>8. CASE g[y] # t[y]
    <3>1. Cardinality(Before(g, f[y], y)) >= n + 1
      BY <1>3, <2>3, <2>8 DEF LegCuts
    <3>. QED BY <2>2, <2>6, <3>1, BeforeIsFinite
  <2>. QED BY <2>7, <2>8
<1>16. SqlSays(a, f, S, k)
  <2>1. a.depths = d /\ a.cap \in BOOLEAN /\ a.horizon \in BOOLEAN
    BY <1>2, <1>3
  <2>2. t = Cut(f, S, k)
    BY DEF t
  <2>. QED BY <1>6, <1>10, <1>11, <1>12, <1>13, <1>14, <1>15, <2>1, <2>2 DEF SqlSays
<1>17. a.edges = UNION {Incident(ask.graph, x, dir) : x \in S \cup ReachedIn(a.depths)}
  BY <1>2
<1>. QED BY <1>2, <1>3, <1>7, <1>9, <1>16, <1>17 DEF SqlTells

LEMMA SqlAnswersTell ==
    ASSUME ask \in Questions, NEW starts \in Seq(Ids), NEW dir \in Directions, NEW k \in Nat, NEW n \in Nat,
           k = 0 => Cardinality(ToSet(starts)) <= n, NEW a \in SqlAnswers(starts, dir, k, n)
    PROVE  SqlTells(a, SqlFrom(ask.graph, ToSet(starts), dir), ToSet(starts), dir, k, n)
<1> DEFINE S == ToSet(starts)
           f == SqlFrom(ask.graph, S, dir)
<1>1. S = ToSet(starts) /\ f = SqlFrom(ask.graph, S, dir) /\ (k = 0 => Cardinality(S) <= n)
  OBVIOUS
<1>2. SqlTells(a, f, S, dir, k, n)
  <2> HIDE DEF S, f
  <2>. QED BY <1>1, SqlMeans
<1>. QED BY <1>2

-----------------------------------------------------------------------------
(* What an answer owes, as a property of the question and the answer. *)

\* Distance and WalksAreHonest, of a question and an answer.
Dist(q) ==
    IF q.dir = "both" /\ q.engine = "sqlite" THEN SqlFrom(q.graph, ToSet(q.seeds), "both")
    ELSE Mins(q.graph, ToSet(q.seeds), q.dir, Cardinality(Ids))

Honest(q, a) ==
    LET S == ToSet(q.seeds)
        f == Dist(q)
        R == ReachedIn(a.depths)
        one == q.engine = "sqlite" \/ Len(q.seeds) = 1
    IN /\ ~a.cap => \A x \in Ids : x \notin S => a.depths[x] = IF f[x] > q.depth THEN Far ELSE f[x]
       /\ ~a.cap /\ ~a.horizon => \A x \in Ids : f[x] = Far \/ f[x] <= q.depth
       /\ one /\ a.cap => /\ R # {} => \E y \in Ids \ R : y \notin S /\ f[y] # Far
                          /\ \A x \in R, y \in Ids \ R :
                                a.depths[x] = f[x] /\ (y \in S \/ f[x] <= f[y])
       /\ (one /\ ~(q.engine = "sqlite" /\ q.dir = "both") /\ ~a.cap /\ a.horizon) =>
             \E x \in Ids : f[x] = q.depth + 1

\* An honest answer makes the property hold in the next state.
LEMMA HonestyNext ==
    ASSUME ask' = ask, Honest(ask, sub')
    PROVE  WalksAreHonest'
<1> DEFINE S == ToSet(ask.seeds)
<1>1. (ReachedIn(sub.depths))' = ReachedIn(sub'.depths)
  BY DEF ReachedIn
<1>2. Distance' = Dist(ask)
  BY DEF Distance, Dist, SqlFrom
<1>3. OneWalk' = (ask.engine = "sqlite" \/ Len(ask.seeds) = 1)
  BY DEF OneWalk
<1> DEFINE R == ReachedIn(sub'.depths)
           f == Dist(ask)
           one == ask.engine = "sqlite" \/ Len(ask.seeds) = 1
<1>4. /\ ~sub'.cap => \A x \in Ids : x \notin S => sub'.depths[x] = IF f[x] > ask.depth THEN Far ELSE f[x]
      /\ ~sub'.cap /\ ~sub'.horizon => \A x \in Ids : f[x] = Far \/ f[x] <= ask.depth
      /\ one /\ sub'.cap => /\ R # {} => \E y \in Ids \ R : y \notin S /\ f[y] # Far
                            /\ \A x \in R, y \in Ids \ R :
                                  sub'.depths[x] = f[x] /\ (y \in S \/ f[x] <= f[y])
      /\ (one /\ ~(ask.engine = "sqlite" /\ ask.dir = "both") /\ ~sub'.cap /\ sub'.horizon) =>
            \E x \in Ids : f[x] = ask.depth + 1
  BY DEF Honest
<1>5. f = Distance' /\ R = (ReachedIn(sub.depths))' /\ one = OneWalk' /\ S = ToSet(ask.seeds)'
  BY <1>1, <1>2, <1>3
<1>. QED
  <2> HIDE DEF f, R, one, S
  <2>. QED BY <1>4, <1>5 DEF WalksAreHonest

\* SQLite's answers are honest.
LEMMA SqlIsHonest ==
    ASSUME ask \in Questions, ask.engine = "sqlite",
           NEW a \in SqlAnswers(ask.seeds, ask.dir, ask.depth, ask.cap)
    PROVE  /\ Honest(ask, a)
           /\ AnswerTyped(ask, a)
           /\ \A x \in ToSet(a.nodes) : HasNode(x)
<1> DEFINE S == ToSet(ask.seeds)
           f == SqlFrom(ask.graph, S, ask.dir)
           R == ReachedIn(a.depths)
<1>1. /\ ask.seeds \in Seq(Ids) /\ S \in SUBSET Ids /\ ask.dir \in Directions
      /\ ask.depth \in Nat /\ ask.cap \in Nat /\ (ask.depth = 0 => Cardinality(S) <= ask.cap)
      /\ ask.graph.edges \subseteq Edge
  BY Asked
<1>2. /\ SqlSays(a, f, S, ask.depth)
      /\ a.horizon /\ ask.dir # "both" => OnePast(f, ask.depth)
      /\ a.nodes \in Seq(Ids) /\ ToSet(a.nodes) = NodesIn(ask, S \cup R)
      /\ a.edges = UNION {Incident(ask.graph, x, ask.dir) : x \in S \cup R}
  <2>1. SqlTells(a, f, S, ask.dir, ask.depth, ask.cap)
    BY <1>1, SqlAnswersTell
  <2>. QED BY <2>1 DEF SqlTells
<1>3. Dist(ask) = f
  BY DEF Dist, SqlFrom
<1>4. f \in [Ids -> 0..Far]
  BY <1>1, SqlFromTyped
<1>5. R \subseteq Ids
  BY DEF ReachedIn
<1>6. a \in [nodes : Seq(Ids), edges : SUBSET ask.graph.edges, depths : [Ids -> 0..Far],
             cap : BOOLEAN, horizon : BOOLEAN]
  <2>1. PICK leg \in BothLegs(S, ask.dir, ask.depth, ask.cap) : a = SqlAnswer(ask.seeds, ask.dir, ask.cap, leg)
    BY DEF SqlAnswers
  <2>2. a = [nodes |-> a.nodes, edges |-> a.edges, depths |-> a.depths, cap |-> a.cap, horizon |-> a.horizon]
    BY <2>1 DEF SqlAnswer
  <2>3. a.edges \subseteq ask.graph.edges
    BY <1>2 DEF Incident
  <2>4. a.depths \in [Ids -> 0..Far] /\ a.cap \in BOOLEAN /\ a.horizon \in BOOLEAN
    BY <1>2 DEF SqlSays
  <2>. QED BY <1>2, <2>2, <2>3, <2>4
<1>7. \A x \in ToSet(a.nodes) : HasNode(x)
  BY <1>2 DEF NodesIn, HasNode
<1>8. Honest(ask, a)
  <2>1. \A x \in Ids : f[x] \in 0..Far
    BY <1>4
  <2> HIDE DEF f
  <2>2. /\ ~a.cap => a.depths = Cut(f, S, ask.depth)
        /\ ~a.cap /\ ~a.horizon => \A x \in Ids : f[x] = Far \/ f[x] <= ask.depth
        /\ a.cap => \E y \in Ids \ (R \cup S) : f[y] # Far
        /\ \A x \in R : /\ a.depths[x] = f[x] /\ f[x] <= ask.depth
                        /\ \A y \in Ids \ (R \cup S) : f[x] <= f[y]
    BY <1>2 DEF SqlSays
  <2>3. ~a.cap => \A x \in Ids : x \notin S => a.depths[x] = IF f[x] > ask.depth THEN Far ELSE f[x]
    BY <2>2 DEF Cut
  <2>4. ask.dir # "both" /\ a.horizon => \E x \in Ids : f[x] = ask.depth + 1
    BY <1>2 DEF OnePast
  <2> HIDE DEF R, S
  <2>. QED BY <1>3, <2>2, <2>3, <2>4 DEF Honest, R, S
<1>. QED BY <1>6, <1>7, <1>8 DEF AnswerTyped

\* The answer and its seeds are all that can be reached.
Spans(a, S, f) == S \cup ReachedIn(a.depths) = {x \in Ids : f[x] # Far}

\* The directed answers that carry no mark hold all that can be reached.
LEMMA UnmarkedIsWhole ==
    ASSUME NEW a, NEW S \in SUBSET Ids, NEW k \in Nat, NEW f \in [Ids -> 0..Far],
           \A x \in Ids : f[x] = 0 <=> x \in S,
           SqlSays(a, f, S, k), ~a.cap, ~a.horizon
    PROVE  Spans(a, S, f)
<1>1. /\ a.depths = Cut(f, S, k)
      /\ \A x \in Ids : f[x] = Far \/ f[x] <= k
  BY DEF SqlSays
<1>2. Far \in Nat \ {0} /\ \A x \in Ids : f[x] \in Nat
  BY IdsAreCounted
<1>3. \A x \in Ids : x \in ReachedIn(a.depths) <=> f[x] # Far /\ x \notin S
  BY <1>1, <1>2 DEF ReachedIn, Cut
<1>4. ReachedIn(a.depths) \subseteq Ids
  BY DEF ReachedIn
<1>. QED BY <1>2, <1>3, <1>4 DEF Spans

\* Rows and BlastIsHonest, of a question and an answer.
RowsOf(q, nodes, edges, start) ==
    {x \in nodes \ {start} : \/ q.graph.kind[start] = "file"
                             \/ q.graph.kind[x] = "file" => x \in Sources(edges)}

EdgesAt(q, S) == UNION {Incident(q.graph, x, "dependents") : x \in S}

BlastFrom(q, S) == Mins(q.graph, S, "dependents", Cardinality(Ids))

BlastSays(q, a) ==
    (q.use = "blast" /\ ~a.cap /\ ~a.horizon) =>
        LET all == {x \in Ids : BlastFrom(q, {q.seeds[1]})[x] # Far}
        IN RowsOf(q, ToSet(a.nodes), a.edges, q.seeds[1]) =
              RowsOf(q, NodesIn(q, all), EdgesAt(q, all), q.seeds[1])

LEMMA BlastNext ==
    ASSUME ask' = ask, BlastSays(ask, sub')
    PROVE  BlastIsHonest'
<1> DEFINE all == {x \in Ids : BlastFrom(ask, {ask.seeds[1]})[x] # Far}
<1>1. (ask.use = "blast" /\ ~sub'.cap /\ ~sub'.horizon) =>
          RowsOf(ask, ToSet(sub'.nodes), sub'.edges, ask.seeds[1]) =
              RowsOf(ask, NodesIn(ask, all), EdgesAt(ask, all), ask.seeds[1])
  BY DEF BlastSays
<1>2. NodesIn(ask, all) = {x \in all : ask'.graph.kind[x] # "none"}
  BY DEF NodesIn
<1>3. EdgesAt(ask, all) = UNION {Incident(ask'.graph, x, "dependents") : x \in all}
  BY DEF EdgesAt
<1>4. ASSUME pc' = "done", ask.use = "blast", ~sub'.cap, ~sub'.horizon
      PROVE  RowsOf(ask, ToSet(sub'.nodes), sub'.edges, ask.seeds[1]) =
                RowsOf(ask, {x \in all : ask'.graph.kind[x] # "none"},
                       UNION {Incident(ask'.graph, x, "dependents") : x \in all}, ask.seeds[1])
  <2> HIDE DEF all
  <2>. QED BY <1>1, <1>2, <1>3, <1>4
<1>. QED BY <1>4 DEF BlastIsHonest, RowsOf, Rows, BlastFrom, HasNode

\* The answer of a blast radius holds the rows of the unbounded one.
LEMMA SameNodesSameRows ==
    ASSUME NEW a, NEW s, NEW all, s = ask.seeds[1], all = {x \in Ids : BlastFrom(ask, {s})[x] # Far},
           ToSet(a.nodes) = NodesIn(ask, all), a.edges = EdgesAt(ask, all)
    PROVE  BlastSays(ask, a)
  BY DEF BlastSays


\* The facts of a blast radius of one symbol, apart from the variables.
Blasts(q, G, s, S, k, n, f) ==
    /\ q \in Questions /\ G = q.graph /\ s = q.seeds[1] /\ s \in Ids /\ S = {s} /\ S = ToSet(q.seeds)
    /\ k = q.depth /\ n = q.cap /\ q.dir = "dependents" /\ q.seeds \in Seq(Ids)
    /\ G.edges \subseteq Edge /\ k \in Nat /\ n \in Nat /\ "dependents" \in Directions
    /\ S \in SUBSET Ids /\ (k = 0 => Cardinality(S) <= n)
    /\ f = BlastFrom(q, S) /\ f = SqlFrom(G, S, "dependents")
    /\ Measures(f, G, S, "dependents")

LEMMA BlastFromMeasures ==
    ASSUME NEW q, q.graph.edges \subseteq Edge, NEW S \in SUBSET Ids
    PROVE  /\ BlastFrom(q, S) = SqlFrom(q.graph, S, "dependents")
           /\ Measures(BlastFrom(q, S), q.graph, S, "dependents")
<1>1. "dependents" \in Directions
  BY DEF Directions
<1>2. Measures(Mins(q.graph, S, "dependents", Cardinality(Ids)), q.graph, S, "dependents")
  BY <1>1, MinsMeasure
<1>. QED BY <1>2 DEF BlastFrom, SqlFrom

LEMMA BlastIsAsked ==
    ASSUME NEW q \in Questions, q.use = "blast"
    PROVE  Blasts(q, q.graph, q.seeds[1], {q.seeds[1]}, q.depth, q.cap, BlastFrom(q, {q.seeds[1]}))
<1>1. q.seeds \in Seq(Ids) /\ Len(q.seeds) = 1 /\ q.dir = "dependents" /\ q.graph.edges \subseteq Edge
  BY QuestionsAreAsked
<1>2. q.seeds[1] \in Ids /\ ToSet(q.seeds) = {q.seeds[1]}
  BY <1>1 DEF ToSet
<1>3. /\ q.depth \in Nat /\ q.cap \in Nat /\ (q.depth = 0 => Cardinality({q.seeds[1]}) <= q.cap)
      /\ "dependents" \in Directions
  BY <1>2, Asked DEF Directions
<1>4. /\ BlastFrom(q, {q.seeds[1]}) = SqlFrom(q.graph, {q.seeds[1]}, "dependents")
      /\ Measures(BlastFrom(q, {q.seeds[1]}), q.graph, {q.seeds[1]}, "dependents")
  BY <1>1, <1>2, BlastFromMeasures
<1>. QED BY <1>1, <1>2, <1>3, <1>4 DEF Blasts

DependentsSay(a, T, k, n) ==
    /\ SqlSays(a, BlastFrom(ask, T), T, k)
    /\ ~a.cap => Cardinality(ReachedIn(a.depths)) <= n
    /\ ToSet(a.nodes) = NodesIn(ask, T \cup ReachedIn(a.depths))
    /\ a.edges = EdgesAt(ask, T \cup ReachedIn(a.depths))

\* An answer of the walk along the dependents of T.
LEMMA DependentsTell ==
    ASSUME ask \in Questions, NEW starts \in Seq(Ids), NEW T, T = ToSet(starts), NEW k \in Nat, NEW n \in Nat,
           k = 0 => Cardinality(T) <= n, NEW a \in SqlAnswers(starts, "dependents", k, n)
    PROVE  DependentsSay(a, T, k, n)
<1>1. "dependents" \in Directions /\ T \in SUBSET Ids /\ ask.graph.edges \subseteq Edge
  BY ListRange, Asked DEF Directions
<1>2. SqlTells(a, SqlFrom(ask.graph, T, "dependents"), T, "dependents", k, n)
  BY <1>1, SqlAnswersTell
<1>3. SqlFrom(ask.graph, T, "dependents") = BlastFrom(ask, T)
  BY <1>1, BlastFromMeasures
<1>4. SqlTells(a, BlastFrom(ask, T), T, "dependents", k, n)
  BY <1>2, <1>3
<1>. QED BY <1>4 DEF SqlTells, EdgesAt, DependentsSay

LEMMA BlastFromTyped ==
    ASSUME NEW q, q.graph.edges \subseteq Edge, NEW S \in SUBSET Ids
    PROVE  BlastFrom(q, S) \in [Ids -> 0..Far] /\ \A x \in Ids : BlastFrom(q, S)[x] = 0 <=> x \in S
<1>1. Measures(BlastFrom(q, S), q.graph, S, "dependents")
  BY BlastFromMeasures
<1>. QED BY <1>1 DEF Measures

\* A holds all that f reaches; A is closed under hops.
AllWithin(f, A) == \A x \in Ids : f[x] # Far => x \in A
Closed(G, A, dir) == \A x \in A : Onward(G, {x}, dir) \subseteq A

LEMMA ClosedIsAll ==
    ASSUME NEW G, G.edges \subseteq Edge, NEW dir \in Directions, NEW S \in SUBSET Ids,
           NEW f, Measures(f, G, S, dir), NEW A \in SUBSET Ids, S \subseteq A, Closed(G, A, dir)
    PROVE  AllWithin(f, A)
<1>1. \A x \in A : Onward(G, {x}, dir) \subseteq A
  BY DEF Closed
<1>2. \A x \in Ids : f[x] # Far => x \in A
  BY <1>1, ClosedIsWhole
<1>. QED BY <1>2 DEF AllWithin

\* g goes on from where f is k, to all that lies past it.
SplitsAt(f, g, k) ==
    {x \in Ids : f[x] # Far} = {x \in Ids : f[x] # Far /\ f[x] <= k} \cup {x \in Ids : g[x] # Far}

\* What is reached past the horizon, with what was reached before it, is everything.
LEMMA PastTheHorizonIsTheRest ==
    ASSUME NEW G, G.edges \subseteq Edge, NEW S \in SUBSET Ids, NEW f, Measures(f, G, S, "dependents"),
           NEW k \in Nat \ {0}, NEW T, T = {x \in Ids : f[x] # Far /\ f[x] = k},
           NEW g, Measures(g, G, T, "dependents")
    PROVE  SplitsAt(f, g, k)
<1> DEFINE all == {x \in Ids : f[x] # Far}
           A   == {x \in Ids : (f[x] # Far /\ f[x] <= k) \/ g[x] # Far}
<1>0. "dependents" \in Directions /\ T \in SUBSET Ids /\ Far \in Nat \ {0}
  BY IdsAreCounted DEF Directions
<1>1. /\ \A x \in Ids : f[x] \in Nat /\ (f[x] = 0 <=> x \in S)
      /\ \A x \in Ids : f[x] # Far =>
            \A y \in Onward(G, {x}, "dependents") : f[y] # Far /\ f[y] <= f[x] + 1
  BY <1>0 DEF Measures
<1>2. /\ \A x \in Ids : g[x] = 0 <=> x \in T
      /\ \A x \in Ids : g[x] # Far => \A y \in Onward(G, {x}, "dependents") : g[y] # Far
  BY DEF Measures
<1>3. \A x \in Ids : \A y \in Onward(G, {x}, "dependents") : y \in Ids
  <2>1. SUFFICES ASSUME NEW x \in Ids PROVE Onward(G, {x}, "dependents") \subseteq Ids
    OBVIOUS
  <2>2. {x} \in SUBSET Ids
    OBVIOUS
  <2>. QED BY <1>0, <2>2, OnwardOfSet
<1>4. \A x \in A : Onward(G, {x}, "dependents") \subseteq A
  <2>1. SUFFICES ASSUME NEW x \in A, NEW y \in Onward(G, {x}, "dependents") PROVE y \in A
    OBVIOUS
  <2>2. x \in Ids /\ y \in Ids
    BY <1>3, <2>1
  <2>3. CASE g[x] # Far
    <3>1. g[y] # Far
      BY <1>2, <2>1, <2>2, <2>3
    <3>. QED BY <2>2, <3>1
  <2>4. CASE g[x] = Far
    <3>1. f[x] # Far /\ f[x] <= k /\ x \notin T
      BY <1>0, <1>2, <2>1, <2>2, <2>4
    <3>2. f[x] < k
      BY <1>1, <2>2, <3>1
    <3>3. f[y] # Far /\ f[y] <= f[x] + 1 /\ f[y] \in Nat /\ f[x] \in Nat
      BY <1>1, <2>1, <2>2, <3>1
    <3>4. f[y] <= k
      BY <3>2, <3>3
    <3>. QED BY <2>2, <3>3, <3>4
  <2>. QED BY <2>3, <2>4
<1>5. S \subseteq A /\ A \in SUBSET Ids /\ T \subseteq all /\ all \in SUBSET Ids
  BY <1>0, <1>1
<1>6. \A x \in all : Onward(G, {x}, "dependents") \subseteq all
  BY <1>1, <1>3
<1>7. \A x \in A : x \in Ids /\ ((f[x] # Far /\ f[x] <= k) \/ g[x] # Far)
  OBVIOUS
<1>8. \A x \in all : f[x] # Far
  OBVIOUS
<1>9. \A x \in Ids : f[x] # Far => x \in A
  <2>1. Closed(G, A, "dependents")
    BY <1>4 DEF Closed
  <2> HIDE DEF A
  <2>2. AllWithin(f, A)
    BY <1>0, <1>5, <2>1, ClosedIsAll
  <2>. QED BY <2>2 DEF AllWithin
<1>10. \A x \in Ids : g[x] # Far => x \in all
  <2>1. Closed(G, all, "dependents")
    BY <1>6 DEF Closed
  <2> HIDE DEF all
  <2>2. AllWithin(g, all)
    BY <1>0, <1>5, <2>1, ClosedIsAll
  <2>. QED BY <2>2 DEF AllWithin
<1>. QED BY <1>7, <1>8, <1>9, <1>10 DEF SplitsAt

\* Two answers hold everything between them.
Together(a, b, all) ==
    /\ NodesIn(ask, all) = ToSet(a.nodes) \cup ToSet(b.nodes)
    /\ EdgesAt(ask, all) = a.edges \cup b.edges

\* A mark that refine_code_dependents_horizon clears leaves no row out.
LEMMA ClearedIsWhole ==
    ASSUME ask \in Questions, NEW G, NEW s, NEW S, NEW k, NEW n, NEW f, Blasts(ask, G, s, S, k, n, f),
           NEW a, SqlSays(a, f, S, k), ~a.cap, Cardinality(ReachedIn(a.depths)) <= n, k # 0,
           ToSet(a.nodes) = NodesIn(ask, S \cup ReachedIn(a.depths)),
           a.edges = EdgesAt(ask, S \cup ReachedIn(a.depths)),
           NEW b \in SqlAnswers(SetToSeq(Frontier(a)), ask.dir, ExtraDepth, n), ~b.cap, ~b.horizon,
           NEW all, all = ReachedIn(f)
    PROVE  Together(a, b, all)
<1>1. /\ G = ask.graph /\ G.edges \subseteq Edge /\ k \in Nat /\ n \in Nat /\ "dependents" \in Directions
      /\ S \in SUBSET Ids /\ Measures(f, G, S, "dependents") /\ ask.dir = "dependents" /\ k = ask.depth
  BY DEF Blasts
<1>2. /\ a.depths = Cut(f, S, k) /\ Far \in Nat \ {0}
      /\ \A x \in Ids : f[x] \in Nat /\ (f[x] = 0 <=> x \in S)
  BY <1>1, IdsAreCounted DEF SqlSays, Measures
<1> DEFINE T == Frontier(a)
           InA == S \cup ReachedIn(a.depths)
           near == {x \in Ids : f[x] # Far /\ f[x] <= k}
<1>3. \A x \in Ids : a.depths[x] = IF x \in S \/ f[x] > k THEN Far ELSE f[x]
  BY <1>2 DEF Cut
<1>4. \A x : x \in ReachedIn(a.depths) <=> x \in Ids /\ a.depths[x] # Far
  BY DEF ReachedIn
<1>5. InA = near
  <2>1. \A x \in Ids : x \in InA <=> f[x] # Far /\ f[x] <= k
    BY <1>1, <1>2, <1>3, <1>4
  <2>. QED BY <1>1, <1>4, <2>1
<1>6. T = {x \in Ids : f[x] # Far /\ f[x] = k}
  <2>1. \A x : x \in T <=> x \in Ids /\ a.depths[x] # Far /\ a.depths[x] = k
    BY <1>1, <1>4 DEF Frontier
  <2>. QED BY <1>1, <1>2, <1>3, <2>1
<1>7. T \in SUBSET Ids /\ IsFiniteSet(T) /\ Cardinality(T) <= n
  <2>1. T \subseteq ReachedIn(a.depths)
    BY DEF Frontier
  <2>2. T \in SUBSET Ids
    BY <1>6
  <2> HIDE DEF T
  <2>3. /\ IsFiniteSet(T) /\ Cardinality(T) <= Cardinality(ReachedIn(a.depths))
        /\ Cardinality(T) \in Nat /\ Cardinality(ReachedIn(a.depths)) \in Nat
    BY <2>1, ReachedIsFinite, MoreIsLarger
  <2>. QED BY <1>1, <2>2, <2>3
<1>8. b \in SqlAnswers(SetToSeq(T), "dependents", ExtraDepth, n)
  BY <1>1
<1> HIDE DEF T, InA
<1> DEFINE g == BlastFrom(ask, T)
           InB == T \cup ReachedIn(b.depths)
<1>9. SetToSeq(T) \in Seq(Ids) /\ ToSet(SetToSeq(T)) = T
  <2>1. SetToSeq(T) \in Seq(T) /\ ToSet(SetToSeq(T)) = T
    BY <1>7, ListedOnce
  <2>. QED BY <1>7, <2>1, SeqMonotonic
<1>10. /\ SqlSays(b, g, T, ExtraDepth)
       /\ ToSet(b.nodes) = NodesIn(ask, InB) /\ b.edges = EdgesAt(ask, InB)
  <2>1. ExtraDepth \in Nat /\ (ExtraDepth = 0 => Cardinality(T) <= n) /\ T = ToSet(SetToSeq(T))
    BY <1>7, <1>9, ExtraDepthIsNat
  <2>2. DependentsSay(b, T, ExtraDepth, n)
    BY <1>1, <1>8, <1>9, <2>1, DependentsTell
  <2>. QED BY <2>2 DEF DependentsSay
<1>11. /\ Measures(g, G, T, "dependents")
       /\ g \in [Ids -> 0..Far] /\ \A x \in Ids : g[x] = 0 <=> x \in T
  BY <1>1, <1>7, BlastFromMeasures, BlastFromTyped
<1> HIDE DEF g
<1>12. InB = {x \in Ids : g[x] # Far}
  <2>1. Spans(b, T, g)
    BY <1>7, <1>10, <1>11, ExtraDepthIsNat, UnmarkedIsWhole
  <2>. QED BY <2>1 DEF Spans
<1>13. {x \in Ids : f[x] # Far} = near \cup {x \in Ids : g[x] # Far}
  <2>1. k \in Nat \ {0}
    BY <1>1
  <2>2. SplitsAt(f, g, k)
    BY <1>1, <1>6, <1>11, <2>1, PastTheHorizonIsTheRest
  <2>. QED BY <2>2 DEF SplitsAt
<1>14. all = InA \cup InB
  <2>1. all = {x \in Ids : f[x] # Far}
    BY DEF ReachedIn
  <2> HIDE DEF near, InB
  <2>. QED BY <1>5, <1>12, <1>13, <2>1
<1>15. ToSet(a.nodes) = NodesIn(ask, InA) /\ a.edges = EdgesAt(ask, InA)
  BY DEF InA
<1> HIDE DEF InB
<1>16. /\ NodesIn(ask, InA \cup InB) = NodesIn(ask, InA) \cup NodesIn(ask, InB)
       /\ EdgesAt(ask, InA \cup InB) = EdgesAt(ask, InA) \cup EdgesAt(ask, InB)
  BY DEF NodesIn, EdgesAt
<1>. QED BY <1>10, <1>14, <1>15, <1>16 DEF Together

\* No row to add: the rows that the answer has are the rows of the whole.
LEMMA NoRowToAdd ==
    ASSUME NEW a, NEW b, NEW s, ~AddsARow(a, b), ask.graph.kind[s] # "file"
    PROVE  RowsOf(ask, ToSet(a.nodes), a.edges, s) =
              RowsOf(ask, ToSet(a.nodes) \cup ToSet(b.nodes), a.edges \cup b.edges, s)
<1>1. \A x \in ToSet(a.nodes) \cup ToSet(b.nodes) :
         (ask.graph.kind[x] = "file" => x \in Sources(a.edges \cup b.edges)) =>
            x \in ToSet(a.nodes) /\ (ask.graph.kind[x] = "file" => x \in Sources(a.edges))
  BY DEF AddsARow
<1>2. Sources(a.edges) \subseteq Sources(a.edges \cup b.edges)
  BY DEF Sources
<1>. QED BY <1>1, <1>2 DEF RowsOf

\* BlastRadius answers with every row, or with a mark.
LEMMA BlastIsWhole ==
    ASSUME AskInv, BlastRadius
    PROVE  BlastSays(ask, sub')
<1>0. ask \in Questions /\ ask.use = "blast"
  BY DEF AskInv, BlastRadius
<1> DEFINE s == ask.seeds[1]
           k == ask.depth
           n == ask.cap
           S == {s}
           f == BlastFrom(ask, {s})
           all == {x \in Ids : f[x] # Far}
<1>1. Blasts(ask, ask.graph, s, S, k, n, f)
  BY <1>0, BlastIsAsked
<1>2. /\ ask.dir = "dependents" /\ S = ToSet(ask.seeds) /\ s \in Ids /\ ask.seeds \in Seq(Ids)
      /\ k \in Nat /\ n \in Nat /\ S \in SUBSET Ids /\ (k = 0 => Cardinality(S) <= n)
      /\ ask.graph.edges \subseteq Edge
  BY <1>1 DEF Blasts
<1>3. PICK a \in SqlAnswers(ask.seeds, ask.dir, k, n) :
          IF ~Refinable(a) THEN sub' = a
          ELSE \E b \in SqlAnswers(SetToSeq(Frontier(a)), ask.dir, ExtraDepth, n) : sub' = Refined(a, b)
  BY DEF BlastRadius
<1>4. a \in SqlAnswers(ask.seeds, "dependents", k, n)
  BY <1>2
<1>4a. f \in [Ids -> 0..Far] /\ \A x \in Ids : f[x] = 0 <=> x \in S
  BY <1>2, BlastFromTyped
<1>5. /\ SqlSays(a, f, S, k)
      /\ ~a.cap => Cardinality(ReachedIn(a.depths)) <= n
      /\ ToSet(a.nodes) = NodesIn(ask, S \cup ReachedIn(a.depths))
      /\ a.edges = EdgesAt(ask, S \cup ReachedIn(a.depths))
  <2> HIDE DEF S, k, n
  <2>1. DependentsSay(a, S, k, n)
    BY <1>0, <1>2, <1>4, DependentsTell
  <2>. QED BY <2>1 DEF S, DependentsSay
<1>6. s = ask.seeds[1] /\ all = {x \in Ids : BlastFrom(ask, {s})[x] # Far} /\ all = {x \in Ids : f[x] # Far}
  OBVIOUS
<1>7. CASE sub' = a
  <2>1. SUFFICES ASSUME ~a.cap, ~a.horizon PROVE BlastSays(ask, a)
    BY <1>7 DEF BlastSays
  <2>2. S \cup ReachedIn(a.depths) = all
    <3>1. Spans(a, S, f)
      <4> HIDE DEF f, S, k
      <4>. QED BY <1>2, <1>4a, <1>5, <2>1, UnmarkedIsWhole
    <3>. QED BY <3>1 DEF Spans
  <2> HIDE DEF s, f, all, S
  <2>. QED BY <1>5, <1>6, <2>2, SameNodesSameRows
<1>8. ASSUME Refinable(a), NEW b \in SqlAnswers(SetToSeq(Frontier(a)), ask.dir, ExtraDepth, n),
             sub' = Refined(a, b), sub' # a
      PROVE  BlastSays(ask, sub')
  <2>1. /\ ~a.cap /\ k # 0 /\ ask.graph.kind[s] # "file"
        /\ ~AddsARow(a, b) /\ ~b.cap /\ ~b.horizon
        /\ sub' = [a EXCEPT !.horizon = FALSE]
    BY <1>8 DEF Refinable, Refined
  <2>2. sub'.nodes = a.nodes /\ sub'.edges = a.edges
    <3>1. PICK leg \in BothLegs(ToSet(ask.seeds), ask.dir, k, n) : a = SqlAnswer(ask.seeds, ask.dir, n, leg)
      BY <1>3 DEF SqlAnswers
    <3>2. a = [nodes |-> a.nodes, edges |-> a.edges, depths |-> a.depths, cap |-> a.cap, horizon |-> a.horizon]
      BY <3>1 DEF SqlAnswer
    <3>. QED BY <2>1, <3>2
  <2>3. /\ NodesIn(ask, all) = ToSet(a.nodes) \cup ToSet(b.nodes)
        /\ EdgesAt(ask, all) = a.edges \cup b.edges
    <3>0. all = ReachedIn(f)
      BY DEF ReachedIn
    <3>1. Together(a, b, all)
      <4> HIDE DEF s, S, k, n, f, all
      <4>. QED BY <1>0, <1>1, <1>5, <1>8, <2>1, <3>0, ClearedIsWhole
    <3>. QED BY <3>1 DEF Together
  <2>4. RowsOf(ask, ToSet(a.nodes), a.edges, s) =
           RowsOf(ask, ToSet(a.nodes) \cup ToSet(b.nodes), a.edges \cup b.edges, s)
    <3> HIDE DEF s
    <3>. QED BY <2>1, NoRowToAdd
  <2>. QED BY <2>2, <2>3, <2>4 DEF BlastSays
<1>. QED BY <1>3, <1>7, <1>8

-----------------------------------------------------------------------------
(* The walk of the in-memory store from one seed. *)

\* The distance of every symbol from S, by the edges a question follows.
Paths(q, S, f) ==
    /\ f \in [Ids -> 0..Far] /\ \A x \in Ids : f[x] \in Nat /\ f[x] <= Far
    /\ \A x \in Ids : f[x] = 0 <=> x \in S
    /\ \A x \in Ids : \A e \in Incident(q.graph, x, q.dir) :
          /\ Advance(e, x, q.dir) \in Ids
          /\ f[x] # Far => f[Advance(e, x, q.dir)] # Far /\ f[Advance(e, x, q.dir)] <= f[x] + 1

LEMMA FromMeasures ==
    ASSUME NEW q \in Questions, NEW S \in SUBSET Ids
    PROVE  Measures(From(q, S), q.graph, S, q.dir)
  BY Asked, MinsMeasure DEF From

LEMMA FromPaths ==
    ASSUME NEW q \in Questions, NEW S \in SUBSET Ids
    PROVE  Paths(q, S, From(q, S))
<1> DEFINE f == From(q, S)
<1>1. Measures(f, q.graph, S, q.dir)
  BY FromMeasures
<1>2. q.graph.edges \subseteq Edge /\ q.dir \in Directions /\ Far \in Nat
  BY Asked, IdsAreCounted
<1> HIDE DEF f
<1>3. /\ f \in [Ids -> 0..Far] /\ \A x \in Ids : f[x] \in Nat /\ f[x] <= Far
      /\ \A x \in Ids : f[x] = 0 <=> x \in S
      /\ \A x \in Ids : f[x] # Far =>
            \A y \in Onward(q.graph, {x}, q.dir) : f[y] # Far /\ f[y] <= f[x] + 1
  BY <1>1, <1>2 DEF Measures
<1>4. ASSUME NEW x \in Ids, NEW e \in Incident(q.graph, x, q.dir)
      PROVE  /\ Advance(e, x, q.dir) \in Ids
             /\ f[x] # Far => f[Advance(e, x, q.dir)] # Far /\ f[Advance(e, x, q.dir)] <= f[x] + 1
  <2>1. e \in Edge
    BY <1>2 DEF Incident
  <2>2. Advance(e, x, q.dir) \in Ids
    BY <1>2, <2>1, AdvanceIsId
  <2>3. Advance(e, x, q.dir) \in Onward(q.graph, {x}, q.dir)
    BY OnwardOfEdges
  <2>. QED BY <1>3, <2>2, <2>3
<1>. QED BY <1>3, <1>4 DEF Paths, f

\* A is closed under hops below n; A holds everything within n.
ClosedTo(G, f, A, dir, n) == \A x \in A : f[x] < n => Onward(G, {x}, dir) \subseteq A
FullTo(f, A, n) == \A x \in Ids : f[x] # Far /\ f[x] <= n => x \in A

LEMMA ClosedIsFullTo ==
    ASSUME NEW G, G.edges \subseteq Edge, NEW dir \in Directions, NEW S \in SUBSET Ids,
           NEW f, Measures(f, G, S, dir), NEW A \in SUBSET Ids, S \subseteq A, NEW n \in Nat,
           ClosedTo(G, f, A, dir, n)
    PROVE  FullTo(f, A, n)
<1>1. \A x \in A : f[x] < n => Onward(G, {x}, dir) \subseteq A
  BY DEF ClosedTo
<1>2. \A x \in Ids : f[x] # Far /\ f[x] <= n => x \in A
  BY <1>1, ClosedIsFull
<1>. QED BY <1>2 DEF FullTo

LEMMA FullWhenClosed ==
    ASSUME NEW q \in Questions, NEW s \in Ids, NEW f, f = From(q, {s}), NEW A \in SUBSET Ids, s \in A,
           NEW n \in Nat,
           \A x \in A : f[x] < n => \A e \in Incident(q.graph, x, q.dir) : Advance(e, x, q.dir) \in A
    PROVE  FullTo(f, A, n)
<1>1. Measures(f, q.graph, {s}, q.dir) /\ q.graph.edges \subseteq Edge /\ q.dir \in Directions
  BY FromMeasures, Asked
<1>2. ASSUME NEW x \in A, f[x] < n PROVE Onward(q.graph, {x}, q.dir) \subseteq A
  <2>1. \A e \in Incident(q.graph, x, q.dir) : Advance(e, x, q.dir) \in A
    BY <1>2
  <2>2. \A y : y \in Onward(q.graph, {x}, q.dir) => \E e \in Incident(q.graph, x, q.dir) : y = Advance(e, x, q.dir)
    BY DEF Onward
  <2>. QED BY <2>1, <2>2
<1>3. ClosedTo(q.graph, f, A, q.dir, n)
  BY <1>2 DEF ClosedTo
<1>. QED BY <1>1, <1>3, ClosedIsFullTo

LEMMA AllWhenClosed ==
    ASSUME NEW q \in Questions, NEW s \in Ids, NEW f, f = From(q, {s}), NEW A \in SUBSET Ids, s \in A,
           \A x \in A : OnwardOf(q, x) \subseteq A
    PROVE  AllWithin(f, A)
<1>1. Measures(f, q.graph, {s}, q.dir) /\ q.graph.edges \subseteq Edge /\ q.dir \in Directions
  BY FromMeasures, Asked
<1>2. Closed(q.graph, A, q.dir)
  BY DEF Closed, OnwardOf
<1>. QED BY <1>1, <1>2, ClosedIsAll

\* Until a symbol was left out for the cap, what is nearer than the queue was seen.
LEMMA SeenIsFull ==
    ASSUME NEW q \in Questions, NEW s \in Ids, NEW f, f = From(q, {s}), NEW w, WalkOK(q, w, s),
           w.capped = {}, NEW n \in Nat, n <= q.depth,
           \A x \in ToSet(w.queue) : f[x] >= n, w.todo # {} => f[w.at] >= n
    PROVE  FullTo(f, w.seen, n)
<1>1. /\ w.seen \in SUBSET Ids /\ s \in w.seen /\ Paths(q, {s}, f) /\ q.depth \in Nat
      /\ \A x \in w.seen \ ToSet(w.queue) : f[x] < q.depth =>
             \A e \in Incident(q.graph, x, q.dir) :
                \/ Advance(e, x, q.dir) \in w.seen \cup w.capped
                \/ x = w.at /\ e \in w.todo
  BY FromPaths, Asked DEF WalkOK, WalkTyped, WalkReaches, WalkCloses
<1>2. \A x \in w.seen : f[x] \in Nat
  BY <1>1 DEF Paths
<1>3. \A x \in w.seen : f[x] < n => \A e \in Incident(q.graph, x, q.dir) : Advance(e, x, q.dir) \in w.seen
  <2>1. SUFFICES ASSUME NEW x \in w.seen, f[x] < n, NEW e \in Incident(q.graph, x, q.dir)
                 PROVE  Advance(e, x, q.dir) \in w.seen
    OBVIOUS
  <2>a. f[x] \in Nat /\ q.depth \in Nat
    BY <1>1, <1>2
  <2>b. f[x] < q.depth /\ ~(f[x] >= n)
    BY <2>1, <2>a
  <2>2. x \notin ToSet(w.queue)
    BY <2>b
  <2>3. ~(x = w.at /\ e \in w.todo)
    BY <2>b
  <2>. QED BY <1>1, <2>1, <2>2, <2>3, <2>b
<1>. QED BY <1>1, <1>3, FullWhenClosed

\* Sorted lists, shortened and lengthened.
LEMMA SortedTail ==
    ASSUME NEW f, NEW xs \in Seq(Ids), xs # <<>>, Sorted(f, xs)
    PROVE  Sorted(f, Tail(xs)) /\ \A x \in ToSet(xs) : f[Head(xs)] <= f[x]
<1>1. /\ Len(Tail(xs)) = Len(xs) - 1 /\ xs[1] = Head(xs) /\ Len(xs) \in Nat \ {0}
      /\ \A i \in 1..Len(Tail(xs)) : Tail(xs)[i] = xs[i + 1]
  BY ListRangeTail
<1>2. \A x \in ToSet(xs) : \E i \in 1..Len(xs) : x = xs[i]
  BY ListRange
<1>3. \A i, j \in 1..Len(xs) : i <= j => f[xs[i]] <= f[xs[j]]
  BY DEF Sorted
<1>4. \A x \in ToSet(xs) : f[Head(xs)] <= f[x]
  BY <1>1, <1>2, <1>3
<1>5. \A i, j \in 1..Len(Tail(xs)) : i <= j => f[Tail(xs)[i]] <= f[Tail(xs)[j]]
  BY <1>1, <1>3
<1>. QED BY <1>4, <1>5 DEF Sorted

LEMMA SortedAppend ==
    ASSUME NEW f, NEW xs \in Seq(Ids), NEW x \in Ids, f[x] <= f[x], Sorted(f, xs),
           \A y \in ToSet(xs) : f[y] <= f[x]
    PROVE  Sorted(f, Append(xs, x))
<1>1. /\ Len(Append(xs, x)) = Len(xs) + 1 /\ Append(xs, x)[Len(xs) + 1] = x /\ Len(xs) \in Nat
      /\ \A i \in 1..Len(xs) : Append(xs, x)[i] = xs[i]
  OBVIOUS
<1>2. \A i \in 1..Len(xs) : xs[i] \in ToSet(xs)
  BY ListRange
<1>3. \A i, j \in 1..Len(xs) : i <= j => f[xs[i]] <= f[xs[j]]
  BY DEF Sorted
<1>4. SUFFICES ASSUME NEW i \in 1..(Len(xs) + 1), NEW j \in 1..(Len(xs) + 1), i <= j
               PROVE  f[Append(xs, x)[i]] <= f[Append(xs, x)[j]]
  BY <1>1 DEF Sorted
<1>5. CASE j = Len(xs) + 1
  BY <1>1, <1>2, <1>4, <1>5
<1>6. CASE j # Len(xs) + 1
  BY <1>1, <1>3, <1>4, <1>6
<1>. QED BY <1>5, <1>6

\* The walk, and what was found of its queue and of the symbols it saw, by name.
WalkFacts(q, w, s, f) ==
    /\ w.at \in Ids /\ w.queue \in Seq(Ids) /\ w.todo \subseteq q.graph.edges
    /\ w.seen \in SUBSET Ids /\ w.capped \in SUBSET Ids /\ w.nodes \in Seq(Ids)
    /\ w.edges \subseteq q.graph.edges /\ w.depths \in [Ids -> 0..Far]
    /\ w.cap \in BOOLEAN /\ w.horizon \in BOOLEAN
    /\ ToSet(w.queue) \subseteq w.seen /\ Sorted(f, w.queue)
    /\ Paths(q, {s}, f) /\ q.depth \in Nat /\ q.cap \in Nat \ {0} /\ Far \in Nat \ {0}
    /\ \A x \in w.seen : w.depths[x] = f[x] /\ f[x] \in Nat /\ f[x] <= q.depth /\ f[x] # Far

\* The facts of a walk, from its invariant.
LEMMA WalkOpens ==
    ASSUME NEW q \in Questions, NEW s \in Ids, NEW w, WalkOK(q, w, s), NEW f, f = From(q, {s})
    PROVE  WalkFacts(q, w, s, f)
<1>1. /\ w.at \in Ids /\ w.queue \in Seq(Ids) /\ w.todo \subseteq q.graph.edges
      /\ w.seen \in SUBSET Ids /\ w.capped \in SUBSET Ids /\ w.nodes \in Seq(Ids)
      /\ w.edges \subseteq q.graph.edges /\ w.depths \in [Ids -> 0..Far]
      /\ w.cap \in BOOLEAN /\ w.horizon \in BOOLEAN
  BY DEF WalkOK, WalkTyped
<1>2. ToSet(w.queue) \subseteq w.seen /\ Sorted(f, w.queue)
  BY DEF WalkOK, WalkQueues
<1>3. Paths(q, {s}, f) /\ q.depth \in Nat /\ q.cap \in Nat \ {0} /\ Far \in Nat \ {0}
  BY FromPaths, Asked, IdsAreCounted
<1>4. \A x \in w.seen : x \in Ids /\ w.depths[x] = f[x] /\ f[x] <= q.depth /\ f[x] # Far
  BY <1>1 DEF WalkOK, WalkReaches
<1>5. \A x \in Ids : f[x] \in Nat
  BY <1>3 DEF Paths
<1>. QED BY <1>1, <1>2, <1>3, <1>4, <1>5 DEF WalkFacts

\* The probe at the horizon marks what was never met, and only that.
LEMMA ProbeKeeps ==
    ASSUME NEW q \in Questions, NEW s \in Ids, NEW w, WalkOK(q, w, s), w.todo = {}, w.queue # <<>>,
           w.depths[Head(w.queue)] >= q.depth,
           NEW v, v = [w EXCEPT !.queue = Tail(w.queue), !.horizon = w.horizon \/
                          OnwardOf(q, Head(w.queue)) \ (w.seen \cup w.capped) # {}]
    PROVE  WalkOK(q, v, s)
<1> DEFINE f == From(q, {s})
           x == Head(w.queue)
<1>1. /\ w.queue \in Seq(Ids) /\ w.seen \in SUBSET Ids
      /\ ToSet(w.queue) \subseteq w.seen /\ Sorted(f, w.queue)
      /\ Paths(q, {s}, f) /\ q.depth \in Nat /\ Far \in Nat \ {0}
      /\ \A y \in w.seen : w.depths[y] = f[y] /\ f[y] \in Nat /\ f[y] <= q.depth /\ f[y] # Far
  <2>1. WalkFacts(q, w, s, f)
    BY WalkOpens
  <2>. QED BY <2>1 DEF WalkFacts
<1>2. /\ Tail(w.queue) \in Seq(Ids) /\ x \in Ids /\ ToSet(w.queue) = {x} \cup ToSet(Tail(w.queue))
  BY <1>1, ListRangeTail
<1>3. Sorted(f, Tail(w.queue)) /\ \A y \in ToSet(w.queue) : f[x] <= f[y]
  <2> HIDE DEF f
  <2>. QED BY <1>1, SortedTail
<1>4. x \in w.seen /\ f[x] = q.depth
  <2>1. x \in w.seen /\ w.depths[x] >= q.depth
    BY <1>1, <1>2
  <2> HIDE DEF f, x
  <2>2. w.depths[x] = f[x] /\ f[x] \in Nat /\ f[x] <= q.depth
    BY <1>1, <2>1
  <2>. QED BY <1>1, <2>1, <2>2
<1>5. v \in [at : Ids, queue : Seq(Ids), todo : SUBSET q.graph.edges, seen : SUBSET Ids,
             capped : SUBSET Ids, nodes : Seq(Ids), edges : SUBSET q.graph.edges,
             depths : [Ids -> 0..Far], cap : BOOLEAN, horizon : BOOLEAN]
  BY <1>2 DEF WalkOK, WalkTyped
<1>6. /\ v.at = w.at /\ v.queue = Tail(w.queue) /\ v.todo = w.todo /\ v.seen = w.seen
      /\ v.capped = w.capped /\ v.nodes = w.nodes /\ v.depths = w.depths /\ v.cap = w.cap
      /\ v.horizon = (w.horizon \/ OnwardOf(q, x) \ (w.seen \cup w.capped) # {})
  BY DEF WalkOK, WalkTyped
<1>7. WalkReaches(q, v, s)
  BY <1>6, ZenonT(40) DEF WalkOK, WalkReaches
<1>8. WalkQueues(q, v, s)
  <2>1. ToSet(Tail(w.queue)) \subseteq ToSet(w.queue)
    BY <1>2
  <2>2. /\ ToSet(w.queue) \subseteq w.seen
        /\ \A y \in ToSet(w.queue), z \in w.seen : f[z] <= f[y] + 1
    BY DEF WalkOK, WalkQueues
  <2>. QED BY <1>3, <1>6, <2>1, <2>2 DEF WalkQueues
<1>9. /\ \A y \in w.seen \ ToSet(w.queue) : f[y] < q.depth =>
             \A e \in Incident(q.graph, y, q.dir) : Advance(e, y, q.dir) \in w.seen \cup w.capped
      /\ \A y \in w.seen \ ToSet(w.queue) : f[y] >= q.depth /\ ~w.horizon =>
             OnwardOf(q, y) \subseteq w.seen \cup w.capped
      /\ w.capped # {} => Layered(f, w.seen)
      /\ w.horizon /\ w.capped = {} => \E y \in Ids : f[y] # Far /\ f[y] = q.depth + 1
      /\ ToSet(w.nodes) = NodesIn(q, w.seen) /\ Sorted(f, w.nodes)
  BY DEF WalkOK, WalkCloses
<1>10. ~v.horizon => ~w.horizon /\ OnwardOf(q, x) \subseteq w.seen \cup w.capped
  BY <1>6
<1>11. v.horizon /\ w.capped = {} => \E y \in Ids : f[y] # Far /\ f[y] = q.depth + 1
  <2>1. SUFFICES ASSUME ~w.horizon, v.horizon, w.capped = {}
                 PROVE  \E y \in Ids : f[y] # Far /\ f[y] = q.depth + 1
    BY <1>9
  <2>2. PICK y \in OnwardOf(q, x) : y \notin w.seen
    BY <1>6, <2>1
  <2>3. PICK e \in Incident(q.graph, x, q.dir) : y = Advance(e, x, q.dir)
    BY DEF OnwardOf, Onward
  <2>4. y \in Ids /\ f[y] # Far /\ f[y] <= f[x] + 1 /\ f[y] \in Nat
    BY <1>1, <1>2, <1>4, <2>3 DEF Paths
  <2>5. \A z \in ToSet(w.queue) : f[z] >= q.depth
    BY <1>1, <1>3, <1>4
  <2>6. q.depth <= q.depth /\ q.depth \in Nat
    BY <1>1
  <2>7. FullTo(f, w.seen, q.depth)
    <3>1. f = From(q, {s})
      OBVIOUS
    <3> HIDE DEF f
    <3>. QED BY <2>1, <2>5, <2>6, <3>1, SeenIsFull
  <2>8. ~(f[y] <= q.depth)
    BY <2>2, <2>4, <2>7 DEF FullTo
  <2>. QED BY <1>1, <1>4, <2>4, <2>8
<1>12. WalkCloses(q, v, s)
  <2>1. \A y \in w.seen \ ToSet(Tail(w.queue)) : y = x \/ y \in w.seen \ ToSet(w.queue)
    BY <1>2
  <2> HIDE DEF f, x
  <2>2. \A y \in w.seen \ ToSet(Tail(w.queue)) : f[y] < q.depth =>
             \A e \in Incident(q.graph, y, q.dir) : Advance(e, y, q.dir) \in w.seen \cup w.capped
    BY <1>1, <1>4, <1>9, <2>1
  <2>3. \A y \in w.seen \ ToSet(Tail(w.queue)) : f[y] >= q.depth /\ ~v.horizon =>
             OnwardOf(q, y) \subseteq w.seen \cup w.capped
    BY <1>9, <1>10, <2>1
  <2>. QED BY <1>6, <1>9, <1>11, <2>2, <2>3 DEF WalkCloses, f
<1>. QED BY <1>5, <1>7, <1>8, <1>12 DEF WalkOK, WalkTyped

\* Taking a node off the queue.
LEMMA ExpandKeeps ==
    ASSUME NEW q \in Questions, NEW s \in Ids, NEW w, WalkOK(q, w, s), w.todo = {}, w.queue # <<>>,
           w.depths[Head(w.queue)] < q.depth,
           NEW v, v = [w EXCEPT !.at = Head(w.queue), !.queue = Tail(w.queue),
                                !.todo = Incident(q.graph, Head(w.queue), q.dir)]
    PROVE  WalkOK(q, v, s)
<1> DEFINE f == From(q, {s})
           x == Head(w.queue)
<1>1. /\ w.queue \in Seq(Ids) /\ w.seen \in SUBSET Ids
      /\ ToSet(w.queue) \subseteq w.seen /\ Sorted(f, w.queue)
      /\ Paths(q, {s}, f) /\ q.depth \in Nat /\ Far \in Nat \ {0}
      /\ \A y \in w.seen : w.depths[y] = f[y] /\ f[y] \in Nat /\ f[y] <= q.depth /\ f[y] # Far
  <2>1. WalkFacts(q, w, s, f)
    BY WalkOpens
  <2>. QED BY <2>1 DEF WalkFacts
<1>2. /\ Tail(w.queue) \in Seq(Ids) /\ x \in Ids /\ ToSet(w.queue) = {x} \cup ToSet(Tail(w.queue))
  BY <1>1, ListRangeTail
<1>3. Sorted(f, Tail(w.queue)) /\ \A y \in ToSet(w.queue) : f[x] <= f[y]
  <2> HIDE DEF f
  <2>. QED BY <1>1, SortedTail
<1>4. x \in w.seen /\ f[x] < q.depth
  BY <1>1, <1>2
<1>5. v \in [at : Ids, queue : Seq(Ids), todo : SUBSET q.graph.edges, seen : SUBSET Ids,
             capped : SUBSET Ids, nodes : Seq(Ids), edges : SUBSET q.graph.edges,
             depths : [Ids -> 0..Far], cap : BOOLEAN, horizon : BOOLEAN]
  <2>1. Incident(q.graph, x, q.dir) \subseteq q.graph.edges
    BY DEF Incident
  <2>. QED BY <1>2, <2>1 DEF WalkOK, WalkTyped
<1>6. /\ v.at = x /\ v.queue = Tail(w.queue) /\ v.todo = Incident(q.graph, x, q.dir) /\ v.seen = w.seen
      /\ v.capped = w.capped /\ v.nodes = w.nodes /\ v.depths = w.depths /\ v.cap = w.cap
      /\ v.horizon = w.horizon
  BY DEF WalkOK, WalkTyped
<1>7. WalkReaches(q, v, s)
  BY <1>6 DEF WalkOK, WalkReaches
<1>8. WalkQueues(q, v, s)
  <2>1. ToSet(Tail(w.queue)) \subseteq ToSet(w.queue) /\ x \in ToSet(w.queue)
    BY <1>2
  <2>2. /\ ToSet(w.queue) \subseteq w.seen
        /\ \A y \in ToSet(w.queue), z \in w.seen : f[z] <= f[y] + 1
    BY DEF WalkOK, WalkQueues
  <2> HIDE DEF f, x
  <2>3. \A z \in w.seen : f[z] <= f[x] + 1
    BY <2>1, <2>2
  <2>. QED BY <1>3, <1>4, <1>6, <2>1, <2>2, <2>3 DEF WalkQueues, f
<1>9. /\ \A y \in w.seen \ ToSet(w.queue) : f[y] < q.depth =>
             \A e \in Incident(q.graph, y, q.dir) : Advance(e, y, q.dir) \in w.seen \cup w.capped
      /\ \A y \in w.seen \ ToSet(w.queue) : f[y] >= q.depth /\ ~w.horizon =>
             OnwardOf(q, y) \subseteq w.seen \cup w.capped
      /\ w.capped # {} => Layered(f, w.seen)
      /\ w.horizon /\ w.capped = {} => \E y \in Ids : f[y] # Far /\ f[y] = q.depth + 1
      /\ ToSet(w.nodes) = NodesIn(q, w.seen) /\ Sorted(f, w.nodes)
  BY DEF WalkOK, WalkCloses
<1>10. WalkCloses(q, v, s)
  <2>1. \A y \in w.seen \ ToSet(Tail(w.queue)) : y = x \/ y \in w.seen \ ToSet(w.queue)
    BY <1>2
  <2> HIDE DEF f, x
  <2>2. \A y \in w.seen \ ToSet(Tail(w.queue)) : f[y] < q.depth =>
             \A e \in Incident(q.graph, y, q.dir) :
                \/ Advance(e, y, q.dir) \in w.seen \cup w.capped
                \/ y = x /\ e \in Incident(q.graph, x, q.dir)
    BY <1>9, <2>1
  <2>3. \A y \in w.seen \ ToSet(Tail(w.queue)) : f[y] >= q.depth /\ ~w.horizon =>
             OnwardOf(q, y) \subseteq w.seen \cup w.capped
    BY <1>1, <1>4, <1>9, <2>1
  <2>. QED BY <1>6, <1>9, <2>2, <2>3 DEF WalkCloses, f
<1>. QED BY <1>5, <1>7, <1>8, <1>10 DEF WalkOK, WalkTyped

\* Where an edge still to follow leads, and what was seen when it is.
EdgeFacts(q, w, s, f, e, y) ==
    /\ w.at \in w.seen /\ e \in Incident(q.graph, w.at, q.dir) /\ f[w.at] < q.depth
    /\ y = Advance(e, w.at, q.dir) /\ y \in Ids /\ f[y] \in Nat /\ f[y] # Far /\ f[y] <= f[w.at] + 1
    /\ \A x \in ToSet(w.queue) : f[w.at] <= f[x]
    /\ \A x \in w.seen : f[x] <= f[w.at] + 1
    /\ f[w.at] \in Nat /\ f[w.at] < Far
    /\ w.capped = {} => FullTo(f, w.seen, f[w.at])

\* The facts of an edge to follow.
LEMMA EdgeOpens ==
    ASSUME NEW q \in Questions, NEW s \in Ids, NEW w, WalkOK(q, w, s), NEW f, f = From(q, {s}),
           NEW e \in w.todo
    PROVE  EdgeFacts(q, w, s, f, e, Advance(e, w.at, q.dir))
<1> DEFINE y == Advance(e, w.at, q.dir)
<1>1. WalkFacts(q, w, s, f)
  BY WalkOpens
<1>2. /\ w.at \in w.seen /\ w.todo \subseteq Incident(q.graph, w.at, q.dir) /\ f[w.at] < q.depth
      /\ \A x \in ToSet(w.queue) : f[w.at] <= f[x]
      /\ \A x \in w.seen : f[x] <= f[w.at] + 1
  BY DEF WalkOK, WalkQueues
<1>3. /\ w.at \in Ids /\ f[w.at] \in Nat /\ f[w.at] # Far /\ f[w.at] <= Far /\ q.depth \in Nat /\ Far \in Nat
      /\ f[w.at] < q.depth /\ ToSet(w.queue) \subseteq w.seen /\ w.seen \in SUBSET Ids
      /\ \A x \in Ids : f[x] \in Nat
  BY <1>1, <1>2 DEF WalkFacts, Paths
<1>4. y \in Ids /\ f[y] \in Nat /\ f[y] # Far /\ f[y] <= f[w.at] + 1
  <2>1. e \in Incident(q.graph, w.at, q.dir)
    BY <1>2
  <2>2. Paths(q, {s}, f)
    BY <1>1 DEF WalkFacts
  <2>3. y \in Ids /\ f[y] # Far /\ f[y] <= f[w.at] + 1
    BY <1>3, <2>1, <2>2 DEF Paths
  <2>. QED BY <1>3, <2>3
<1>5. ASSUME w.capped = {} PROVE FullTo(f, w.seen, f[w.at])
  <2>1. f[w.at] <= q.depth /\ f[w.at] >= f[w.at]
    BY <1>3
  <2>2. \A x \in ToSet(w.queue) : f[x] >= f[w.at]
    BY <1>2, <1>3
  <2>. QED BY <1>3, <1>5, <2>1, <2>2, SeenIsFull
<1>6. f[w.at] < Far
  BY <1>3
<1> HIDE DEF y
<1>. QED BY <1>2, <1>3, <1>4, <1>5, <1>6 DEF EdgeFacts, y

\* What no step of an edge disturbs.
LEMMA AlongKeeps ==
    ASSUME NEW q \in Questions, NEW s \in Ids, NEW w, WalkOK(q, w, s), NEW e \in w.todo,
           NEW v, v = [w EXCEPT !.todo = w.todo \ {e}, !.edges = w.edges \cup {e}],
           Advance(e, w.at, q.dir) \in w.seen
    PROVE  WalkOK(q, v, s)
<1> DEFINE f == From(q, {s})
<1>1. v \in [at : Ids, queue : Seq(Ids), todo : SUBSET q.graph.edges, seen : SUBSET Ids,
             capped : SUBSET Ids, nodes : Seq(Ids), edges : SUBSET q.graph.edges,
             depths : [Ids -> 0..Far], cap : BOOLEAN, horizon : BOOLEAN]
  <2>1. e \in q.graph.edges
    BY DEF WalkOK, WalkTyped
  <2>. QED BY <2>1 DEF WalkOK, WalkTyped
<1>2. /\ v.at = w.at /\ v.queue = w.queue /\ v.todo = w.todo \ {e} /\ v.seen = w.seen
      /\ v.capped = w.capped /\ v.nodes = w.nodes /\ v.depths = w.depths /\ v.cap = w.cap
      /\ v.horizon = w.horizon
  BY DEF WalkOK, WalkTyped
<1>3. WalkReaches(q, v, s)
  BY <1>2, ZenonT(40) DEF WalkOK, WalkReaches
<1>4. WalkQueues(q, v, s)
  <2>1. /\ ToSet(w.queue) \subseteq w.seen /\ Sorted(f, w.queue)
        /\ \A x \in ToSet(w.queue), y \in w.seen : f[y] <= f[x] + 1
        /\ w.at \in w.seen /\ w.todo \subseteq Incident(q.graph, w.at, q.dir)
        /\ f[w.at] < q.depth
        /\ \A x \in ToSet(w.queue) : f[w.at] <= f[x]
        /\ \A y \in w.seen : f[y] <= f[w.at] + 1
    BY DEF WalkOK, WalkQueues
  <2>2. w.todo \ {e} \subseteq Incident(q.graph, w.at, q.dir)
    BY <2>1
  <2>. QED BY <1>2, <2>1, <2>2 DEF WalkQueues
<1>5. /\ \A x \in w.seen \ ToSet(w.queue) : f[x] < q.depth =>
             \A d \in Incident(q.graph, x, q.dir) :
                \/ Advance(d, x, q.dir) \in w.seen \cup w.capped
                \/ x = w.at /\ d \in w.todo
      /\ \A x \in w.seen \ ToSet(w.queue) : f[x] >= q.depth /\ ~w.horizon =>
             OnwardOf(q, x) \subseteq w.seen \cup w.capped
      /\ w.capped # {} => Layered(f, w.seen)
      /\ w.horizon /\ w.capped = {} => \E x \in Ids : f[x] # Far /\ f[x] = q.depth + 1
      /\ ToSet(w.nodes) = NodesIn(q, w.seen) /\ Sorted(f, w.nodes)
  BY DEF WalkOK, WalkCloses
<1>6. \A x \in w.seen \ ToSet(w.queue) : f[x] < q.depth =>
         \A d \in Incident(q.graph, x, q.dir) :
            \/ Advance(d, x, q.dir) \in w.seen \cup w.capped
            \/ x = w.at /\ d \in w.todo \ {e}
  <2> HIDE DEF f
  <2>. QED BY <1>5
<1>7. WalkCloses(q, v, s)
  BY <1>2, <1>5, <1>6 DEF WalkCloses
<1>. QED BY <1>1, <1>3, <1>4, <1>7 DEF WalkOK, WalkTyped

\* A neighbour left out for the cap: the nodes listed are nearer.
LEMMA CapKeeps ==
    ASSUME NEW q \in Questions, NEW s \in Ids, NEW w, WalkOK(q, w, s), NEW e \in w.todo,
           NEW y, y = Advance(e, w.at, q.dir), y \notin w.seen, Len(w.nodes) >= q.cap,
           NEW v, v = [w EXCEPT !.todo = w.todo \ {e}, !.edges = w.edges \cup {e}, !.cap = TRUE,
                                !.capped = w.capped \cup {y}]
    PROVE  WalkOK(q, v, s)
<1> DEFINE f == From(q, {s})
<1>0. EdgeFacts(q, w, s, f, e, y)
  BY EdgeOpens
<1>0a. y \in Ids /\ f[y] # Far
  BY <1>0 DEF EdgeFacts
<1>1. v \in [at : Ids, queue : Seq(Ids), todo : SUBSET q.graph.edges, seen : SUBSET Ids,
             capped : SUBSET Ids, nodes : Seq(Ids), edges : SUBSET q.graph.edges,
             depths : [Ids -> 0..Far], cap : BOOLEAN, horizon : BOOLEAN]
  <2>1. e \in q.graph.edges
    BY DEF WalkOK, WalkTyped
  <2>. QED BY <1>0a, <2>1 DEF WalkOK, WalkTyped
<1>2. /\ v.at = w.at /\ v.queue = w.queue /\ v.todo = w.todo \ {e} /\ v.seen = w.seen
      /\ v.capped = w.capped \cup {y} /\ v.nodes = w.nodes /\ v.depths = w.depths /\ v.cap = TRUE
      /\ v.horizon = w.horizon
  BY DEF WalkOK, WalkTyped
<1>3. WalkReaches(q, v, s)
  <2>1. /\ s \in w.seen
        /\ \A x \in Ids : w.depths[x] = IF x \in w.seen THEN f[x] ELSE Far
        /\ \A x \in w.seen : f[x] <= q.depth /\ f[x] # Far
        /\ w.capped \cap w.seen = {} /\ \A x \in w.capped : f[x] # Far
    BY DEF WalkOK, WalkReaches
  <2>2. (w.capped \cup {y}) \cap w.seen = {} /\ \A x \in w.capped \cup {y} : f[x] # Far
    BY <1>0a, <2>1
  <2>3. v.capped # {} => Len(v.nodes) >= q.cap
    BY <1>2
  <2>4. v.cap = (v.capped # {})
    <3>1. v.cap = TRUE /\ v.capped # {}
      BY <1>2
    <3>. QED BY <3>1
  <2>5. /\ s \in v.seen
        /\ \A x \in Ids : v.depths[x] = IF x \in v.seen THEN f[x] ELSE Far
        /\ \A x \in v.seen : f[x] <= q.depth /\ f[x] # Far
        /\ v.capped \cap v.seen = {} /\ \A x \in v.capped : f[x] # Far
    <3> HIDE DEF f
    <3>1. s \in v.seen /\ \A x \in v.seen : f[x] <= q.depth /\ f[x] # Far
      BY <1>2, <2>1
    <3>2. \A x \in Ids : v.depths[x] = IF x \in v.seen THEN f[x] ELSE Far
      BY <1>2, <2>1
    <3>3. v.capped \cap v.seen = {} /\ \A x \in v.capped : f[x] # Far
      BY <1>2, <2>2
    <3>. QED BY <3>1, <3>2, <3>3
  <2>. QED BY <2>3, <2>4, <2>5 DEF WalkReaches
<1>4. WalkQueues(q, v, s)
  <2>1. /\ ToSet(w.queue) \subseteq w.seen /\ Sorted(f, w.queue)
        /\ \A x \in ToSet(w.queue), z \in w.seen : f[z] <= f[x] + 1
        /\ w.at \in w.seen /\ w.todo \subseteq Incident(q.graph, w.at, q.dir)
        /\ f[w.at] < q.depth
        /\ \A x \in ToSet(w.queue) : f[w.at] <= f[x]
        /\ \A z \in w.seen : f[z] <= f[w.at] + 1
    BY DEF WalkOK, WalkQueues
  <2>2. w.todo \ {e} \subseteq Incident(q.graph, w.at, q.dir)
    BY <2>1
  <2>. QED BY <1>2, <2>1, <2>2 DEF WalkQueues
<1>5. /\ \A x \in w.seen \ ToSet(w.queue) : f[x] < q.depth =>
             \A d \in Incident(q.graph, x, q.dir) :
                \/ Advance(d, x, q.dir) \in w.seen \cup w.capped
                \/ x = w.at /\ d \in w.todo
      /\ \A x \in w.seen \ ToSet(w.queue) : f[x] >= q.depth /\ ~w.horizon =>
             OnwardOf(q, x) \subseteq w.seen \cup w.capped
      /\ w.capped # {} => Layered(f, w.seen)
      /\ ToSet(w.nodes) = NodesIn(q, w.seen) /\ Sorted(f, w.nodes)
  BY DEF WalkOK, WalkCloses
<1>6. \A x \in w.seen \ ToSet(w.queue) : f[x] < q.depth =>
         \A d \in Incident(q.graph, x, q.dir) :
            \/ Advance(d, x, q.dir) \in w.seen \cup (w.capped \cup {y})
            \/ x = w.at /\ d \in w.todo \ {e}
  <2> HIDE DEF f
  <2>. QED BY <1>5
<1>7. Layered(f, w.seen)
  <2>1. CASE w.capped # {}
    BY <1>5, <2>1
  <2>2. CASE w.capped = {}
    <3> HIDE DEF f
    <3>1. /\ f[w.at] \in Nat /\ f[w.at] < Far /\ FullTo(f, w.seen, f[w.at])
          /\ \A x \in w.seen : f[x] <= f[w.at] + 1
      BY <1>0, <2>2 DEF EdgeFacts
    <3>2. f[w.at] \in 0..Cardinality(Ids) /\ \A x \in Ids : f[x] <= f[w.at] => f[x] # Far
      BY <3>1, IdsAreCounted
    <3>3. \A x \in Ids : f[x] <= f[w.at] => x \in w.seen
      BY <3>1, <3>2 DEF FullTo
    <3>. QED BY <3>1, <3>2, <3>3 DEF Layered
  <2>. QED BY <2>1, <2>2
<1>8. WalkCloses(q, v, s)
  BY <1>2, <1>5, <1>6, <1>7 DEF WalkCloses
<1>. QED BY <1>1, <1>3, <1>4, <1>8 DEF WalkOK, WalkTyped

\* A neighbour met first goes to the end of the queue, a hop past its node.
LEMMA ReachKeeps ==
    ASSUME NEW q \in Questions, NEW s \in Ids, NEW w, WalkOK(q, w, s), NEW e \in w.todo,
           NEW y, y = Advance(e, w.at, q.dir), y \notin w.seen, ~(Len(w.nodes) >= q.cap),
           NEW ys, ys = IF q.graph.kind[y] # "none" THEN <<y>> ELSE <<>>,
           NEW v, v = [w EXCEPT !.todo = w.todo \ {e}, !.edges = w.edges \cup {e},
                                !.seen = w.seen \cup {y}, !.queue = Append(w.queue, y),
                                !.nodes = w.nodes \o ys, !.depths[y] = w.depths[w.at] + 1]
    PROVE  WalkOK(q, v, s)
<1> DEFINE f == From(q, {s})
<1>0. EdgeFacts(q, w, s, f, e, y) /\ WalkFacts(q, w, s, f)
  BY EdgeOpens, WalkOpens
<1>1. w.capped = {}
  BY DEF WalkOK, WalkReaches
<1> HIDE DEF f
<1>2. /\ w.at \in w.seen /\ f[w.at] < q.depth /\ w.depths[w.at] = f[w.at] /\ y \in Ids /\ f[y] \in Nat /\ f[y] # Far
      /\ f[w.at] \in Nat /\ f[w.at] < Far /\ Far \in Nat /\ q.depth \in Nat
      /\ w.queue \in Seq(Ids) /\ w.nodes \in Seq(Ids) /\ w.depths \in [Ids -> 0..Far]
      /\ w.seen \in SUBSET Ids /\ ToSet(w.queue) \subseteq w.seen
      /\ \A x \in ToSet(w.queue) : f[w.at] <= f[x]
      /\ \A x \in w.seen : f[x] <= f[w.at] + 1 /\ f[x] \in Nat
  BY <1>0 DEF EdgeFacts, WalkFacts
<1>3. f[y] = f[w.at] + 1
  <2>1. FullTo(f, w.seen, f[w.at]) /\ f[y] <= f[w.at] + 1
    BY <1>0, <1>1 DEF EdgeFacts
  <2>2. ~(f[y] <= f[w.at])
    BY <1>2, <2>1 DEF FullTo
  <2>. QED BY <1>2, <2>1, <2>2
<1>4. ys \in Seq(Ids) /\ (ys = <<>> \/ ys = <<y>>)
  BY <1>2
<1>5. v \in [at : Ids, queue : Seq(Ids), todo : SUBSET q.graph.edges, seen : SUBSET Ids,
             capped : SUBSET Ids, nodes : Seq(Ids), edges : SUBSET q.graph.edges,
             depths : [Ids -> 0..Far], cap : BOOLEAN, horizon : BOOLEAN]
  <2>1. e \in q.graph.edges
    BY DEF WalkOK, WalkTyped
  <2>2. Append(w.queue, y) \in Seq(Ids) /\ w.nodes \o ys \in Seq(Ids)
    BY <1>2, <1>4
  <2>3. [w.depths EXCEPT ![y] = w.depths[w.at] + 1] \in [Ids -> 0..Far]
    BY <1>2
  <2>. QED BY <1>2, <2>1, <2>2, <2>3, ZenonT(60) DEF WalkOK, WalkTyped
<1>6. /\ v.at = w.at /\ v.queue = Append(w.queue, y) /\ v.todo = w.todo \ {e} /\ v.seen = w.seen \cup {y}
      /\ v.capped = w.capped /\ v.nodes = w.nodes \o ys /\ v.cap = w.cap /\ v.horizon = w.horizon
      /\ v.depths = [w.depths EXCEPT ![y] = w.depths[w.at] + 1]
  BY DEF WalkOK, WalkTyped
<1>7. WalkReaches(q, v, s)
  <2>1. /\ s \in w.seen
        /\ \A x \in Ids : w.depths[x] = IF x \in w.seen THEN f[x] ELSE Far
        /\ \A x \in w.seen : f[x] <= q.depth /\ f[x] # Far
        /\ w.cap = (w.capped # {})
    BY DEF WalkOK, WalkReaches, f
  <2>2. \A x \in Ids : v.depths[x] = IF x \in w.seen \cup {y} THEN f[x] ELSE Far
    <3>1. \A x \in Ids : v.depths[x] = IF x = y THEN f[w.at] + 1 ELSE w.depths[x]
      BY <1>2, <1>6
    <3>. QED BY <1>3, <2>1, <3>1
  <2>3. \A x \in w.seen \cup {y} : f[x] <= q.depth /\ f[x] # Far
    <3>1. f[y] <= q.depth
      BY <1>2, <1>3
    <3>. QED BY <1>2, <2>1, <3>1
  <2>. QED BY <1>1, <1>6, <2>1, <2>2, <2>3, ZenonT(60) DEF WalkReaches, f
<1>8. ToSet(Append(w.queue, y)) = ToSet(w.queue) \cup {y}
  BY <1>2, ListRangeAppend, SMTT(30)
<1>9. WalkQueues(q, v, s)
  <2>1. /\ Sorted(f, w.queue)
        /\ \A x \in ToSet(w.queue), z \in w.seen : f[z] <= f[x] + 1
        /\ w.todo \subseteq Incident(q.graph, w.at, q.dir)
    BY DEF WalkOK, WalkQueues, f
  <2>2. Sorted(f, Append(w.queue, y))
    <3>1. \A x \in ToSet(w.queue) : f[x] <= f[y]
      BY <1>2, <1>3
    <3>2. f[y] <= f[y]
      BY <1>2
    <3>. QED BY <1>2, <2>1, <3>1, <3>2, SortedAppend
  <2>3. \A x \in ToSet(w.queue) \cup {y}, z \in w.seen \cup {y} : f[z] <= f[x] + 1
    <3>1. \A x \in ToSet(w.queue) \cup {y} : f[x] \in Nat /\ f[w.at] <= f[x]
      BY <1>2, <1>3
    <3>2. \A z \in w.seen \cup {y} : f[z] \in Nat /\ f[z] <= f[w.at] + 1
      BY <1>2, <1>3
    <3>. QED BY <1>2, <3>1, <3>2, SMTT(30)
  <2>4. \A x \in ToSet(w.queue) \cup {y} : f[w.at] <= f[x]
    BY <1>2, <1>3
  <2>5. \A z \in w.seen \cup {y} : f[z] <= f[w.at] + 1
    BY <1>2, <1>3
  <2>6. ToSet(w.queue) \cup {y} \subseteq w.seen \cup {y} /\ w.todo \ {e} \subseteq Incident(q.graph, w.at, q.dir)
    BY <1>2, <2>1, SMTT(30)
  <2>. QED BY <1>2, <1>6, <1>8, <2>2, <2>3, <2>4, <2>5, <2>6 DEF WalkQueues, f
<1>10. WalkCloses(q, v, s)
  <2>1. /\ \A x \in w.seen \ ToSet(w.queue) : f[x] < q.depth =>
               \A d \in Incident(q.graph, x, q.dir) :
                  \/ Advance(d, x, q.dir) \in w.seen \cup w.capped
                  \/ x = w.at /\ d \in w.todo
        /\ \A x \in w.seen \ ToSet(w.queue) : f[x] >= q.depth /\ ~w.horizon =>
               OnwardOf(q, x) \subseteq w.seen \cup w.capped
        /\ w.horizon /\ w.capped = {} => \E x \in Ids : f[x] # Far /\ f[x] = q.depth + 1
        /\ ToSet(w.nodes) = NodesIn(q, w.seen) /\ Sorted(f, w.nodes)
    BY DEF WalkOK, WalkCloses, f
  <2>2. \A x \in (w.seen \cup {y}) \ (ToSet(w.queue) \cup {y}) : x \in w.seen \ ToSet(w.queue)
    OBVIOUS
  <2>3. \A x \in (w.seen \cup {y}) \ (ToSet(w.queue) \cup {y}) : f[x] < q.depth =>
           \A d \in Incident(q.graph, x, q.dir) :
              \/ Advance(d, x, q.dir) \in (w.seen \cup {y}) \cup w.capped
              \/ x = w.at /\ d \in w.todo \ {e}
    BY <2>1, <2>2
  <2>4. \A x \in (w.seen \cup {y}) \ (ToSet(w.queue) \cup {y}) : f[x] >= q.depth /\ ~w.horizon =>
           OnwardOf(q, x) \subseteq (w.seen \cup {y}) \cup w.capped
    BY <2>1, <2>2
  <2>5. ToSet(w.nodes \o ys) = NodesIn(q, w.seen \cup {y}) /\ Sorted(f, w.nodes \o ys)
    <3>1. CASE q.graph.kind[y] = "none"
      <4>1. w.nodes \o ys = w.nodes
        BY <1>2, <3>1
      <4>2. NodesIn(q, w.seen \cup {y}) = NodesIn(q, w.seen)
        BY <3>1 DEF NodesIn
      <4>. QED BY <2>1, <4>1, <4>2
    <3>2. CASE q.graph.kind[y] # "none"
      <4>1. w.nodes \o ys = Append(w.nodes, y)
        BY <1>2, <3>2
      <4>2. NodesIn(q, w.seen \cup {y}) = NodesIn(q, w.seen) \cup {y}
        BY <3>2 DEF NodesIn
      <4>3. ToSet(Append(w.nodes, y)) = ToSet(w.nodes) \cup {y}
        BY <1>2, ListRangeAppend
      <4>4. \A x \in ToSet(w.nodes) : f[x] <= f[y]
        BY <1>2, <1>3, <2>1 DEF NodesIn
      <4>5. f[y] <= f[y]
        BY <1>2
      <4>6. Sorted(f, Append(w.nodes, y))
        BY <1>2, <2>1, <4>4, <4>5, SortedAppend
      <4>. QED BY <2>1, <4>1, <4>2, <4>3, <4>6
    <3>. QED BY <3>1, <3>2
  <2>. QED BY <1>1, <1>6, <1>8, <2>1, <2>3, <2>4, <2>5 DEF WalkCloses, f
<1>. QED BY <1>5, <1>7, <1>9, <1>10 DEF WalkOK, WalkTyped

\* A walk, field by field.
LEMMA WalkTypes ==
    ASSUME NEW q, NEW at \in Ids, NEW queue \in Seq(Ids), NEW todo \in SUBSET q.graph.edges,
           NEW seen \in SUBSET Ids, NEW capped \in SUBSET Ids, NEW nodes \in Seq(Ids),
           NEW edges \in SUBSET q.graph.edges, NEW depths \in [Ids -> 0..Far], NEW cap \in BOOLEAN,
           NEW horizon \in BOOLEAN
    PROVE  WalkTyped(q, [at |-> at, queue |-> queue, todo |-> todo, seen |-> seen, capped |-> capped,
                nodes |-> nodes, edges |-> edges, depths |-> depths, cap |-> cap, horizon |-> horizon])
  BY DEF WalkTyped

\* A walk that begins.
LEMMA StartKeeps ==
    ASSUME NEW q \in Questions, NEW s \in Ids,
           NEW ys, ys = IF q.graph.kind[s] # "none" THEN <<s>> ELSE <<>>,
           NEW v, v = [NoWalk EXCEPT !.at = s, !.queue = <<s>>, !.seen = {s}, !.nodes = ys, !.depths[s] = 0]
    PROVE  WalkOK(q, v, s)
<1> DEFINE f == From(q, {s})
<1>1. Paths(q, {s}, f) /\ Far \in Nat \ {0} /\ q.depth \in Nat
  BY FromPaths, Asked, IdsAreCounted
<1>2. f[s] = 0 /\ \A x \in Ids : f[x] \in Nat
  BY <1>1 DEF Paths
<1>3. /\ v.at = s /\ v.queue = <<s>> /\ v.todo = {} /\ v.seen = {s}
      /\ v.capped = {} /\ v.nodes = ys /\ v.edges = {} /\ v.cap = FALSE /\ v.horizon = FALSE
      /\ v.depths = [x \in Ids |-> IF x = s THEN 0 ELSE Far]
  BY DEF NoWalk
<1>4. WalkTyped(q, v)
  <2> DEFINE d == [x \in Ids |-> IF x = s THEN 0 ELSE Far]
             p == <<s>>
             t == {s}
             o == {}
  <2>1. v = [at |-> s, queue |-> p, todo |-> o, seen |-> t, capped |-> o, nodes |-> ys,
             edges |-> o, depths |-> d, cap |-> FALSE, horizon |-> FALSE]
    BY DEF NoWalk
  <2>2. d \in [Ids -> 0..Far]
    BY <1>1
  <2>3. ys \in Seq(Ids) /\ p \in Seq(Ids)
    OBVIOUS
  <2>4. t \in SUBSET Ids /\ o \in SUBSET Ids /\ o \in SUBSET q.graph.edges
    OBVIOUS
  <2> HIDE DEF d, p, t, o
  <2>5. s \in Ids /\ FALSE \in BOOLEAN
    OBVIOUS
  <2>6. WalkTyped(q, [at |-> s, queue |-> p, todo |-> o, seen |-> t, capped |-> o, nodes |-> ys,
                      edges |-> o, depths |-> d, cap |-> FALSE, horizon |-> FALSE])
    BY <2>2, <2>3, <2>4, <2>5, WalkTypes
  <2>. QED BY <2>1, <2>6
<1>5. ToSet(<<s>>) = {s} /\ ToSet(ys) = NodesIn(q, {s})
  BY DEF ToSet, NodesIn
<1> HIDE DEF f
<1>6. Sorted(f, <<s>>) /\ Sorted(f, ys)
  BY <1>2 DEF Sorted
<1>7. WalkReaches(q, v, s)
  <2>1. \A x \in Ids : v.depths[x] = IF x \in {s} THEN f[x] ELSE Far
    BY <1>2, <1>3
  <2>2. f[s] <= q.depth /\ f[s] # Far
    BY <1>1, <1>2
  <2>3. v.cap = (v.capped # {}) /\ (v.capped # {} => Len(v.nodes) >= q.cap)
    <3>1. v.cap = FALSE /\ v.capped = {}
      BY <1>3
    <3>. QED BY <3>1
  <2>4. /\ s \in v.seen
        /\ \A x \in Ids : v.depths[x] = IF x \in v.seen THEN f[x] ELSE Far
        /\ \A x \in v.seen : f[x] <= q.depth /\ f[x] # Far
        /\ v.capped \cap v.seen = {} /\ \A x \in v.capped : f[x] # Far
    BY <1>3, <2>1, <2>2
  <2>. QED BY <2>3, <2>4 DEF WalkReaches, f
<1>8. WalkQueues(q, v, s)
  <2>1. f[s] <= f[s] + 1
    BY <1>2
  <2>. QED BY <1>3, <1>5, <1>6, <2>1 DEF WalkQueues, f
<1>9. WalkCloses(q, v, s)
  <2>1. v.seen \ ToSet(v.queue) = {}
    BY <1>3, <1>5
  <2>. QED BY <1>3, <1>5, <1>6, <2>1 DEF WalkCloses, f
<1>. QED BY <1>4, <1>7, <1>8, <1>9 DEF WalkOK

\* What a walk of one seed that ended says.
EndFacts(q, w, s, f) ==
    /\ ~w.cap => \A x \in Ids : w.depths[x] = IF f[x] > q.depth THEN Far ELSE f[x]
    /\ ~w.cap /\ ~w.horizon => \A x \in Ids : f[x] = Far \/ f[x] <= q.depth
    /\ w.cap => (\E y \in Ids \ w.seen : f[y] # Far) /\ Layered(f, w.seen)
    /\ ~w.cap /\ w.horizon => \E x \in Ids : f[x] # Far /\ f[x] = q.depth + 1
    /\ ReachedIn(w.depths) = w.seen /\ (\A x \in w.seen : w.depths[x] = f[x]) /\ s \in w.seen
    /\ ToSet(w.nodes) = NodesIn(q, w.seen) /\ Sorted(f, w.nodes)

\* A walk that ended is honest about its seed.
LEMMA WalkEnds ==
    ASSUME NEW q \in Questions, NEW s \in Ids, NEW w, WalkOK(q, w, s), NEW f, f = From(q, {s}),
           w.todo = {}, w.queue = <<>>
    PROVE  EndFacts(q, w, s, f)
<1>1. WalkFacts(q, w, s, f)
  BY WalkOpens
<1>2. /\ s \in w.seen
      /\ \A x \in Ids : w.depths[x] = IF x \in w.seen THEN f[x] ELSE Far
      /\ \A x \in w.seen : f[x] <= q.depth /\ f[x] # Far
      /\ w.capped \cap w.seen = {} /\ (\A x \in w.capped : f[x] # Far)
      /\ w.cap = (w.capped # {})
  BY DEF WalkOK, WalkReaches
<1>3. ToSet(w.queue) = {}
  BY ListRangeEmpty
<1>4. /\ \A x \in w.seen : f[x] < q.depth =>
             \A e \in Incident(q.graph, x, q.dir) : Advance(e, x, q.dir) \in w.seen \cup w.capped
      /\ \A x \in w.seen : f[x] >= q.depth /\ ~w.horizon => OnwardOf(q, x) \subseteq w.seen \cup w.capped
      /\ w.capped # {} => Layered(f, w.seen)
      /\ w.horizon /\ w.capped = {} => \E x \in Ids : f[x] # Far /\ f[x] = q.depth + 1
      /\ ToSet(w.nodes) = NodesIn(q, w.seen) /\ Sorted(f, w.nodes)
  BY <1>3 DEF WalkOK, WalkCloses
<1>5. /\ w.seen \in SUBSET Ids /\ w.capped \in SUBSET Ids /\ w.cap \in BOOLEAN /\ q.depth \in Nat /\ Far \in Nat
      /\ \A x \in Ids : f[x] \in Nat
  BY <1>1 DEF WalkFacts, Paths
<1>6. (w.cap => w.capped # {}) /\ (~w.cap => w.capped = {})
  BY <1>2
<1>7. w.cap => (\E y \in Ids \ w.seen : f[y] # Far) /\ Layered(f, w.seen)
  BY <1>2, <1>4, <1>5, <1>6
<1>8. ReachedIn(w.depths) = w.seen /\ \A x \in w.seen : w.depths[x] = f[x]
  BY <1>2, <1>5 DEF ReachedIn
<1>9. ASSUME ~w.cap PROVE \A x \in Ids : w.depths[x] = IF f[x] > q.depth THEN Far ELSE f[x]
  <2>1. q.depth <= q.depth /\ \A x \in ToSet(w.queue) : f[x] >= q.depth
    BY <1>3, <1>5
  <2>2. FullTo(f, w.seen, q.depth)
    BY <1>5, <1>6, <1>9, <2>1, SeenIsFull
  <2>3. \A x \in Ids : x \in w.seen <=> f[x] # Far /\ f[x] <= q.depth
    BY <1>2, <1>5, <2>2 DEF FullTo
  <2>4. ASSUME NEW x \in Ids PROVE w.depths[x] = IF f[x] > q.depth THEN Far ELSE f[x]
    <3>1. w.depths[x] = IF x \in w.seen THEN f[x] ELSE Far
      BY <1>2
    <3>2. x \in w.seen <=> f[x] # Far /\ f[x] <= q.depth
      BY <2>3
    <3>3. f[x] \in Nat /\ q.depth \in Nat /\ Far \in Nat
      BY <1>5
    <3>. QED BY <3>1, <3>2, <3>3
  <2>. QED BY <2>4
<1>10. ASSUME ~w.cap, ~w.horizon PROVE \A x \in Ids : f[x] = Far \/ f[x] <= q.depth
  <2>1. ASSUME NEW x \in w.seen PROVE OnwardOf(q, x) \subseteq w.seen
    <3>1. CASE f[x] >= q.depth
      BY <1>4, <1>6, <1>10, <3>1
    <3>2. CASE f[x] < q.depth
      <4>1. \A e \in Incident(q.graph, x, q.dir) : Advance(e, x, q.dir) \in w.seen
        BY <1>4, <1>6, <1>10, <3>2
      <4>. QED BY <4>1 DEF OnwardOf, Onward
    <3>3. f[x] \in Nat
      BY <1>5
    <3>. QED BY <1>5, <3>1, <3>2, <3>3
  <2>2. \A x \in w.seen : OnwardOf(q, x) \subseteq w.seen
    BY <2>1
  <2>3. AllWithin(f, w.seen)
    BY <1>2, <1>5, <2>2, AllWhenClosed
  <2>. QED BY <1>2, <2>3 DEF AllWithin
<1>. QED BY <1>2, <1>4, <1>6, <1>7, <1>8, <1>9, <1>10 DEF EndFacts

\* The distance from two sets of seeds is the smaller one.
FromMeets(q, S, T) ==
    \A x \in Ids : From(q, S \cup T)[x] = Smaller(From(q, S)[x], From(q, T)[x])

LEMMA FromOfUnion ==
    ASSUME NEW q \in Questions, NEW S \in SUBSET Ids, NEW T \in SUBSET Ids
    PROVE  FromMeets(q, S, T)
<1> DEFINE f == From(q, S)
           g == From(q, T)
           h == From(q, S \cup T)
<1>1. /\ Measures(f, q.graph, S, q.dir) /\ Measures(g, q.graph, T, q.dir)
      /\ Measures(h, q.graph, S \cup T, q.dir)
  BY FromMeasures
<1>2. q.graph.edges \subseteq Edge /\ q.dir \in Directions
  BY Asked
<1>3. ASSUME NEW x \in Ids PROVE h[x] = Smaller(f[x], g[x])
  <2> HIDE DEF f, g, h
  <2>. QED BY <1>1, <1>2, MeasuresOfUnion
<1>. QED BY <1>3 DEF FromMeets

\* The answer before the first walk is honest about no seeds.
LEMMA NothingFromNothing ==
    ASSUME NEW q \in Questions
    PROVE  Complete(q, NoAnswer, {})
<1> DEFINE f == From(q, {})
<1>1. Measures(f, q.graph, {}, q.dir)
  BY FromMeasures
<1>2. \A x \in Ids : f[x] # 0 /\ f[x] \in 0..Far
  BY <1>1 DEF Measures
<1>3. Far \in Nat \ {0}
  BY IdsAreCounted
<1> HIDE DEF f
<1>4. ASSUME NEW x \in Ids, f[x] # Far PROVE FALSE
  <2>1. 0 \in Nat /\ 0 <= f[x]
    BY <1>2, <1>3
  <2>2. \E z \in Ids : f[z] # Far /\ f[z] = 0
    BY <1>1, <1>4, <2>1, EveryDistanceOnTheWay
  <2>. QED BY <1>2, <2>2
<1>5. /\ NoAnswer.depths = [x \in Ids |-> Far] /\ NoAnswer.nodes = <<>> /\ NoAnswer.cap = FALSE
  BY DEF NoAnswer
<1>6. \A x \in Ids : NoAnswer.depths[x] = IF f[x] > q.depth THEN Far ELSE f[x]
  BY <1>4, <1>5
<1>7. ToSet(NoAnswer.nodes) = NodesIn(q, ReachedIn(NoAnswer.depths))
  <2>1. ReachedIn(NoAnswer.depths) = {}
    BY <1>5 DEF ReachedIn
  <2>. QED BY <1>5, <2>1, ListRangeEmpty DEF NodesIn
<1>. QED BY <1>4, <1>6, <1>7 DEF Complete, f

LEMMA NoAnswerTyped ==
    ASSUME NEW q
    PROVE  AnswerTyped(q, NoAnswer)
<1> DEFINE d == [x \in Ids |-> Far]
           n == <<>>
           o == {}
<1>1. d \in [Ids -> 0..Far] /\ n \in Seq(Ids) /\ o \in SUBSET q.graph.edges
  BY IdsAreCounted
<1>2. NoAnswer = [nodes |-> n, edges |-> o, depths |-> d, cap |-> FALSE, horizon |-> FALSE]
  BY DEF NoAnswer
<1> HIDE DEF d, n, o
<1>. QED BY <1>1, <1>2 DEF AnswerTyped

\* The union of what was walked so far and one walk more.
LEMMA AbsorbedKeeps ==
    ASSUME ask \in Questions, NEW s \in Ids, NEW w, WalkOK(ask, w, s), w.todo = {}, w.queue = <<>>,
           NEW T \in SUBSET Ids, NEW a, AnswerTyped(ask, a), Complete(ask, a, T),
           NEW c, c = Absorbed(a, w)
    PROVE  /\ AnswerTyped(ask, c) /\ Complete(ask, c, T \cup {s})
           /\ a = NoAnswer => OneSeed(ask, c, s)
<1> DEFINE f == From(ask, {s})
           g == From(ask, T)
           h == From(ask, T \cup {s})
           k == ask.depth
<1>1. EndFacts(ask, w, s, f) /\ WalkFacts(ask, w, s, f)
  BY WalkEnds, WalkOpens
<1>2. Paths(ask, {s}, f) /\ Paths(ask, T, g) /\ FromMeets(ask, T, {s}) /\ Far \in Nat /\ k \in Nat
  BY FromPaths, FromOfUnion, IdsAreCounted, Asked
<1>3. \A x \in Ids : h[x] = Smaller(g[x], f[x]) /\ f[x] \in Nat /\ g[x] \in Nat /\ f[x] <= Far /\ g[x] <= Far
  BY <1>2 DEF Paths, FromMeets
<1> HIDE DEF f, g, h
<1>4. /\ a.nodes \in Seq(Ids) /\ a.edges \subseteq ask.graph.edges /\ a.depths \in [Ids -> 0..Far]
      /\ a.cap \in BOOLEAN /\ a.horizon \in BOOLEAN
  BY DEF AnswerTyped
<1>5. /\ w.nodes \in Seq(Ids) /\ w.edges \subseteq ask.graph.edges /\ w.depths \in [Ids -> 0..Far]
      /\ w.cap \in BOOLEAN /\ w.horizon \in BOOLEAN /\ w.seen \in SUBSET Ids
  BY <1>1 DEF WalkFacts
<1>6. /\ c = [nodes |-> c.nodes, edges |-> c.edges, depths |-> c.depths, cap |-> c.cap, horizon |-> c.horizon]
      /\ c.nodes = AddNodes(a.nodes, w.nodes) /\ c.edges = a.edges \cup w.edges
      /\ c.depths = [x \in Ids |-> Smaller(a.depths[x], w.depths[x])]
      /\ c.cap = (a.cap \/ w.cap) /\ c.horizon = (a.horizon \/ w.horizon)
  BY DEF Absorbed
<1>7. c.nodes \in Seq(Ids) /\ ToSet(c.nodes) = ToSet(a.nodes) \cup NodesIn(ask, ToSet(w.nodes))
  BY <1>4, <1>5, <1>6, AddNodesMeans
<1>8. /\ c.depths \in [Ids -> 0..Far]
      /\ \A x \in Ids : c.depths[x] = Smaller(a.depths[x], w.depths[x])
  BY <1>2, <1>4, <1>5, <1>6 DEF Smaller
<1>9. AnswerTyped(ask, c)
  <2>1. c.edges \in SUBSET ask.graph.edges /\ c.cap \in BOOLEAN /\ c.horizon \in BOOLEAN
    BY <1>4, <1>5, <1>6
  <2>. QED BY <1>6, <1>7, <1>8, <2>1 DEF AnswerTyped
<1>10. /\ ~w.cap => \A x \in Ids : w.depths[x] = IF f[x] > k THEN Far ELSE f[x]
       /\ ~w.cap /\ ~w.horizon => \A x \in Ids : f[x] = Far \/ f[x] <= k
       /\ w.cap => (\E y \in Ids \ w.seen : f[y] # Far) /\ Layered(f, w.seen)
       /\ ~w.cap /\ w.horizon => \E x \in Ids : f[x] # Far /\ f[x] = k + 1
       /\ ReachedIn(w.depths) = w.seen /\ (\A x \in w.seen : w.depths[x] = f[x]) /\ s \in w.seen
       /\ ToSet(w.nodes) = NodesIn(ask, w.seen) /\ Sorted(f, w.nodes)
  BY <1>1 DEF EndFacts
<1>11. /\ ~a.cap => \A x \in Ids : a.depths[x] = IF g[x] > k THEN Far ELSE g[x]
       /\ ~a.cap /\ ~a.horizon => \A x \in Ids : g[x] = Far \/ g[x] <= k
       /\ ToSet(a.nodes) = NodesIn(ask, ReachedIn(a.depths))
  BY DEF Complete, g
<1>12. ASSUME ~c.cap PROVE \A x \in Ids : c.depths[x] = IF h[x] > k THEN Far ELSE h[x]
  <2>1. ~a.cap /\ ~w.cap
    BY <1>6, <1>12
  <2>2. \A x \in Ids : /\ a.depths[x] = IF g[x] > k THEN Far ELSE g[x]
                       /\ w.depths[x] = IF f[x] > k THEN Far ELSE f[x]
    BY <1>10, <1>11, <2>1
  <2>. QED BY <1>2, <1>3, <1>8, <2>2 DEF Smaller
<1>13. ASSUME ~c.cap, ~c.horizon PROVE \A x \in Ids : h[x] = Far \/ h[x] <= k
  <2>1. ~a.cap /\ ~w.cap /\ ~a.horizon /\ ~w.horizon
    BY <1>6, <1>13
  <2>2. \A x \in Ids : (g[x] = Far \/ g[x] <= k) /\ (f[x] = Far \/ f[x] <= k)
    BY <1>10, <1>11, <2>1
  <2>. QED BY <1>3, <2>2 DEF Smaller
<1>14. ToSet(c.nodes) = NodesIn(ask, ReachedIn(c.depths))
  <2>1. \A x \in Ids : a.depths[x] \in 0..Far /\ w.depths[x] \in 0..Far
    BY <1>4, <1>5
  <2>2. \A x \in Ids : c.depths[x] # Far <=> a.depths[x] # Far \/ w.depths[x] # Far
    BY <1>2, <1>8, <2>1 DEF Smaller
  <2>3. ReachedIn(c.depths) = ReachedIn(a.depths) \cup w.seen
    <3>1. ReachedIn(c.depths) = ReachedIn(a.depths) \cup ReachedIn(w.depths)
      BY <2>2 DEF ReachedIn
    <3>. QED BY <1>10, <3>1
  <2>. QED BY <1>7, <1>10, <1>11, <2>3 DEF NodesIn
<1>15. Complete(ask, c, T \cup {s})
  BY <1>12, <1>13, <1>14 DEF Complete, h
<1>16. ASSUME a = NoAnswer PROVE OneSeed(ask, c, s)
  <2>1. /\ a.nodes = <<>> /\ a.cap = FALSE /\ a.horizon = FALSE /\ \A x \in Ids : a.depths[x] = Far
    BY <1>16 DEF NoAnswer
  <2>2. \A x \in Ids : c.depths[x] = w.depths[x]
    <3>1. \A x \in Ids : w.depths[x] \in 0..Far
      BY <1>5
    <3>. QED BY <1>2, <1>8, <2>1, <3>1 DEF Smaller
  <2>3. ReachedIn(c.depths) = w.seen
    <3>1. ReachedIn(c.depths) = ReachedIn(w.depths)
      BY <2>2 DEF ReachedIn
    <3>. QED BY <1>10, <3>1
  <2>4. (c.cap => w.cap) /\ (~c.cap => ~w.cap) /\ (c.horizon => w.horizon)
    BY <1>6, <2>1
  <2>5. f \in [Ids -> Nat]
    BY <1>2 DEF Paths
  <2>6. Sorted(f, c.nodes)
    BY <1>5, <1>6, <1>10, <2>1, <2>5, AddNodesSorts
  <2>7. \A x \in w.seen : c.depths[x] = f[x]
    BY <1>5, <1>10, <2>2
  <2>. QED BY <1>10, <2>3, <2>4, <2>6, <2>7 DEF OneSeed, f
<1>. QED BY <1>9, <1>15, <1>16

-----------------------------------------------------------------------------
(* The steps of a traversal. *)

\* A walk under way is not NoWalk.
LEMMA WalkUnderWay ==
    ASSUME NEW q \in Questions, NEW s \in Ids, NEW w, WalkOK(q, w, s)
    PROVE  w # NoWalk
<1>1. w.at \in Ids
  BY DEF WalkOK, WalkTyped
<1>2. NoWalk.at = 0
  BY DEF NoWalk
<1>. QED BY <1>1, <1>2, IdsAreNumbered

LEMMA WalkInit ==
    ASSUME InitWalk
    PROVE  AskInv /\ WalkInv
<1>1. ask \in Questions /\ seeds = ask.seeds /\ walk = NoWalk /\ sub = NoAnswer
  BY DEF InitWalk
<1>2. ask.use \in {"walk", "blast", "recall"} /\ ask.engine \in {"memory", "sqlite"} /\ ask.seeds \in Seq(Ids)
  BY <1>1, Asked
<1>3. AskInv
  BY <1>1, <1>2 DEF AskInv, InitWalk
<1>4. Walked(ask, seeds, walk, sub)
  <2>1. AnswerTyped(ask, sub) /\ Complete(ask, sub, {})
    BY <1>1, NoAnswerTyped, NothingFromNothing
  <2>2. ToSet(ask.seeds) = {} \cup ToSet(seeds) /\ {} \in SUBSET Ids
    BY <1>1
  <2>. QED BY <1>1, <1>2, <2>1, <2>2 DEF Walked
<1>. QED BY <1>3, <1>4 DEF WalkInv

LEMMA StartWalkStep ==
    ASSUME AskInv, WalkInv, StartWalk
    PROVE  WalkInv'
<1>1. /\ ask \in Questions /\ Walked(ask, seeds, walk, sub) /\ walk = NoWalk /\ seeds # <<>>
      /\ seeds' = Tail(seeds) /\ ask' = ask /\ sub' = sub
      /\ walk' = [NoWalk EXCEPT !.at = Head(seeds), !.queue = <<Head(seeds)>>, !.seen = {Head(seeds)},
                                !.nodes = Listed(Head(seeds)), !.depths[Head(seeds)] = 0]
  BY DEF AskInv, WalkInv, StartWalk
<1>2. /\ seeds \in Seq(Ids) /\ AnswerTyped(ask, sub)
      /\ Len(ask.seeds) = 1 => seeds = ask.seeds /\ sub = NoAnswer
  BY <1>1 DEF Walked
<1>3. PICK T \in SUBSET Ids : Complete(ask, sub, T) /\ ToSet(ask.seeds) = T \cup ToSet(seeds)
  BY <1>1 DEF Walked
<1> DEFINE s == Head(seeds)
<1>4. /\ s \in Ids /\ Tail(seeds) \in Seq(Ids) /\ ToSet(seeds) = {s} \cup ToSet(Tail(seeds))
      /\ Len(Tail(seeds)) = Len(seeds) - 1
  BY <1>1, <1>2, ListRangeTail
<1>5. WalkOK(ask, walk', s)
  <2>1. Listed(s) = IF ask.graph.kind[s] # "none" THEN <<s>> ELSE <<>>
    BY DEF Listed, HasNode
  <2> HIDE DEF s
  <2>2. walk' = [NoWalk EXCEPT !.at = s, !.queue = <<s>>, !.seen = {s}, !.nodes = Listed(s), !.depths[s] = 0]
    BY <1>1 DEF s
  <2>. QED BY <1>1, <1>4, <2>1, <2>2, StartKeeps
<1>6. walk' # NoWalk
  BY <1>1, <1>4, <1>5, WalkUnderWay
<1>7. Len(ask.seeds) = 1 => seeds' = <<>>
  BY <1>1, <1>2, <1>4
<1>8. ToSet(ask.seeds) = T \cup {s} \cup ToSet(seeds')
  BY <1>1, <1>3, <1>4
<1> HIDE DEF s
<1>9. Walked(ask, seeds', walk', sub)
  BY <1>1, <1>2, <1>3, <1>4, <1>5, <1>6, <1>7, <1>8 DEF Walked
<1>. QED BY <1>1, <1>9 DEF WalkInv

\* A step of the walk under way leaves the rest as it is.
LEMMA WalkGoesOn ==
    ASSUME AskInv, WalkInv, Walking, UNCHANGED <<ask, seeds, sub, pc>>,
           \A s \in Ids : WalkOK(ask, walk, s) => WalkOK(ask, walk', s)
    PROVE  WalkInv'
<1>1. ask \in Questions /\ Walked(ask, seeds, walk, sub) /\ walk # NoWalk
  BY DEF AskInv, WalkInv, Walking
<1>2. PICK T \in SUBSET Ids : Complete(ask, sub, T) /\ \E s \in Ids :
            ToSet(ask.seeds) = T \cup {s} \cup ToSet(seeds) /\ WalkOK(ask, walk, s)
  BY <1>1 DEF Walked
<1>3. PICK s \in Ids : ToSet(ask.seeds) = T \cup {s} \cup ToSet(seeds) /\ WalkOK(ask, walk, s)
  BY <1>2
<1>4. WalkOK(ask, walk', s)
  BY <1>3
<1>5. walk' # NoWalk
  BY <1>1, <1>4, WalkUnderWay
<1>6. /\ seeds \in Seq(Ids) /\ AnswerTyped(ask, sub)
      /\ Len(ask.seeds) = 1 => seeds = <<>> /\ sub = NoAnswer
  BY <1>1 DEF Walked
<1>7. Walked(ask, seeds, walk', sub)
  BY <1>2, <1>3, <1>4, <1>5, <1>6 DEF Walked
<1>. QED BY <1>7 DEF WalkInv

LEMMA ProbeStep ==
    ASSUME AskInv, WalkInv, Probe
    PROVE  WalkInv'
<1>1. ask \in Questions /\ Walking /\ UNCHANGED <<ask, seeds, sub, pc>>
  BY DEF AskInv, Probe
<1>2. ASSUME NEW s \in Ids, WalkOK(ask, walk, s) PROVE WalkOK(ask, walk', s)
  <2>1. /\ walk.todo = {} /\ walk.queue # <<>> /\ walk.depths[Head(walk.queue)] >= ask.depth
        /\ walk' = [walk EXCEPT !.queue = Tail(walk.queue), !.horizon = walk.horizon \/
                          OnwardOf(ask, Head(walk.queue)) \ (walk.seen \cup walk.capped) # {}]
    BY DEF Probe, OnwardOf
  <2>. QED BY <1>1, <1>2, <2>1, ProbeKeeps
<1>3. \A s \in Ids : WalkOK(ask, walk, s) => WalkOK(ask, walk', s)
  BY <1>2
<1>. QED BY <1>1, <1>3, WalkGoesOn

LEMMA ExpandStep ==
    ASSUME AskInv, WalkInv, Expand
    PROVE  WalkInv'
<1>1. ask \in Questions /\ Walking /\ UNCHANGED <<ask, seeds, sub, pc>>
  BY DEF AskInv, Expand
<1>2. ASSUME NEW s \in Ids, WalkOK(ask, walk, s) PROVE WalkOK(ask, walk', s)
  <2>1. /\ walk.todo = {} /\ walk.queue # <<>> /\ walk.depths[Head(walk.queue)] < ask.depth
        /\ walk' = [walk EXCEPT !.at = Head(walk.queue), !.queue = Tail(walk.queue),
                                !.todo = Incident(ask.graph, Head(walk.queue), ask.dir)]
    BY DEF Expand
  <2>. QED BY <1>1, <1>2, <2>1, ExpandKeeps
<1>3. \A s \in Ids : WalkOK(ask, walk, s) => WalkOK(ask, walk', s)
  BY <1>2
<1>. QED BY <1>1, <1>3, WalkGoesOn

LEMMA FollowStep ==
    ASSUME AskInv, WalkInv, NEW e \in walk.todo, Follow(e)
    PROVE  WalkInv'
<1>1. ask \in Questions /\ Walking /\ UNCHANGED <<ask, seeds, sub, pc>>
  BY DEF AskInv, Follow
<1>2. ASSUME NEW s \in Ids, WalkOK(ask, walk, s) PROVE WalkOK(ask, walk', s)
  <2> DEFINE y == Advance(e, walk.at, ask.dir)
             along == [walk EXCEPT !.todo = walk.todo \ {e}, !.edges = walk.edges \cup {e}]
  <2>0. walk = [at |-> walk.at, queue |-> walk.queue, todo |-> walk.todo, seen |-> walk.seen,
                capped |-> walk.capped, nodes |-> walk.nodes, edges |-> walk.edges,
                depths |-> walk.depths, cap |-> walk.cap, horizon |-> walk.horizon]
    BY <1>2 DEF WalkOK, WalkTyped
  <2>1. walk' = IF y \in walk.seen THEN along
                ELSE IF Full THEN [along EXCEPT !.cap = TRUE, !.capped = walk.capped \cup {y}]
                ELSE [along EXCEPT !.seen = walk.seen \cup {y}, !.queue = Append(walk.queue, y),
                                   !.nodes = walk.nodes \o Listed(y),
                                   !.depths[y] = walk.depths[walk.at] + 1]
    BY <2>0 DEF Follow
  <2>2. CASE y \in walk.seen
    <3>1. walk' = [walk EXCEPT !.todo = walk.todo \ {e}, !.edges = walk.edges \cup {e}]
      BY <2>1, <2>2
    <3>. QED BY <1>1, <1>2, <2>2, <3>1, AlongKeeps
  <2>3. CASE y \notin walk.seen /\ Full
    <3>1. walk' = [walk EXCEPT !.todo = walk.todo \ {e}, !.edges = walk.edges \cup {e}, !.cap = TRUE,
                               !.capped = walk.capped \cup {y}]
      BY <2>0, <2>1, <2>3
    <3>2. Len(walk.nodes) >= ask.cap
      BY <2>3 DEF Full
    <3>. QED BY <1>1, <1>2, <2>3, <3>1, <3>2, CapKeeps
  <2>4. CASE y \notin walk.seen /\ ~Full
    <3>1. walk' = [walk EXCEPT !.todo = walk.todo \ {e}, !.edges = walk.edges \cup {e},
                               !.seen = walk.seen \cup {y}, !.queue = Append(walk.queue, y),
                               !.nodes = walk.nodes \o Listed(y),
                               !.depths[y] = walk.depths[walk.at] + 1]
      BY <2>0, <2>1, <2>4
    <3>2. ~(Len(walk.nodes) >= ask.cap) /\ Listed(y) = IF ask.graph.kind[y] # "none" THEN <<y>> ELSE <<>>
      BY <2>4 DEF Full, Listed, HasNode
    <3>. QED BY <1>1, <1>2, <2>4, <3>1, <3>2, ReachKeeps
  <2>. QED BY <2>2, <2>3, <2>4
<1>3. \A s \in Ids : WalkOK(ask, walk, s) => WalkOK(ask, walk', s)
  BY <1>2
<1>. QED BY <1>1, <1>3, WalkGoesOn

LEMMA EndWalkStep ==
    ASSUME AskInv, WalkInv, EndWalk
    PROVE  WalkInv'
<1>1. /\ ask \in Questions /\ Walked(ask, seeds, walk, sub) /\ walk # NoWalk
      /\ walk.todo = {} /\ walk.queue = <<>> /\ walk' = NoWalk /\ sub' = Absorbed(sub, walk)
      /\ ask' = ask /\ seeds' = seeds
  BY DEF AskInv, WalkInv, EndWalk, Walking
<1>2. PICK T \in SUBSET Ids : Complete(ask, sub, T) /\ \E s \in Ids :
            ToSet(ask.seeds) = T \cup {s} \cup ToSet(seeds) /\ WalkOK(ask, walk, s)
  BY <1>1 DEF Walked
<1>3. PICK s \in Ids : ToSet(ask.seeds) = T \cup {s} \cup ToSet(seeds) /\ WalkOK(ask, walk, s)
  BY <1>2
<1>4. /\ seeds \in Seq(Ids) /\ AnswerTyped(ask, sub)
      /\ Len(ask.seeds) = 1 => seeds = <<>> /\ sub = NoAnswer
  BY <1>1 DEF Walked
<1>5. /\ AnswerTyped(ask, sub') /\ Complete(ask, sub', T \cup {s})
      /\ sub = NoAnswer => OneSeed(ask, sub', s)
  BY <1>1, <1>2, <1>3, <1>4, AbsorbedKeeps
<1>6. Len(ask.seeds) = 1 => s = ask.seeds[1]
  <2>1. ask.seeds \in Seq(Ids)
    BY <1>1, Asked
  <2>2. s \in ToSet(ask.seeds)
    BY <1>3
  <2>. QED BY <2>1, <2>2, ListRange
<1>7. T \cup {s} \in SUBSET Ids /\ ToSet(ask.seeds) = (T \cup {s}) \cup ToSet(seeds)
  BY <1>3
<1>8. Walked(ask, seeds', walk', sub')
  BY <1>1, <1>4, <1>5, <1>6, <1>7 DEF Walked
<1>. QED BY <1>1, <1>8 DEF WalkInv

\* An answer without the depths of its seeds.
SeedsOut(q, a, c) ==
    /\ c.cap = a.cap /\ c.horizon = a.horizon
    /\ \A x \in Ids : c.depths[x] = IF x \in ToSet(q.seeds) THEN Far ELSE a.depths[x]

\* The answer of the in-memory store once its seeds were walked, without their depths.
LEMMA MemoryIsHonest ==
    ASSUME NEW q \in Questions, q.engine = "memory", NEW a, Complete(q, a, ToSet(q.seeds)), AnswerTyped(q, a),
           Len(q.seeds) = 1 => OneSeed(q, a, q.seeds[1]),
           NEW c, SeedsOut(q, a, c)
    PROVE  Honest(q, c)
<1> DEFINE S == ToSet(q.seeds)
           f == From(q, S)
           R == ReachedIn(c.depths)
<1>1. /\ q.seeds \in Seq(Ids) /\ S \in SUBSET Ids /\ q.depth \in Nat /\ Far \in Nat
  BY Asked, IdsAreCounted
<1>2. Dist(q) = f
  BY DEF Dist, From
<1>3. Paths(q, S, f)
  BY <1>1, FromPaths
<1>4. \A x \in Ids : f[x] \in Nat
  BY <1>3 DEF Paths
<1>5. /\ c.cap = a.cap /\ c.horizon = a.horizon
      /\ \A x \in Ids : c.depths[x] = IF x \in S THEN Far ELSE a.depths[x]
  BY DEF SeedsOut
<1>6. /\ ~a.cap => \A x \in Ids : a.depths[x] = IF f[x] > q.depth THEN Far ELSE f[x]
      /\ ~a.cap /\ ~a.horizon => \A x \in Ids : f[x] = Far \/ f[x] <= q.depth
  BY DEF Complete
<1>7. R = ReachedIn(a.depths) \ S
  BY <1>1, <1>5 DEF ReachedIn
<1>8. ASSUME Len(q.seeds) = 1
      PROVE  /\ a.cap => /\ \E y \in Ids \ R : y \notin S /\ f[y] # Far
                         /\ \A x \in R, y \in Ids \ R : c.depths[x] = f[x] /\ (y \in S \/ f[x] <= f[y])
             /\ ~a.cap /\ a.horizon => \E x \in Ids : f[x] = q.depth + 1
  <2>1. S = {q.seeds[1]}
    BY <1>1, <1>8 DEF ToSet
  <2>2. OneSeed(q, a, q.seeds[1])
    BY <1>8
  <2>3. f = From(q, {q.seeds[1]})
    BY <2>1
  <2> HIDE DEF f, S, R
  <2>4. /\ \A x \in ReachedIn(a.depths) : a.depths[x] = f[x]
        /\ q.seeds[1] \in ReachedIn(a.depths)
        /\ a.cap => /\ \E y \in Ids \ ReachedIn(a.depths) : f[y] # Far
                    /\ Layered(f, ReachedIn(a.depths))
        /\ ~a.cap /\ a.horizon => \E x \in Ids : f[x] # Far /\ f[x] = q.depth + 1
    BY <2>2, <2>3 DEF OneSeed
  <2>5. ReachedIn(a.depths) \subseteq Ids
    BY DEF ReachedIn
  <2>6. ASSUME a.cap PROVE \E y \in Ids \ R : y \notin S /\ f[y] # Far
    <3>1. PICK y \in Ids \ ReachedIn(a.depths) : f[y] # Far
      BY <2>4, <2>6
    <3>. QED BY <1>7, <2>1, <2>4, <3>1
  <2>7. ASSUME a.cap, NEW x \in R, NEW y \in Ids \ R
        PROVE  c.depths[x] = f[x] /\ (y \in S \/ f[x] <= f[y])
    <3>1. x \in Ids /\ x \in ReachedIn(a.depths) /\ x \notin S
      BY <1>7, <2>5, <2>7
    <3>2. c.depths[x] = f[x]
      BY <1>5, <2>4, <3>1
    <3>3. ASSUME y \notin S PROVE f[x] <= f[y]
      <4>1. y \notin ReachedIn(a.depths)
        BY <1>7, <2>7, <3>3
      <4>2. PICK n \in 0..Cardinality(Ids) : \A z \in Ids : /\ z \in ReachedIn(a.depths) => f[z] <= n + 1
                                                            /\ f[z] <= n => z \in ReachedIn(a.depths)
        BY <2>4, <2>7 DEF Layered
      <4>3. f[x] <= n + 1 /\ ~(f[y] <= n) /\ f[x] \in Nat /\ f[y] \in Nat /\ n \in Nat
        BY <1>4, <2>7, <3>1, <4>1, <4>2, IdsAreCounted
      <4>. QED BY <4>3
    <3>. QED BY <3>2, <3>3
  <2>. QED BY <2>4, <2>6, <2>7
<1>9. ~c.cap => \A x \in Ids : x \notin S => c.depths[x] = IF f[x] > q.depth THEN Far ELSE f[x]
  BY <1>5, <1>6
<1> HIDE DEF f, S, R
<1>10. ~c.cap /\ ~c.horizon => \A x \in Ids : f[x] = Far \/ f[x] <= q.depth
  BY <1>5, <1>6
<1>11. q.engine # "sqlite"
  OBVIOUS
<1>. QED BY <1>2, <1>5, <1>8, <1>9, <1>10, <1>11 DEF Honest, S, R

LEMMA EndTraverseStep ==
    ASSUME AskInv, WalkInv, EndTraverse
    PROVE  /\ AskInv' /\ AnsweredInv' /\ WalksAreHonest' /\ BlastIsHonest' /\ WalkInv'
<1>1. /\ ask \in Questions /\ Walked(ask, seeds, walk, sub) /\ walk = NoWalk /\ seeds = <<>>
      /\ ask' = ask /\ ask.engine = "memory" /\ ask.use # "blast" /\ pc' = Answered
      /\ sub' = [sub EXCEPT !.depths = WithoutSeeds(sub.depths)]
  <2>1. AnswerTyped(ask, sub)
    BY DEF AskInv, WalkInv, EndTraverse, Walked
  <2>2. sub = [nodes |-> sub.nodes, edges |-> sub.edges, depths |-> sub.depths, cap |-> sub.cap,
               horizon |-> sub.horizon]
    BY <2>1 DEF AnswerTyped
  <2>. QED BY <2>2 DEF AskInv, WalkInv, EndTraverse
<1>2. /\ AnswerTyped(ask, sub)
      /\ \E T \in SUBSET Ids : Complete(ask, sub, T) /\ ToSet(ask.seeds) = T \cup ToSet(seeds)
      /\ Len(ask.seeds) = 1 => seeds = ask.seeds \/ OneSeed(ask, sub, ask.seeds[1])
  BY <1>1 DEF Walked
<1>3. Complete(ask, sub, ToSet(ask.seeds)) /\ AnswerTyped(ask, sub) /\ ask.seeds # <<>>
  <2>1. ask.seeds # <<>>
    BY <1>1, Asked
  <2>2. PICK T \in SUBSET Ids : Complete(ask, sub, T) /\ ToSet(ask.seeds) = T \cup ToSet(seeds)
    BY <1>2
  <2>3. ToSet(ask.seeds) = T
    BY <1>1, <2>2, ListRangeEmpty
  <2>. QED BY <1>2, <2>1, <2>2, <2>3
<1>4. Len(ask.seeds) = 1 => OneSeed(ask, sub, ask.seeds[1])
  BY <1>1, <1>2, <1>3
<1>5. /\ sub.nodes \in Seq(Ids) /\ sub.edges \in SUBSET ask.graph.edges /\ sub.depths \in [Ids -> 0..Far]
      /\ sub.cap \in BOOLEAN /\ sub.horizon \in BOOLEAN
      /\ sub = [nodes |-> sub.nodes, edges |-> sub.edges, depths |-> sub.depths, cap |-> sub.cap,
                horizon |-> sub.horizon]
  BY <1>3 DEF AnswerTyped
<1> DEFINE d == [x \in Ids |-> IF x \in ToSet(ask.seeds) THEN Far ELSE sub.depths[x]]
<1>6. /\ sub'.cap = sub.cap /\ sub'.horizon = sub.horizon /\ sub'.nodes = sub.nodes
      /\ sub'.edges = sub.edges /\ sub'.depths = d
      /\ sub' = [nodes |-> sub.nodes, edges |-> sub.edges, depths |-> d, cap |-> sub.cap,
                 horizon |-> sub.horizon]
  BY <1>1, <1>5 DEF WithoutSeeds
<1>7. Honest(ask, sub')
  <2>1. SeedsOut(ask, sub, sub')
    BY <1>6 DEF SeedsOut
  <2>. QED BY <1>1, <1>3, <1>4, <2>1, MemoryIsHonest
<1>8. WalksAreHonest'
  BY <1>1, <1>7, HonestyNext
<1>9. pc' = IF ask.use = "recall" THEN "fold" ELSE "done"
  BY <1>1 DEF Answered
<1>10. AskInv' /\ WalkInv' /\ BlastIsHonest'
  BY <1>1, <1>9 DEF AskInv, WalkInv, BlastIsHonest
<1>11. AnswerTyped(ask, sub')
  <2>1. d \in [Ids -> 0..Far]
    BY <1>5, IdsAreCounted
  <2> HIDE DEF d
  <2>. QED BY <1>5, <1>6, <2>1 DEF AnswerTyped
<1>12. \A x \in ToSet(sub.nodes) : x \in Ids /\ x \in ReachedIn(sub.depths) /\ ask.graph.kind[x] # "none"
  <2>1. ToSet(sub.nodes) = NodesIn(ask, ReachedIn(sub.depths))
    BY <1>3 DEF Complete
  <2>. QED BY <2>1 DEF NodesIn, ReachedIn
<1>13. ASSUME Len(ask.seeds) = 1, NEW i \in 1..Len(sub.nodes), NEW j \in 1..Len(sub.nodes), i <= j
       PROVE  (IF sub.nodes[i] \in ToSet(ask.seeds) THEN 0 ELSE d[sub.nodes[i]]) <=
                 (IF sub.nodes[j] \in ToSet(ask.seeds) THEN 0 ELSE d[sub.nodes[j]])
  <2> DEFINE f == From(ask, {ask.seeds[1]})
  <2>1. /\ \A x \in ReachedIn(sub.depths) : sub.depths[x] = f[x]
        /\ Sorted(f, sub.nodes)
    BY <1>4, <1>13 DEF OneSeed
  <2>2. ask.seeds \in Seq(Ids) /\ ask.seeds[1] \in Ids /\ ToSet(ask.seeds) = {ask.seeds[1]}
    <3>1. ask.seeds \in Seq(Ids) /\ Len(ask.seeds) = 1
      BY <1>1, <1>13, Asked
    <3>. QED BY <3>1 DEF ToSet
  <2>3. Paths(ask, {ask.seeds[1]}, f)
    BY <1>1, <2>2, FromPaths
  <2> HIDE DEF f
  <2>4. f[ask.seeds[1]] = 0
    BY <2>2, <2>3 DEF Paths
  <2>5. \A x \in ToSet(sub.nodes) : (IF x \in ToSet(ask.seeds) THEN 0 ELSE d[x]) = f[x]
    BY <1>12, <2>1, <2>2, <2>4
  <2>6. sub.nodes[i] \in ToSet(sub.nodes) /\ sub.nodes[j] \in ToSet(sub.nodes)
    BY <1>5, ListRange
  <2>7. f[sub.nodes[i]] <= f[sub.nodes[j]]
    BY <1>13, <2>1 DEF Sorted
  <2>. QED BY <2>5, <2>6, <2>7
<1>14. AnsweredInv'
  <2>1. \A x \in ToSet(sub'.nodes) : ask'.graph.kind[x] # "none"
    BY <1>1, <1>6, <1>12
  <2>2. Len(ask.seeds) = 1 => \A i, j \in 1..Len(sub'.nodes) : i <= j =>
            (IF sub'.nodes[i] \in ToSet(ask'.seeds) THEN 0 ELSE sub'.depths[sub'.nodes[i]]) <=
               (IF sub'.nodes[j] \in ToSet(ask'.seeds) THEN 0 ELSE sub'.depths[sub'.nodes[j]])
    <3> HIDE DEF d
    <3>. QED BY <1>1, <1>6, <1>13
  <2>3. AnswerTyped(ask', sub')
    BY <1>1, <1>11
  <2>. QED BY <1>1, <2>1, <2>2, <2>3 DEF AnsweredInv, IsNode, Ordered, DepthSorted, DepthIn
<1>. QED BY <1>8, <1>10, <1>14

LEMMA QueryStep ==
    ASSUME AskInv, WalkInv, Query
    PROVE  /\ AskInv' /\ AnsweredInv' /\ WalksAreHonest' /\ BlastIsHonest' /\ WalkInv'
<1>1. /\ ask \in Questions /\ ask.engine = "sqlite" /\ ask.use # "blast" /\ ask' = ask
      /\ sub' \in SqlAnswers(ask.seeds, ask.dir, ask.depth, ask.cap)
      /\ pc' = IF ask.use = "recall" THEN "fold" ELSE "done"
  BY DEF AskInv, Query, Answered
<1>2. /\ Honest(ask, sub') /\ AnswerTyped(ask, sub') /\ \A x \in ToSet(sub'.nodes) : HasNode(x)
  BY <1>1, SqlIsHonest
<1>3. WalksAreHonest'
  BY <1>1, <1>2, HonestyNext
<1>4. AskInv' /\ WalkInv' /\ BlastIsHonest'
  BY <1>1 DEF AskInv, WalkInv, BlastIsHonest
<1>5. AnsweredInv'
  BY <1>1, <1>2 DEF AnsweredInv, HasNode, IsNode, Ordered
<1>. QED BY <1>3, <1>4, <1>5

LEMMA BlastStep ==
    ASSUME AskInv, BlastRadius
    PROVE  /\ AskInv' /\ AnsweredInv' /\ WalksAreHonest' /\ BlastIsHonest' /\ WalkInv'
<1>1. ask \in Questions /\ ask.use = "blast" /\ ask' = ask /\ pc' = "done"
  BY DEF AskInv, BlastRadius
<1>2. BlastSays(ask, sub')
  BY BlastIsWhole
<1>3. BlastIsHonest'
  BY <1>1, <1>2, BlastNext
<1>4. AskInv' /\ WalkInv' /\ AnsweredInv' /\ WalksAreHonest'
  BY <1>1 DEF AskInv, WalkInv, AnsweredInv, WalksAreHonest
<1>. QED BY <1>3, <1>4

-----------------------------------------------------------------------------
(* The ply of cross-store edges folded into an answer. *)

\* Memories are finitely many.
LEMMA MemoriesAreFew == \A F \in SUBSET Memories : IsFiniteSet(F) /\ Cardinality(F) \in Nat
<1>1. SUFFICES ASSUME NEW F \in SUBSET Memories PROVE IsFiniteSet(F) /\ Cardinality(F) \in Nat
  OBVIOUS
<1>2. F \subseteq Ids
  BY MemoriesAreForeign
<1>. QED BY <1>2, IdsAreNumbered, FS_Subset, FS_CardinalityType

\* A ply, field by field.
LEMMA FoldTypes ==
    ASSUME NEW anchors \in Seq(Ids), NEW at \in Ids \cup {0}, NEW todo \in SUBSET Row,
           NEW folded \in SUBSET Memories
    PROVE  [anchors |-> anchors, at |-> at, todo |-> todo, folded |-> folded] \in
               [anchors : Seq(Ids), at : Ids \cup {0}, todo : SUBSET Row, folded : SUBSET Memories]
  OBVIOUS

\* The ply begins with every node of the home's answer as an anchor.
LEMMA FoldStarts ==
    ASSUME NEW q \in Questions, q.use = "recall", NEW rows \in SUBSET Row, NEW pool, NEW a, AnswerTyped(q, a),
           \A x \in ToSet(a.nodes) : IsNode(q, x), Ordered(q) => DepthSorted(q, a, a.nodes),
           NEW fo, fo = [NoFold EXCEPT !.anchors = a.nodes]
    PROVE  FoldOK(q, rows, pool, a, fo)
<1>1. fo.anchors = a.nodes /\ fo.at = 0 /\ fo.todo = {} /\ fo.folded = {}
  BY DEF NoFold
<1>2. /\ a.nodes \in Seq(Ids) /\ a.depths \in [Ids -> 0..Far] /\ a.edges \subseteq q.graph.edges
      /\ a = [nodes |-> a.nodes, edges |-> a.edges, depths |-> a.depths, cap |-> a.cap, horizon |-> a.horizon]
  BY DEF AnswerTyped
<1>3. FoldTyped(a, fo)
  <2>1. fo = [anchors |-> a.nodes, at |-> 0, todo |-> {}, folded |-> {}]
    BY DEF NoFold
  <2>2. fo \in [anchors : Seq(Ids), at : Ids \cup {0}, todo : SUBSET Row, folded : SUBSET Memories]
    <3> DEFINE o == {}
               p == {}
               z == 0
    <3>1. o \in SUBSET Row /\ p \in SUBSET Memories /\ z \in Ids \cup {0} /\ a.nodes \in Seq(Ids)
      BY <1>2
    <3>2. fo = [anchors |-> a.nodes, at |-> z, todo |-> o, folded |-> p]
      BY <2>1
    <3> HIDE DEF o, p, z
    <3>3. [anchors |-> a.nodes, at |-> z, todo |-> o, folded |-> p] \in
              [anchors : Seq(Ids), at : Ids \cup {0}, todo : SUBSET Row, folded : SUBSET Memories]
      BY <3>1, FoldTypes
    <3>. QED BY <3>2, <3>3
  <2>3. Cardinality(fo.folded) <= MaxCross
    BY <1>1, FS_EmptySet, BudgetIsNat
  <2>. QED BY <1>2, <2>2, <2>3 DEF FoldTyped
<1>4. ToSet(a.nodes) \cap Memories = {}
  BY MemoriesAreForeign DEF IsNode
<1>5. \A e \in a.edges : e.kind # "about"
  <2>1. q.graph.edges \subseteq Edge
    BY Asked
  <2>. QED BY <1>2, <2>1 DEF Edge
<1>6. FoldShows(q, pool, a, fo)
  BY <1>1, <1>4, <1>5 DEF FoldShows, CodeIn
<1>7. CodeIn(a) \ ToSet(fo.anchors) = {}
  BY <1>1 DEF CodeIn
<1>8. FoldCloses(q, rows, a, fo) /\ FoldNears(q, rows, pool, a, fo)
  BY <1>1, <1>7 DEF FoldCloses, FoldNears
<1>. QED BY <1>3, <1>6, <1>8 DEF FoldOK

\* The valid rows at x.
RowsAt(q, rows, x) == {r \in Valid(q, rows) : x \in {r.source, r.target}}

\* The next anchor is the nearest left, and its rows are all that is to look at.
LEMMA AnchorKeeps ==
    ASSUME NEW q \in Questions, NEW rows \in SUBSET Row, NEW pool, NEW a, NEW fo, FoldOK(q, rows, pool, a, fo),
           fo.todo = {}, fo.anchors # <<>>, NEW x, x = Head(fo.anchors),
           NEW go, go = [fo EXCEPT !.at = x, !.anchors = Tail(fo.anchors),
                                   !.todo = RowsAt(q, rows, x)]
    PROVE  FoldOK(q, rows, pool, a, go)
<1> DEFINE t == RowsAt(q, rows, x)
<1>1. /\ fo \in [anchors : Seq(Ids), at : Ids \cup {0}, todo : SUBSET Row, folded : SUBSET Memories]
      /\ Cardinality(fo.folded) <= MaxCross
      /\ a = [nodes |-> a.nodes, edges |-> a.edges, depths |-> a.depths, cap |-> a.cap, horizon |-> a.horizon]
      /\ a.nodes \in Seq(Ids) /\ a.depths \in [Ids -> 0..Far]
  BY DEF FoldOK, FoldTyped
<1>2. /\ x \in Ids /\ Tail(fo.anchors) \in Seq(Ids) /\ ToSet(fo.anchors) = {x} \cup ToSet(Tail(fo.anchors))
  BY <1>1, ListRangeTail
<1>3. t \subseteq Row /\ t \subseteq Valid(q, rows)
  BY DEF Valid, RowsAt
<1> HIDE DEF t
<1>4. go.at = x /\ go.anchors = Tail(fo.anchors) /\ go.todo = t /\ go.folded = fo.folded
  BY <1>1 DEF t
<1>5. FoldTyped(a, go)
  <2>1. go \in [anchors : Seq(Ids), at : Ids \cup {0}, todo : SUBSET Row, folded : SUBSET Memories]
    BY <1>1, <1>2, <1>3 DEF t
  <2>. QED BY <1>1, <1>4, <2>1 DEF FoldTyped
<1>6. /\ ToSet(a.nodes) \cap Memories = fo.folded
      /\ \A y \in CodeIn(a) : IsNode(q, y)
      /\ ToSet(fo.anchors) \subseteq CodeIn(a)
      /\ \A e \in a.edges : e.kind = "about" =>
             IsNode(q, e.target) /\ (e.source \in ToSet(a.nodes) \/ e.source \notin pool)
      /\ \A m \in fo.folded : a.depths[m] <= q.depth
  BY DEF FoldOK, FoldShows
<1>7. x \in CodeIn(a) /\ ToSet(Tail(fo.anchors)) \subseteq CodeIn(a)
  BY <1>2, <1>6
<1>8. \A r \in t : r.target = x /\ IsNode(q, r.target)
  <2>1. \A r \in t : r \in Row /\ x \in {r.source, r.target} /\ IsNode(q, r.target)
    BY <1>3 DEF t, RowsAt, Valid
  <2>2. \A r \in Row : r.source \in Memories
    BY DEF Row
  <2>. QED BY <1>7, <2>1, <2>2 DEF CodeIn
<1>9. FoldShows(q, pool, a, go)
  BY <1>4, <1>6, <1>7, <1>8 DEF FoldShows
<1>10. ASSUME NEW r \in Valid(q, rows), r.target \in CodeIn(a) \ ToSet(Tail(fo.anchors)), r \notin t
       PROVE  r.target \in CodeIn(a) \ ToSet(fo.anchors)
  <2>1. r.target # x
    BY <1>10 DEF t, RowsAt
  <2>. QED BY <1>2, <1>10, <2>1
<1>11. FoldCloses(q, rows, a, go)
  <2>1. ~a.cap /\ ~a.horizon =>
            \A r \in Valid(q, rows) : r.target \in CodeIn(a) \ ToSet(fo.anchors) => CoreEdge(r) \in a.edges
    BY DEF FoldOK, FoldCloses
  <2>2. ~a.cap /\ ~a.horizon =>
            \A r \in Valid(q, rows) : r.target \in CodeIn(a) \ ToSet(Tail(fo.anchors)) =>
                r \in t \/ CoreEdge(r) \in a.edges
    BY <1>10, <2>1
  <2>. QED BY <1>4, <2>2 DEF FoldCloses
<1>12. ASSUME Ordered(q)
       PROVE  /\ DepthSorted(q, a, go.anchors)
              /\ go.todo # {} => \A y \in ToSet(go.anchors) : DepthIn(q, a, go.at) <= DepthIn(q, a, y)
              /\ \A r \in Valid(q, rows) : r.target \in CodeIn(a) \ ToSet(go.anchors) =>
                    \/ r \in go.todo \/ r.source \in ToSet(a.nodes) \/ r.source \notin pool
                    \/ DepthIn(q, a, r.target) >= q.depth
                    \/ go.anchors = <<>> /\ go.todo = {}
              /\ \A r \in Valid(q, rows) : r.target \in CodeIn(a) /\ r.source \in go.folded \cap pool =>
                    a.depths[r.source] <= DepthIn(q, a, r.target) + 1
  <2>1. /\ DepthSorted(q, a, fo.anchors)
        /\ \A r \in Valid(q, rows) : r.target \in CodeIn(a) \ ToSet(fo.anchors) =>
              \/ r.source \in ToSet(a.nodes) \/ r.source \notin pool
              \/ DepthIn(q, a, r.target) >= q.depth
        /\ \A r \in Valid(q, rows) : r.target \in CodeIn(a) /\ r.source \in fo.folded \cap pool =>
              a.depths[r.source] <= DepthIn(q, a, r.target) + 1
    BY <1>12 DEF FoldOK, FoldNears
  <2>2. /\ Len(Tail(fo.anchors)) = Len(fo.anchors) - 1 /\ fo.anchors[1] = x /\ Len(fo.anchors) \in Nat \ {0}
        /\ \A i \in 1..Len(Tail(fo.anchors)) : Tail(fo.anchors)[i] = fo.anchors[i + 1]
    BY <1>1, ListRangeTail
  <2>3. \A i, j \in 1..Len(fo.anchors) : i <= j => DepthIn(q, a, fo.anchors[i]) <= DepthIn(q, a, fo.anchors[j])
    BY <2>1 DEF DepthSorted
  <2>4. DepthSorted(q, a, Tail(fo.anchors))
    <3>1. SUFFICES ASSUME NEW i \in 1..Len(Tail(fo.anchors)), NEW j \in 1..Len(Tail(fo.anchors)), i <= j
                   PROVE  DepthIn(q, a, Tail(fo.anchors)[i]) <= DepthIn(q, a, Tail(fo.anchors)[j])
      BY DEF DepthSorted
    <3>2. i + 1 \in 1..Len(fo.anchors) /\ j + 1 \in 1..Len(fo.anchors) /\ i + 1 <= j + 1
      BY <2>2, <3>1
    <3>3. Tail(fo.anchors)[i] = fo.anchors[i + 1] /\ Tail(fo.anchors)[j] = fo.anchors[j + 1]
      BY <2>2
    <3>. QED BY <2>3, <3>2, <3>3
  <2>5. ASSUME NEW y \in ToSet(Tail(fo.anchors)) PROVE DepthIn(q, a, x) <= DepthIn(q, a, y)
    <3>1. PICK i \in 1..Len(Tail(fo.anchors)) : y = Tail(fo.anchors)[i]
      BY <1>2, <2>5, ListRange
    <3>2. y = fo.anchors[i + 1] /\ i + 1 \in 1..Len(fo.anchors) /\ 1 \in 1..Len(fo.anchors) /\ 1 <= i + 1
      BY <2>2, <3>1
    <3>. QED BY <2>2, <2>3, <3>2
  <2>6. \A r \in Valid(q, rows) : r.target \in CodeIn(a) \ ToSet(Tail(fo.anchors)) =>
              \/ r \in t \/ r.source \in ToSet(a.nodes) \/ r.source \notin pool
              \/ DepthIn(q, a, r.target) >= q.depth
    BY <1>10, <2>1
  <2>. QED BY <1>4, <2>1, <2>4, <2>5, <2>6
<1>13. FoldNears(q, rows, pool, a, go)
  BY <1>12 DEF FoldNears
<1>. QED BY <1>5, <1>9, <1>11, <1>13 DEF FoldOK

\* A row past the depth leaves the horizon mark.
LEMMA SkipKeeps ==
    ASSUME NEW q \in Questions, NEW rows \in SUBSET Row, NEW pool, NEW a, NEW fo, FoldOK(q, rows, pool, a, fo),
           NEW r \in fo.todo, DepthIn(q, a, fo.at) >= q.depth,
           NEW b, b = [a EXCEPT !.horizon = TRUE], NEW go, go = [fo EXCEPT !.todo = fo.todo \ {r}]
    PROVE  FoldOK(q, rows, pool, b, go)
<1>1. /\ fo \in [anchors : Seq(Ids), at : Ids \cup {0}, todo : SUBSET Row, folded : SUBSET Memories]
      /\ Cardinality(fo.folded) <= MaxCross
      /\ a = [nodes |-> a.nodes, edges |-> a.edges, depths |-> a.depths, cap |-> a.cap, horizon |-> a.horizon]
      /\ a.nodes \in Seq(Ids) /\ a.depths \in [Ids -> 0..Far]
  BY DEF FoldOK, FoldTyped
<1>2. go.at = fo.at /\ go.anchors = fo.anchors /\ go.todo = fo.todo \ {r} /\ go.folded = fo.folded
  BY <1>1
<1>3. /\ b.nodes = a.nodes /\ b.edges = a.edges /\ b.depths = a.depths /\ b.horizon = TRUE
      /\ b = [nodes |-> b.nodes, edges |-> b.edges, depths |-> b.depths, cap |-> b.cap, horizon |-> b.horizon]
  BY <1>1
<1>4. FoldTyped(b, go)
  <2>1. go \in [anchors : Seq(Ids), at : Ids \cup {0}, todo : SUBSET Row, folded : SUBSET Memories]
    BY <1>1
  <2>. QED BY <1>1, <1>2, <1>3, <2>1 DEF FoldTyped
<1>5. CodeIn(b) = CodeIn(a) /\ \A x : DepthIn(q, b, x) = DepthIn(q, a, x)
  BY <1>3 DEF CodeIn, DepthIn
<1>6. FoldShows(q, pool, b, go)
  BY <1>2, <1>3, <1>5 DEF FoldOK, FoldShows
<1>7. FoldCloses(q, rows, b, go)
  BY <1>3 DEF FoldCloses
<1>8. FoldNears(q, rows, pool, b, go)
  <2>1. SUFFICES ASSUME Ordered(q) PROVE FoldNears(q, rows, pool, b, go)
    BY DEF FoldNears
  <2>2. /\ DepthSorted(q, a, fo.anchors)
        /\ \A x \in ToSet(fo.anchors) : DepthIn(q, a, fo.at) <= DepthIn(q, a, x)
        /\ \A s \in Valid(q, rows) : s.target \in CodeIn(a) \ ToSet(fo.anchors) =>
              \/ s \in fo.todo \/ s.source \in ToSet(a.nodes) \/ s.source \notin pool
              \/ DepthIn(q, a, s.target) >= q.depth
        /\ \A s \in Valid(q, rows) : s.target \in CodeIn(a) /\ s.source \in fo.folded \cap pool =>
              a.depths[s.source] <= DepthIn(q, a, s.target) + 1
    BY <2>1 DEF FoldOK, FoldNears
  <2>3. r.target = fo.at
    BY DEF FoldOK, FoldShows
  <2>4. DepthSorted(q, b, fo.anchors)
    BY <1>5, <2>2 DEF DepthSorted
  <2>5. \A s \in Valid(q, rows) : s.target \in CodeIn(a) \ ToSet(fo.anchors) =>
              \/ s \in fo.todo \ {r} \/ s.source \in ToSet(a.nodes) \/ s.source \notin pool
              \/ DepthIn(q, a, s.target) >= q.depth
    BY <2>2, <2>3
  <2>6. \A x \in ToSet(go.anchors) : DepthIn(q, b, go.at) <= DepthIn(q, b, x)
    BY <1>2, <1>5, <2>2
  <2>7. \A s \in Valid(q, rows) : s.target \in CodeIn(b) \ ToSet(go.anchors) =>
              \/ s \in go.todo \/ s.source \in ToSet(b.nodes) \/ s.source \notin pool
              \/ DepthIn(q, b, s.target) >= q.depth
    <3>1. ASSUME NEW s \in Valid(q, rows), s.target \in CodeIn(b) \ ToSet(go.anchors)
          PROVE  \/ s \in go.todo \/ s.source \in ToSet(b.nodes) \/ s.source \notin pool
                 \/ DepthIn(q, b, s.target) >= q.depth
      <4>1. \/ s \in fo.todo \ {r} \/ s.source \in ToSet(a.nodes) \/ s.source \notin pool
            \/ DepthIn(q, a, s.target) >= q.depth
        BY <1>2, <1>5, <2>5, <3>1
      <4>2. DepthIn(q, b, s.target) = DepthIn(q, a, s.target)
        BY <1>5
      <4>. QED BY <1>2, <1>3, <4>1, <4>2
    <3>. QED BY <3>1
  <2>8. \A s \in Valid(q, rows) : s.target \in CodeIn(b) /\ s.source \in go.folded \cap pool =>
              b.depths[s.source] <= DepthIn(q, b, s.target) + 1
    BY <1>2, <1>3, <1>5, <2>2
  <2>9. DepthSorted(q, b, go.anchors)
    BY <1>2, <2>4
  <2>. QED BY <2>6, <2>7, <2>8, <2>9 DEF FoldNears
<1>. QED BY <1>4, <1>6, <1>7, <1>8 DEF FoldOK

\* The budget leaves the cap mark.
LEMMA StopKeeps ==
    ASSUME NEW q \in Questions, NEW rows \in SUBSET Row, NEW pool, NEW a, NEW fo, FoldOK(q, rows, pool, a, fo),
           NEW b, b = [a EXCEPT !.cap = TRUE], NEW go, go = [fo EXCEPT !.todo = {}, !.anchors = <<>>]
    PROVE  FoldOK(q, rows, pool, b, go)
<1>1. /\ fo \in [anchors : Seq(Ids), at : Ids \cup {0}, todo : SUBSET Row, folded : SUBSET Memories]
      /\ Cardinality(fo.folded) <= MaxCross
      /\ a = [nodes |-> a.nodes, edges |-> a.edges, depths |-> a.depths, cap |-> a.cap, horizon |-> a.horizon]
      /\ a.nodes \in Seq(Ids) /\ a.depths \in [Ids -> 0..Far]
  BY DEF FoldOK, FoldTyped
<1>2. go.at = fo.at /\ go.anchors = <<>> /\ go.todo = {} /\ go.folded = fo.folded
  BY <1>1
<1>3. /\ b.nodes = a.nodes /\ b.edges = a.edges /\ b.depths = a.depths /\ b.cap = TRUE
      /\ b = [nodes |-> b.nodes, edges |-> b.edges, depths |-> b.depths, cap |-> b.cap, horizon |-> b.horizon]
  BY <1>1
<1>4. FoldTyped(b, go)
  <2>1. go \in [anchors : Seq(Ids), at : Ids \cup {0}, todo : SUBSET Row, folded : SUBSET Memories]
    <3> DEFINE o == {}
               e == <<>>
    <3>1. o \in SUBSET Row /\ e \in Seq(Ids) /\ fo.at \in Ids \cup {0} /\ fo.folded \in SUBSET Memories
      BY <1>1
    <3>2. go = [anchors |-> e, at |-> fo.at, todo |-> o, folded |-> fo.folded]
      BY <1>1
    <3> HIDE DEF o, e
    <3>. QED BY <3>1, <3>2, FoldTypes
  <2>. QED BY <1>1, <1>2, <1>3, <2>1 DEF FoldTyped
<1>5. CodeIn(b) = CodeIn(a) /\ \A x : DepthIn(q, b, x) = DepthIn(q, a, x)
  BY <1>3 DEF CodeIn, DepthIn
<1>5a. ToSet(go.anchors) = {}
  BY <1>2, ListRangeEmpty
<1>6. FoldShows(q, pool, b, go)
  BY <1>2, <1>3, <1>5, <1>5a DEF FoldOK, FoldShows
<1>7. FoldCloses(q, rows, b, go)
  BY <1>3 DEF FoldCloses
<1>8. FoldNears(q, rows, pool, b, go)
  <2>1. SUFFICES ASSUME Ordered(q) PROVE FoldNears(q, rows, pool, b, go)
    BY DEF FoldNears
  <2>2. \A s \in Valid(q, rows) : s.target \in CodeIn(a) /\ s.source \in fo.folded \cap pool =>
              a.depths[s.source] <= DepthIn(q, a, s.target) + 1
    BY <2>1 DEF FoldOK, FoldNears
  <2>3. DepthSorted(q, b, go.anchors)
    BY <1>2 DEF DepthSorted
  <2>. QED BY <1>2, <1>3, <1>5, <2>2, <2>3 DEF FoldNears
<1>. QED BY <1>4, <1>6, <1>7, <1>8 DEF FoldOK

\* A row whose memory is shown already, or is gone, only adds its edge.
LEMMA RowEdgeKeeps ==
    ASSUME NEW q \in Questions, NEW rows \in SUBSET Row, NEW pool, NEW a, NEW fo, FoldOK(q, rows, pool, a, fo),
           NEW r \in fo.todo, r.source \in ToSet(a.nodes) \/ r.source \notin pool,
           NEW b, b = [a EXCEPT !.edges = a.edges \cup {CoreEdge(r)}],
           NEW go, go = [fo EXCEPT !.todo = fo.todo \ {r}]
    PROVE  FoldOK(q, rows, pool, b, go)
<1>1. /\ fo \in [anchors : Seq(Ids), at : Ids \cup {0}, todo : SUBSET Row, folded : SUBSET Memories]
      /\ Cardinality(fo.folded) <= MaxCross
      /\ a = [nodes |-> a.nodes, edges |-> a.edges, depths |-> a.depths, cap |-> a.cap, horizon |-> a.horizon]
      /\ a.nodes \in Seq(Ids) /\ a.depths \in [Ids -> 0..Far]
  BY DEF FoldOK, FoldTyped
<1>2. go.at = fo.at /\ go.anchors = fo.anchors /\ go.todo = fo.todo \ {r} /\ go.folded = fo.folded
  BY <1>1
<1>3. /\ b.nodes = a.nodes /\ b.edges = a.edges \cup {CoreEdge(r)} /\ b.depths = a.depths
      /\ b.cap = a.cap /\ b.horizon = a.horizon
      /\ b = [nodes |-> b.nodes, edges |-> b.edges, depths |-> b.depths, cap |-> b.cap, horizon |-> b.horizon]
  BY <1>1
<1>4. FoldTyped(b, go)
  <2>1. go \in [anchors : Seq(Ids), at : Ids \cup {0}, todo : SUBSET Row, folded : SUBSET Memories]
    BY <1>1
  <2>. QED BY <1>1, <1>2, <1>3, <2>1 DEF FoldTyped
<1>5. CodeIn(b) = CodeIn(a) /\ \A x : DepthIn(q, b, x) = DepthIn(q, a, x)
  BY <1>3 DEF CodeIn, DepthIn
<1>6. /\ ToSet(a.nodes) \cap Memories = fo.folded
      /\ \A x \in CodeIn(a) : IsNode(q, x)
      /\ ToSet(fo.anchors) \subseteq CodeIn(a)
      /\ \A s \in fo.todo : s.target = fo.at /\ IsNode(q, s.target)
      /\ fo.todo # {} => fo.at \in CodeIn(a)
      /\ \A e \in a.edges : e.kind = "about" =>
             IsNode(q, e.target) /\ (e.source \in ToSet(a.nodes) \/ e.source \notin pool)
      /\ \A m \in fo.folded : a.depths[m] <= q.depth
  BY DEF FoldOK, FoldShows
<1>7. FoldShows(q, pool, b, go)
  <2>1. \A e \in b.edges : e.kind = "about" =>
             IsNode(q, e.target) /\ (e.source \in ToSet(b.nodes) \/ e.source \notin pool)
    <3>1. CoreEdge(r).source = r.source /\ CoreEdge(r).target = r.target
      BY DEF CoreEdge
    <3>. QED BY <1>3, <1>6, <3>1
  <2>. QED BY <1>2, <1>3, <1>5, <1>6, <2>1 DEF FoldShows
<1>8. FoldCloses(q, rows, b, go)
  <2>1. ~a.cap /\ ~a.horizon =>
            \A s \in Valid(q, rows) : s.target \in CodeIn(a) \ ToSet(fo.anchors) =>
                s \in fo.todo \/ CoreEdge(s) \in a.edges
    BY DEF FoldOK, FoldCloses
  <2>. QED BY <1>2, <1>3, <1>5, <2>1 DEF FoldCloses
<1>9. FoldNears(q, rows, pool, b, go)
  <2>1. SUFFICES ASSUME Ordered(q) PROVE FoldNears(q, rows, pool, b, go)
    BY DEF FoldNears
  <2>2. /\ DepthSorted(q, a, fo.anchors)
        /\ \A x \in ToSet(fo.anchors) : DepthIn(q, a, fo.at) <= DepthIn(q, a, x)
        /\ \A s \in Valid(q, rows) : s.target \in CodeIn(a) \ ToSet(fo.anchors) =>
              \/ s \in fo.todo \/ s.source \in ToSet(a.nodes) \/ s.source \notin pool
              \/ DepthIn(q, a, s.target) >= q.depth
        /\ \A s \in Valid(q, rows) : s.target \in CodeIn(a) /\ s.source \in fo.folded \cap pool =>
              a.depths[s.source] <= DepthIn(q, a, s.target) + 1
    BY <2>1 DEF FoldOK, FoldNears
  <2>3. DepthSorted(q, b, go.anchors)
    <3>1. DepthSorted(q, b, fo.anchors)
      BY <1>5, <2>2 DEF DepthSorted
    <3>. QED BY <1>2, <3>1
  <2>4. \A x \in ToSet(go.anchors) : DepthIn(q, b, go.at) <= DepthIn(q, b, x)
    BY <1>2, <1>5, <2>2
  <2>5. ASSUME NEW s \in Valid(q, rows), s.target \in CodeIn(b) \ ToSet(go.anchors)
        PROVE  \/ s \in go.todo \/ s.source \in ToSet(b.nodes) \/ s.source \notin pool
               \/ DepthIn(q, b, s.target) >= q.depth
    <3>1. \/ s \in fo.todo \/ s.source \in ToSet(a.nodes) \/ s.source \notin pool
          \/ DepthIn(q, a, s.target) >= q.depth
      BY <1>2, <1>5, <2>2, <2>5
    <3>2. s = r => s.source \in ToSet(a.nodes) \/ s.source \notin pool
      OBVIOUS
    <3>3. DepthIn(q, b, s.target) = DepthIn(q, a, s.target)
      BY <1>5
    <3>. QED BY <1>2, <1>3, <3>1, <3>2, <3>3
  <2>6. \A s \in Valid(q, rows) : s.target \in CodeIn(b) /\ s.source \in go.folded \cap pool =>
              b.depths[s.source] <= DepthIn(q, b, s.target) + 1
    BY <1>2, <1>3, <1>5, <2>2
  <2>. QED BY <2>3, <2>4, <2>5, <2>6 DEF FoldNears
<1>. QED BY <1>4, <1>7, <1>8, <1>9 DEF FoldOK

\* A row's memory and its edge are added to an answer, the row's code being d hops away.
WithMemory(a, r, d) ==
    [a EXCEPT !.edges = a.edges \cup {CoreEdge(r)}, !.nodes = Append(a.nodes, r.source),
              !.depths[r.source] = Smaller(a.depths[r.source], d + 1)]

\* A row that brings its memory.
LEMMA MemoryKeeps ==
    ASSUME NEW q \in Questions, NEW rows \in SUBSET Row, NEW pool \in SUBSET Memories, NEW a, NEW fo,
           FoldOK(q, rows, pool, a, fo),
           NEW r \in fo.todo, r.source \in pool, r.source \notin ToSet(a.nodes),
           DepthIn(q, a, fo.at) < q.depth, Cardinality(fo.folded) < MaxCross,
           NEW b, b = WithMemory(a, r, DepthIn(q, a, fo.at)),
           NEW go, go = [fo EXCEPT !.todo = fo.todo \ {r}, !.folded = fo.folded \cup {r.source}]
    PROVE  FoldOK(q, rows, pool, b, go)
<1> DEFINE m == r.source
           c == Smaller(a.depths[m], DepthIn(q, a, fo.at) + 1)
<1>1. /\ fo \in [anchors : Seq(Ids), at : Ids \cup {0}, todo : SUBSET Row, folded : SUBSET Memories]
      /\ Cardinality(fo.folded) <= MaxCross
      /\ a = [nodes |-> a.nodes, edges |-> a.edges, depths |-> a.depths, cap |-> a.cap, horizon |-> a.horizon]
      /\ a.nodes \in Seq(Ids) /\ a.depths \in [Ids -> 0..Far]
  BY DEF FoldOK, FoldTyped
<1>2. go.at = fo.at /\ go.anchors = fo.anchors /\ go.todo = fo.todo \ {r} /\ go.folded = fo.folded \cup {m}
  BY <1>1
<1>3. /\ b.nodes = Append(a.nodes, m) /\ b.edges = a.edges \cup {CoreEdge(r)}
      /\ b.depths = [a.depths EXCEPT ![m] = c]
      /\ b.cap = a.cap /\ b.horizon = a.horizon
      /\ b = [nodes |-> b.nodes, edges |-> b.edges, depths |-> b.depths, cap |-> b.cap, horizon |-> b.horizon]
  BY <1>1 DEF WithMemory
<1>4. m \in Memories /\ m \in Ids /\ m \notin ToSet(a.nodes)
  BY MemoriesAreForeign
<1>5. /\ ToSet(a.nodes) \cap Memories = fo.folded
      /\ \A x \in CodeIn(a) : IsNode(q, x)
      /\ ToSet(fo.anchors) \subseteq CodeIn(a)
      /\ \A s \in fo.todo : s.target = fo.at /\ IsNode(q, s.target)
      /\ fo.at \in CodeIn(a)
      /\ \A e \in a.edges : e.kind = "about" =>
             IsNode(q, e.target) /\ (e.source \in ToSet(a.nodes) \/ e.source \notin pool)
      /\ \A x \in fo.folded : a.depths[x] <= q.depth
  BY DEF FoldOK, FoldShows
<1>6. ToSet(b.nodes) = ToSet(a.nodes) \cup {m} /\ b.nodes \in Seq(Ids) /\ CodeIn(b) = CodeIn(a)
  <2>1. ToSet(Append(a.nodes, m)) = ToSet(a.nodes) \cup {m} /\ Append(a.nodes, m) \in Seq(Ids)
    BY <1>1, <1>4, ListRangeAppend
  <2>. QED BY <1>3, <1>4, <2>1 DEF CodeIn
<1>7. /\ q.depth \in Nat /\ Far \in Nat /\ \A x \in CodeIn(a) : x \in Ids /\ DepthIn(q, a, x) \in Nat
  <2>1. q.depth \in Nat /\ Far \in Nat
    BY Asked, IdsAreCounted
  <2>2. ToSet(a.nodes) \subseteq Ids
    BY <1>1, ListRange
  <2>3. \A x \in Ids : a.depths[x] \in Nat
    BY <1>1, <2>1
  <2>. QED BY <2>1, <2>2, <2>3 DEF CodeIn, DepthIn
<1>8. /\ c \in 0..Far /\ c <= DepthIn(q, a, fo.at) + 1
  <2>1. DepthIn(q, a, fo.at) \in Nat /\ a.depths[m] \in 0..Far
    BY <1>1, <1>4, <1>5, <1>7
  <2>. QED BY <1>7, <2>1 DEF Smaller
<1> HIDE DEF c
<1>9. b.depths \in [Ids -> 0..Far] /\ b.depths[m] = c /\ \A x \in Ids : x # m => b.depths[x] = a.depths[x]
  BY <1>1, <1>3, <1>4, <1>8
<1>10. \A x \in CodeIn(a) : DepthIn(q, b, x) = DepthIn(q, a, x)
  <2>1. \A x \in CodeIn(a) : x # m /\ x \in Ids
    BY <1>4, <1>7 DEF CodeIn
  <2>. QED BY <1>9, <2>1 DEF DepthIn
<1>11. FoldTyped(b, go)
  <2>1. go \in [anchors : Seq(Ids), at : Ids \cup {0}, todo : SUBSET Row, folded : SUBSET Memories]
    BY <1>1, <1>4
  <2>2. Cardinality(fo.folded \cup {m}) <= MaxCross
    <3>1. IsFiniteSet(fo.folded) /\ Cardinality(fo.folded) \in Nat
      BY <1>1, MemoriesAreFew
    <3>2. m \notin fo.folded
      BY <1>4, <1>5
    <3>3. Cardinality(fo.folded \cup {m}) = Cardinality(fo.folded) + 1
      BY <3>1, <3>2, FS_AddElement
    <3>. QED BY <3>1, <3>3, BudgetIsNat
  <2>. QED BY <1>2, <1>3, <1>6, <1>9, <2>1, <2>2 DEF FoldTyped
<1>12. FoldShows(q, pool, b, go)
  <2>1. \A e \in b.edges : e.kind = "about" =>
             IsNode(q, e.target) /\ (e.source \in ToSet(b.nodes) \/ e.source \notin pool)
    <3>1. CoreEdge(r).source = m /\ CoreEdge(r).target = r.target
      BY DEF CoreEdge
    <3>. QED BY <1>3, <1>5, <1>6, <3>1
  <2>2. \A x \in go.folded : b.depths[x] <= q.depth
    <3>1. \A x \in fo.folded : x \in Ids /\ x # m
      BY <1>1, <1>4, <1>5, MemoriesAreForeign
    <3>2. c <= q.depth
      <4>1. DepthIn(q, a, fo.at) \in Nat /\ c \in Nat
        BY <1>5, <1>7, <1>8
      <4>. QED BY <1>7, <1>8, <4>1
    <3>. QED BY <1>2, <1>5, <1>9, <3>1, <3>2
  <2>3. ToSet(b.nodes) \cap Memories = go.folded
    BY <1>2, <1>4, <1>5, <1>6
  <2>. QED BY <1>2, <1>5, <1>6, <2>1, <2>2, <2>3 DEF FoldShows
<1>13. FoldCloses(q, rows, b, go)
  <2>1. ~a.cap /\ ~a.horizon =>
            \A s \in Valid(q, rows) : s.target \in CodeIn(a) \ ToSet(fo.anchors) =>
                s \in fo.todo \/ CoreEdge(s) \in a.edges
    BY DEF FoldOK, FoldCloses
  <2>. QED BY <1>2, <1>3, <1>6, <2>1 DEF FoldCloses
<1>14. FoldNears(q, rows, pool, b, go)
  <2>1. SUFFICES ASSUME Ordered(q) PROVE FoldNears(q, rows, pool, b, go)
    BY DEF FoldNears
  <2>2. /\ DepthSorted(q, a, fo.anchors)
        /\ \A x \in ToSet(fo.anchors) : DepthIn(q, a, fo.at) <= DepthIn(q, a, x)
        /\ \A s \in Valid(q, rows) : s.target \in CodeIn(a) \ ToSet(fo.anchors) =>
              \/ s \in fo.todo \/ s.source \in ToSet(a.nodes) \/ s.source \notin pool
              \/ DepthIn(q, a, s.target) >= q.depth
        /\ \A s \in Valid(q, rows) : s.target \in CodeIn(a) /\ s.source \in fo.folded \cap pool =>
              a.depths[s.source] <= DepthIn(q, a, s.target) + 1
    BY <2>1 DEF FoldOK, FoldNears
  <2>3. DepthSorted(q, b, go.anchors)
    <3>1. \A i \in 1..Len(fo.anchors) : DepthIn(q, b, fo.anchors[i]) = DepthIn(q, a, fo.anchors[i])
      <4>1. \A i \in 1..Len(fo.anchors) : fo.anchors[i] \in ToSet(fo.anchors)
        BY <1>1, ListRange
      <4>. QED BY <1>5, <1>10, <4>1
    <3>. QED BY <1>2, <2>2, <3>1 DEF DepthSorted
  <2>4. \A x \in ToSet(go.anchors) : DepthIn(q, b, go.at) <= DepthIn(q, b, x)
    BY <1>2, <1>5, <1>10, <2>2
  <2>5. ASSUME NEW s \in Valid(q, rows), s.target \in CodeIn(b) \ ToSet(go.anchors)
        PROVE  \/ s \in go.todo \/ s.source \in ToSet(b.nodes) \/ s.source \notin pool
               \/ DepthIn(q, b, s.target) >= q.depth
    <3>1. \/ s \in fo.todo \/ s.source \in ToSet(a.nodes) \/ s.source \notin pool
          \/ DepthIn(q, a, s.target) >= q.depth
      BY <1>2, <1>6, <2>2, <2>5
    <3>2. s = r => s.source \in ToSet(b.nodes)
      BY <1>6
    <3>3. DepthIn(q, b, s.target) = DepthIn(q, a, s.target)
      BY <1>6, <1>10, <2>5
    <3>. QED BY <1>2, <1>6, <3>1, <3>2, <3>3
  <2>6. ASSUME NEW s \in Valid(q, rows), s.target \in CodeIn(b), s.source \in go.folded \cap pool
        PROVE  b.depths[s.source] <= DepthIn(q, b, s.target) + 1
    <3>1. DepthIn(q, b, s.target) = DepthIn(q, a, s.target) /\ s.target \in CodeIn(a)
      BY <1>6, <1>10, <2>6
    <3>2. CASE s.source = m
      <4>1. \/ s.target \in ToSet(fo.anchors) \/ s \in fo.todo
            \/ DepthIn(q, a, s.target) >= q.depth
        BY <1>4, <2>2, <3>1, <3>2
      <4>2. DepthIn(q, a, fo.at) \in Nat /\ DepthIn(q, a, s.target) \in Nat /\ c \in Nat /\ q.depth \in Nat
        BY <1>5, <1>7, <1>8, <3>1
      <4>3. DepthIn(q, a, fo.at) <= DepthIn(q, a, s.target)
        BY <1>5, <2>2, <4>1, <4>2
      <4>. QED BY <1>8, <1>9, <3>1, <3>2, <4>2, <4>3
    <3>3. CASE s.source # m
      <4>1. s.source \in fo.folded /\ s.source \in Ids
        BY <1>1, <1>2, <2>6, <3>3, MemoriesAreForeign
      <4>2. a.depths[s.source] <= DepthIn(q, a, s.target) + 1
        BY <2>2, <2>6, <3>1, <4>1
      <4>. QED BY <1>9, <3>1, <3>3, <4>1, <4>2
    <3>. QED BY <3>2, <3>3
  <2>. QED BY <2>3, <2>4, <2>5, <2>6 DEF FoldNears
<1>. QED BY <1>11, <1>12, <1>13, <1>14 DEF FoldOK

\* The second hop is looked at before the answer is given.
LEMMA EndKeeps ==
    ASSUME NEW q \in Questions, NEW rows \in SUBSET Row, NEW pool, NEW a, NEW fo, FoldOK(q, rows, pool, a, fo),
           fo.todo = {}, fo.anchors = <<>>, NEW hop \in BOOLEAN,
           ~hop => \A r \in Valid(q, rows) : r.source \in fo.folded => r.target \in ToSet(a.nodes),
           NEW b, b = [a EXCEPT !.horizon = a.horizon \/ hop]
    PROVE  FoldOK(q, rows, pool, b, fo) /\ FoldEnds(q, rows, b, fo)
<1>1. /\ a = [nodes |-> a.nodes, edges |-> a.edges, depths |-> a.depths, cap |-> a.cap, horizon |-> a.horizon]
  BY DEF FoldOK, FoldTyped
<1>2. /\ b.nodes = a.nodes /\ b.edges = a.edges /\ b.depths = a.depths /\ b.cap = a.cap
      /\ b.horizon = (a.horizon \/ hop)
      /\ b = [nodes |-> b.nodes, edges |-> b.edges, depths |-> b.depths, cap |-> b.cap, horizon |-> b.horizon]
  BY <1>1
<1>3. ~b.horizon => ~a.horizon /\ ~hop
  BY <1>2
<1>4. CodeIn(b) = CodeIn(a) /\ \A x : DepthIn(q, b, x) = DepthIn(q, a, x)
  BY <1>2 DEF CodeIn, DepthIn
<1>5. FoldTyped(b, fo)
  BY <1>2 DEF FoldOK, FoldTyped
<1>6. FoldShows(q, pool, b, fo)
  BY <1>2, <1>4 DEF FoldOK, FoldShows
<1>7. FoldCloses(q, rows, b, fo)
  BY <1>2, <1>3, <1>4 DEF FoldOK, FoldCloses
<1>8. FoldNears(q, rows, pool, b, fo)
  <2>1. DepthSorted(q, a, fo.anchors) => DepthSorted(q, b, fo.anchors)
    BY <1>4 DEF DepthSorted
  <2>2. SUFFICES ASSUME Ordered(q) PROVE FoldNears(q, rows, pool, b, fo)
    BY DEF FoldNears
  <2>3. /\ DepthSorted(q, a, fo.anchors)
        /\ \A s \in Valid(q, rows) : s.target \in CodeIn(a) /\ s.source \in fo.folded \cap pool =>
              a.depths[s.source] <= DepthIn(q, a, s.target) + 1
    BY <2>2 DEF FoldOK, FoldNears
  <2>. QED BY <1>2, <1>4, <2>1, <2>3 DEF FoldNears
<1>9. FoldEnds(q, rows, b, fo)
  BY <1>2, <1>3 DEF FoldEnds
<1>. QED BY <1>5, <1>6, <1>7, <1>8, <1>9 DEF FoldOK

\* Erasing only takes rows and memories away.
LEMMA ErasureKeeps ==
    ASSUME NEW q \in Questions, NEW rows \in SUBSET Row, NEW pool, NEW a, NEW fo, FoldOK(q, rows, pool, a, fo),
           NEW fewer \in SUBSET rows, NEW rest \in SUBSET pool
    PROVE  /\ FoldOK(q, fewer, rest, a, fo)
           /\ FoldEnds(q, rows, a, fo) => FoldEnds(q, fewer, a, fo)
<1>1. Valid(q, fewer) \subseteq Valid(q, rows)
  BY DEF Valid
<1>2. FoldShows(q, rest, a, fo)
  BY DEF FoldOK, FoldShows
<1>3. FoldCloses(q, fewer, a, fo)
  BY <1>1 DEF FoldOK, FoldCloses
<1>4. FoldNears(q, fewer, rest, a, fo)
  BY <1>1 DEF FoldOK, FoldNears
<1>5. FoldEnds(q, rows, a, fo) => FoldEnds(q, fewer, a, fo)
  BY <1>1 DEF FoldEnds
<1>. QED BY <1>2, <1>3, <1>4, <1>5 DEF FoldOK

\* Once the ply has begun only the ply's own invariant has anything to say.
LEMMA OnlyTheFold ==
    ASSUME AskInv, ask.use = "recall", ask' = ask, pc' \in {"anchors", "done"}
    PROVE  AskInv' /\ WalkInv' /\ AnsweredInv' /\ WalksAreHonest' /\ BlastIsHonest'
<1>1. AskInv' /\ WalkInv' /\ AnsweredInv'
  BY DEF AskInv, WalkInv, AnsweredInv
<1>2. WalksAreHonest' /\ BlastIsHonest'
  BY DEF WalksAreHonest, BlastIsHonest
<1>. QED BY <1>1, <1>2

\* The names of the model for what the invariant says of an answer.
LEMMA FoldWords ==
    /\ Shown = ToSet(sub.nodes)
    /\ \A x : DepthOf(x) = DepthIn(ask, sub, x)
    /\ \A x : CrossRows(x) = RowsAt(ask, xedges, x)
<1>1. \A x : CrossRows(x) = RowsAt(ask, xedges, x)
  BY DEF CrossRows, RowsAt, Valid, EpochValid, HasNode, IsNode
<1>. QED BY <1>1 DEF Shown, DepthOf, DepthIn

LEMMA StartFoldStep ==
    ASSUME AskInv, AnsweredInv, FoldInv, StartFold
    PROVE  FoldInv' /\ ask.use = "recall" /\ ask' = ask /\ pc' \in {"anchors", "done"}
<1>1. /\ ask \in Questions /\ ask.use = "recall" /\ ask' = ask /\ pc' = "anchors" /\ sub' = sub
      /\ xedges' = xedges /\ live' = live /\ xedges \subseteq Row /\ live \subseteq Memories
      /\ fold' = [NoFold EXCEPT !.anchors = sub.nodes]
  BY DEF AskInv, FoldInv, StartFold
<1>2. /\ AnswerTyped(ask, sub) /\ \A x \in ToSet(sub.nodes) : IsNode(ask, x)
      /\ Ordered(ask) => DepthSorted(ask, sub, sub.nodes)
  BY DEF AnsweredInv, StartFold
<1>3. FoldOK(ask, xedges, live, sub, fold')
  BY <1>1, <1>2, FoldStarts
<1>. QED BY <1>1, <1>3 DEF FoldInv

\* What the invariant gives a step of the ply.
LEMMA FoldUnderWay ==
    ASSUME AskInv, FoldInv, pc = "anchors"
    PROVE  /\ ask \in Questions /\ ask.use = "recall" /\ xedges \in SUBSET Row
           /\ live \in SUBSET Memories /\ FoldOK(ask, xedges, live, sub, fold)
  BY DEF AskInv, FoldInv

LEMMA NextAnchorStep ==
    ASSUME AskInv, FoldInv, NextAnchor
    PROVE  FoldInv' /\ ask.use = "recall" /\ ask' = ask /\ pc' \in {"anchors", "done"}
<1>1. /\ ask' = ask /\ pc = "anchors" /\ pc' = pc /\ sub' = sub /\ xedges' = xedges /\ live' = live
      /\ fold.todo = {} /\ fold.anchors # <<>>
      /\ fold' = [fold EXCEPT !.at = Head(fold.anchors), !.anchors = Tail(fold.anchors),
                              !.todo = CrossRows(Head(fold.anchors))]
  BY DEF NextAnchor
<1>2. /\ ask \in Questions /\ ask.use = "recall" /\ xedges \in SUBSET Row
      /\ live \in SUBSET Memories /\ FoldOK(ask, xedges, live, sub, fold)
  BY <1>1, FoldUnderWay
<1>3. FoldOK(ask, xedges, live, sub, fold')
  <2> DEFINE x == Head(fold.anchors)
  <2>1. fold' = [fold EXCEPT !.at = x, !.anchors = Tail(fold.anchors),
                             !.todo = RowsAt(ask, xedges, x)]
    BY <1>1, FoldWords
  <2>2. x = Head(fold.anchors)
    OBVIOUS
  <2> HIDE DEF x
  <2>. QED BY <1>1, <1>2, <2>1, <2>2, AnchorKeeps
<1>. QED BY <1>1, <1>2, <1>3 DEF FoldInv

LEMMA SkipRowStep ==
    ASSUME AskInv, FoldInv, NEW r \in fold.todo, SkipRow(r)
    PROVE  FoldInv' /\ ask.use = "recall" /\ ask' = ask /\ pc' \in {"anchors", "done"}
<1>1. /\ ask' = ask /\ pc = "anchors" /\ pc' = pc /\ xedges' = xedges /\ live' = live
      /\ sub' = [sub EXCEPT !.horizon = TRUE]
      /\ fold' = [fold EXCEPT !.todo = fold.todo \ {r}]
      /\ DepthOf(fold.at) >= ask.depth
  BY DEF SkipRow, FoldingRow, PastHorizon
<1>2. /\ ask \in Questions /\ ask.use = "recall" /\ xedges \in SUBSET Row
      /\ live \in SUBSET Memories /\ FoldOK(ask, xedges, live, sub, fold)
  BY <1>1, FoldUnderWay
<1>3. DepthIn(ask, sub, fold.at) >= ask.depth
  BY <1>1, FoldWords
<1>4. FoldOK(ask, xedges, live, sub', fold')
  BY <1>1, <1>2, <1>3, SkipKeeps
<1>. QED BY <1>1, <1>2, <1>4 DEF FoldInv

LEMMA StopAtBudgetStep ==
    ASSUME AskInv, FoldInv, NEW r \in fold.todo, StopAtBudget(r)
    PROVE  FoldInv' /\ ask.use = "recall" /\ ask' = ask /\ pc' \in {"anchors", "done"}
<1>1. /\ ask' = ask /\ pc = "anchors" /\ pc' = pc /\ xedges' = xedges /\ live' = live
      /\ sub' = [sub EXCEPT !.cap = TRUE]
      /\ fold' = [fold EXCEPT !.todo = {}, !.anchors = <<>>]
  BY DEF StopAtBudget, FoldingRow
<1>2. /\ ask \in Questions /\ ask.use = "recall" /\ xedges \in SUBSET Row
      /\ live \in SUBSET Memories /\ FoldOK(ask, xedges, live, sub, fold)
  BY <1>1, FoldUnderWay
<1>3. FoldOK(ask, xedges, live, sub', fold')
  BY <1>1, <1>2, StopKeeps
<1>. QED BY <1>1, <1>2, <1>3 DEF FoldInv

LEMMA FoldRowStep ==
    ASSUME AskInv, FoldInv, NEW r \in fold.todo, FoldRow(r)
    PROVE  FoldInv' /\ ask.use = "recall" /\ ask' = ask /\ pc' \in {"anchors", "done"}
<1> DEFINE S  == ToSet(sub.nodes)
           go == [fold EXCEPT !.todo = fold.todo \ {r}]
<1>1. ask' = ask /\ pc = "anchors" /\ pc' = pc /\ xedges' = xedges /\ live' = live
  BY DEF FoldRow, FoldingRow
<1>2. /\ ask \in Questions /\ ask.use = "recall" /\ xedges \in SUBSET Row
      /\ live \in SUBSET Memories /\ FoldOK(ask, xedges, live, sub, fold)
  BY <1>1, FoldUnderWay
<1>3. /\ fold \in [anchors : Seq(Ids), at : Ids \cup {0}, todo : SUBSET Row, folded : SUBSET Memories]
      /\ sub = [nodes |-> sub.nodes, edges |-> sub.edges, depths |-> sub.depths, cap |-> sub.cap,
                horizon |-> sub.horizon]
  BY <1>2 DEF FoldOK, FoldTyped
<1>4. CoreEdge(r) \in sub.edges => r.source \in S \/ r.source \notin live
  <2>1. \A e \in sub.edges : e.kind = "about" => e.source \in S \/ e.source \notin live
    BY <1>2 DEF FoldOK, FoldShows
  <2>. QED BY <2>1 DEF CoreEdge
<1>5. CASE r.source \in live /\ r.source \notin S
  <2>1. CoreEdge(r) \notin sub.edges
    BY <1>4, <1>5
  <2>2. /\ sub' = WithMemory(sub, r, DepthIn(ask, sub, fold.at))
        /\ fold' = [fold EXCEPT !.todo = fold.todo \ {r}, !.folded = fold.folded \cup {r.source}]
    BY <1>5, <2>1, FoldWords DEF FoldRow, WithMemory
  <2>3. DepthIn(ask, sub, fold.at) < ask.depth
    <3>1. ~(DepthIn(ask, sub, fold.at) >= ask.depth)
      BY <1>5, FoldWords DEF FoldRow, PastHorizon
    <3>2. fold.at \in CodeIn(sub) /\ sub.nodes \in Seq(Ids) /\ sub.depths \in [Ids -> 0..Far]
      BY <1>2 DEF FoldOK, FoldShows, FoldTyped
    <3>3. fold.at \in Ids
      BY <3>2, ListRange DEF CodeIn
    <3>4. DepthIn(ask, sub, fold.at) \in Nat /\ ask.depth \in Nat
      BY <1>2, <3>2, <3>3, IdsAreCounted, Asked DEF DepthIn
    <3>. QED BY <3>1, <3>4
  <2>4. Cardinality(fold.folded) < MaxCross
    <3>1. ~(Cardinality(fold.folded) >= MaxCross)
      BY <1>5, FoldWords DEF FoldRow, OverBudget
    <3>2. Cardinality(fold.folded) \in Nat
      BY <1>3, MemoriesAreFew
    <3>. QED BY <3>1, <3>2, BudgetIsNat
  <2>5. FoldOK(ask, xedges, live, sub', fold')
    BY <1>2, <1>5, <2>2, <2>3, <2>4, MemoryKeeps
  <2>. QED BY <1>1, <1>2, <2>5 DEF FoldInv
<1>6. CASE r.source \in S \/ r.source \notin live
  <2>1. sub' = [sub EXCEPT !.edges = sub.edges \cup {CoreEdge(r)}]
    <3>1. sub' = IF CoreEdge(r) \in sub.edges THEN sub
                 ELSE [sub EXCEPT !.edges = sub.edges \cup {CoreEdge(r)}]
      BY <1>6, FoldWords DEF FoldRow
    <3>2. CoreEdge(r) \in sub.edges => sub.edges \cup {CoreEdge(r)} = sub.edges
      OBVIOUS
    <3>. QED BY <1>3, <3>1, <3>2
  <2>2. fold' = go
    <3>1. fold' = [fold EXCEPT !.todo = fold.todo \ {r}, !.folded = fold.folded]
      BY <1>6, FoldWords DEF FoldRow
    <3>. QED BY <1>3, <3>1
  <2>3. FoldOK(ask, xedges, live, sub', fold')
    BY <1>2, <1>6, <2>1, <2>2, RowEdgeKeeps
  <2>. QED BY <1>1, <1>2, <2>3 DEF FoldInv
<1>. QED BY <1>5, <1>6

LEMMA EndFoldStep ==
    ASSUME AskInv, FoldInv, EndFold
    PROVE  FoldInv' /\ ask.use = "recall" /\ ask' = ask /\ pc' \in {"anchors", "done"}
<1> DEFINE hop == \E m \in fold.folded : \E r \in Valid(ask, xedges) :
                      m \in {r.source, r.target} /\ r.target \notin ToSet(sub.nodes)
<1>1. /\ ask' = ask /\ pc = "anchors" /\ pc' = "done" /\ xedges' = xedges /\ live' = live /\ fold' = fold
      /\ fold.todo = {} /\ fold.anchors = <<>>
  BY DEF EndFold
<1>2. sub' = [sub EXCEPT !.horizon = sub.horizon \/ hop]
  <2>1. HopCut = hop
    BY FoldWords DEF HopCut, RowsAt
  <2>2. sub' = [sub EXCEPT !.horizon = sub.horizon \/ HopCut]
    BY DEF EndFold
  <2> HIDE DEF hop
  <2>. QED BY <2>1, <2>2
<1>3. /\ ask \in Questions /\ ask.use = "recall" /\ xedges \in SUBSET Row
      /\ live \in SUBSET Memories /\ FoldOK(ask, xedges, live, sub, fold)
  BY <1>1, FoldUnderWay
<1>4. ~hop => \A r \in Valid(ask, xedges) : r.source \in fold.folded => r.target \in ToSet(sub.nodes)
  OBVIOUS
<1>5. hop \in BOOLEAN
  OBVIOUS
<1> HIDE DEF hop
<1>6. FoldOK(ask, xedges, live, sub', fold) /\ FoldEnds(ask, xedges, sub', fold)
  BY <1>1, <1>2, <1>3, <1>4, <1>5, EndKeeps
<1>. QED BY <1>1, <1>3, <1>6 DEF FoldInv

LEMMA ErasureStep ==
    ASSUME AskInv, FoldInv, UNCHANGED <<walkVars, fold>>, xedges' \subseteq xedges, live' \subseteq live
    PROVE  FoldInv'
<1>1. /\ ask \in Questions /\ ask' = ask /\ pc' = pc /\ sub' = sub /\ fold' = fold
      /\ xedges \in SUBSET Row /\ xedges' \in SUBSET xedges /\ live' \in SUBSET live
      /\ xedges' \subseteq Row /\ live' \subseteq Memories
  BY DEF AskInv, FoldInv, walkVars
<1>2. ASSUME pc \in {"anchors", "done"}, ask.use = "recall"
      PROVE  /\ FoldOK(ask, xedges', live', sub, fold)
             /\ pc = "done" => FoldEnds(ask, xedges', sub, fold)
  <2>1. FoldOK(ask, xedges, live, sub, fold) /\ (pc = "done" => FoldEnds(ask, xedges, sub, fold))
    BY <1>2 DEF FoldInv
  <2>2. /\ FoldOK(ask, xedges', live', sub, fold)
        /\ FoldEnds(ask, xedges, sub, fold) => FoldEnds(ask, xedges', sub, fold)
    BY <1>1, <2>1, ErasureKeeps
  <2>. QED BY <2>1, <2>2
<1>. QED BY <1>1, <1>2 DEF FoldInv

-----------------------------------------------------------------------------
(* The steps together. *)

\* The inductive invariant.
Inv == AskInv /\ WalkInv /\ AnsweredInv /\ FoldInv /\ WalksAreHonest /\ BlastIsHonest

LEMMA InitInv == Init => Inv
<1>. SUFFICES ASSUME Init PROVE Inv
  OBVIOUS
<1>1. AskInv /\ WalkInv /\ pc \in {"walk", "query", "blast"}
  <2>1. InitWalk
    BY DEF Init
  <2>. QED BY <2>1, WalkInit DEF InitWalk
<1>2. xedges \subseteq Row /\ live = Memories
  BY DEF Init
<1>. QED BY <1>1, <1>2 DEF Inv, AnsweredInv, FoldInv, WalksAreHonest, BlastIsHonest

\* While the walk goes on there is no answer to speak of.
LEMMA StillWalking ==
    ASSUME Inv, WalkInv', pc = "walk", UNCHANGED <<ask, pc>>, UNCHANGED foldVars
    PROVE  Inv'
<1>1. AskInv' /\ AnsweredInv' /\ WalksAreHonest' /\ BlastIsHonest'
  BY DEF Inv, AskInv, AnsweredInv, WalksAreHonest, BlastIsHonest
<1>2. FoldInv'
  BY DEF Inv, FoldInv, foldVars
<1>. QED BY <1>1, <1>2 DEF Inv

LEMMA WalkKeepsInv ==
    ASSUME Inv, WalkStep, UNCHANGED foldVars
    PROVE  Inv'
<1>1. AskInv /\ WalkInv /\ xedges \subseteq Row /\ live \subseteq Memories
  BY DEF Inv, FoldInv
<1>2. ASSUME AskInv' /\ AnsweredInv' /\ WalksAreHonest' /\ BlastIsHonest' /\ WalkInv',
             pc' = "fold" \/ ask'.use # "recall"
      PROVE  Inv'
  BY <1>1, <1>2 DEF Inv, FoldInv, foldVars
<1>3. CASE StartWalk
  BY <1>1, <1>3, StartWalkStep, StillWalking DEF StartWalk
<1>4. CASE Probe
  BY <1>1, <1>4, ProbeStep, StillWalking DEF Probe, Walking
<1>5. CASE Expand
  BY <1>1, <1>5, ExpandStep, StillWalking DEF Expand, Walking
<1>6. ASSUME NEW e \in walk.todo, Follow(e) PROVE Inv'
  BY <1>1, <1>6, FollowStep, StillWalking DEF Follow, Walking
<1>7. CASE EndWalk
  BY <1>1, <1>7, EndWalkStep, StillWalking DEF EndWalk, Walking
<1>8. CASE EndTraverse
  <2>1. pc' = "fold" \/ ask'.use # "recall"
    BY <1>8 DEF EndTraverse, Answered
  <2>. QED BY <1>1, <1>2, <1>8, <2>1, EndTraverseStep
<1>9. CASE Query
  <2>1. pc' = "fold" \/ ask'.use # "recall"
    BY <1>9 DEF Query, Answered
  <2>. QED BY <1>1, <1>2, <1>9, <2>1, QueryStep
<1>10. CASE BlastRadius
  <2>1. ask'.use # "recall"
    BY <1>1, <1>10 DEF AskInv, BlastRadius
  <2>. QED BY <1>1, <1>2, <1>10, <2>1, BlastStep
<1>. QED BY <1>3, <1>4, <1>5, <1>6, <1>7, <1>8, <1>9, <1>10 DEF WalkStep

LEMMA FoldKeepsInv ==
    ASSUME Inv,
           StartFold \/ NextAnchor \/ EndFold \/ \E r \in fold.todo : SkipRow(r) \/ StopAtBudget(r) \/ FoldRow(r)
    PROVE  Inv'
<1>1. AskInv /\ AnsweredInv /\ FoldInv
  BY DEF Inv
<1>2. FoldInv' /\ ask.use = "recall" /\ ask' = ask /\ pc' \in {"anchors", "done"}
  <2>1. CASE StartFold
    BY <1>1, <2>1, StartFoldStep
  <2>2. CASE NextAnchor
    BY <1>1, <2>2, NextAnchorStep
  <2>3. CASE EndFold
    BY <1>1, <2>3, EndFoldStep
  <2>4. ASSUME NEW r \in fold.todo, SkipRow(r)
        PROVE  FoldInv' /\ ask.use = "recall" /\ ask' = ask /\ pc' \in {"anchors", "done"}
    BY <1>1, <2>4, SkipRowStep
  <2>5. ASSUME NEW r \in fold.todo, StopAtBudget(r)
        PROVE  FoldInv' /\ ask.use = "recall" /\ ask' = ask /\ pc' \in {"anchors", "done"}
    BY <1>1, <2>5, StopAtBudgetStep
  <2>6. ASSUME NEW r \in fold.todo, FoldRow(r)
        PROVE  FoldInv' /\ ask.use = "recall" /\ ask' = ask /\ pc' \in {"anchors", "done"}
    BY <1>1, <2>6, FoldRowStep
  <2>. QED BY <2>1, <2>2, <2>3, <2>4, <2>5, <2>6
<1>3. AskInv' /\ WalkInv' /\ AnsweredInv' /\ WalksAreHonest' /\ BlastIsHonest'
  BY <1>1, <1>2, OnlyTheFold
<1>. QED BY <1>2, <1>3 DEF Inv

LEMMA SameWalk ==
    ASSUME Inv, UNCHANGED walkVars
    PROVE  AskInv' /\ WalkInv' /\ AnsweredInv' /\ WalksAreHonest' /\ BlastIsHonest'
<1>1. ask' = ask /\ seeds' = seeds /\ walk' = walk /\ sub' = sub /\ pc' = pc
  BY DEF walkVars
<1>2. AskInv' /\ WalkInv' /\ AnsweredInv'
  BY <1>1 DEF Inv, AskInv, WalkInv, AnsweredInv
<1>3. WalksAreHonest'
  BY <1>1 DEF Inv, WalksAreHonest, OneWalk, Distance
<1>4. BlastIsHonest'
  <2>1. CASE pc = "done"
    <3>1. BlastSays(ask, sub)
      <4> DEFINE all == {x \in Ids : BlastFrom(ask, {ask.seeds[1]})[x] # Far}
      <4>1. (ask.use = "blast" /\ ~sub.cap /\ ~sub.horizon) =>
                RowsOf(ask, ToSet(sub.nodes), sub.edges, ask.seeds[1]) =
                   RowsOf(ask, {x \in all : ask.graph.kind[x] # "none"},
                          UNION {Incident(ask.graph, x, "dependents") : x \in all}, ask.seeds[1])
        BY <2>1 DEF Inv, BlastIsHonest, RowsOf, Rows, BlastFrom, HasNode
      <4>. QED BY <4>1 DEF BlastSays, NodesIn, EdgesAt
    <3>2. BlastSays(ask, sub')
      BY <1>1, <3>1
    <3>. QED BY <1>1, <3>2, BlastNext
  <2>2. CASE pc # "done"
    BY <1>1, <2>2 DEF BlastIsHonest
  <2>. QED BY <2>1, <2>2
<1>. QED BY <1>2, <1>3, <1>4

LEMMA ErasureKeepsInv ==
    ASSUME Inv, NEW m \in Memories, EraseNode(m) \/ EraseRows(m)
    PROVE  Inv'
<1>1. UNCHANGED walkVars /\ fold' = fold /\ xedges' \subseteq xedges /\ live' \subseteq live
  BY DEF EraseNode, EraseRows
<1>2. AskInv' /\ WalkInv' /\ AnsweredInv' /\ WalksAreHonest' /\ BlastIsHonest'
  BY <1>1, SameWalk
<1>3. FoldInv'
  BY <1>1, ErasureStep DEF Inv
<1>. QED BY <1>2, <1>3 DEF Inv

LEMMA NextInv == Inv /\ [Next]_<<walkVars, foldVars>> => Inv'
<1>. SUFFICES ASSUME Inv, [Next]_<<walkVars, foldVars>> PROVE Inv'
  OBVIOUS
<1>1. CASE WalkStep /\ UNCHANGED foldVars
  BY <1>1, WalkKeepsInv
<1>2. CASE StartFold \/ NextAnchor \/ EndFold \/ \E r \in fold.todo : SkipRow(r) \/ StopAtBudget(r) \/ FoldRow(r)
  BY <1>2, FoldKeepsInv
<1>3. ASSUME NEW m \in Memories, EraseNode(m) \/ EraseRows(m) PROVE Inv'
  BY <1>3, ErasureKeepsInv
<1>4. CASE UNCHANGED <<walkVars, foldVars>>
  <2>1. UNCHANGED walkVars /\ fold' = fold /\ xedges' = xedges /\ live' = live
    BY <1>4 DEF foldVars
  <2>2. AskInv' /\ WalkInv' /\ AnsweredInv' /\ WalksAreHonest' /\ BlastIsHonest'
    BY <2>1, SameWalk
  <2>3. FoldInv'
    BY <2>1, ErasureStep DEF Inv
  <2>. QED BY <2>2, <2>3 DEF Inv
<1>. QED BY <1>1, <1>2, <1>3, <1>4 DEF Next

LEMMA SpecInv == Spec => []Inv
<1>1. Init => Inv
  BY InitInv
<1>2. Inv /\ [Next]_<<walkVars, foldVars>> => Inv'
  BY NextInv
<1>. QED BY <1>1, <1>2, PTL DEF Spec

\* The invariant of the ply, at its end, is what a recall owes.
LEMMA FoldAnswers == Inv => FoldIsHonest
<1>. SUFFICES ASSUME Inv, pc = "done", ask.use = "recall" PROVE FoldIsHonest
  BY DEF FoldIsHonest
<1>1. /\ ask \in Questions /\ xedges \subseteq Row /\ live \subseteq Memories
      /\ FoldOK(ask, xedges, live, sub, fold) /\ FoldEnds(ask, xedges, sub, fold)
  BY DEF Inv, AskInv, FoldInv
<1>2. /\ Cardinality(fold.folded) <= MaxCross
      /\ ToSet(sub.nodes) \cap Memories = fold.folded
      /\ \A e \in sub.edges : e.kind = "about" =>
             IsNode(ask, e.target) /\ (e.source \in ToSet(sub.nodes) \/ e.source \notin live)
      /\ \A m \in fold.folded : sub.depths[m] <= ask.depth
      /\ fold.todo = {} /\ ToSet(fold.anchors) = {}
  BY <1>1, ListRangeEmpty DEF FoldOK, FoldTyped, FoldShows, FoldEnds
<1>3. \A e \in sub.edges : e.kind = "about" => HasNode(e.target)
  BY <1>2 DEF HasNode, IsNode
<1>4. \A r \in Standing : r \in Valid(ask, xedges) /\ r.source \in live /\ r.source \in Memories /\ r.target \notin Memories
  BY <1>1 DEF Standing, EpochValid, Valid, HasNode, IsNode, Row
<1>5. ASSUME ~sub.cap, ~sub.horizon, NEW r \in Standing, Shown \cap {r.source, r.target} # {}
      PROVE  CoreEdge(r) \in sub.edges /\ {r.source, r.target} \subseteq Shown
  <2>1. r.source \in Shown => r.target \in Shown
    BY <1>1, <1>2, <1>4, <1>5 DEF FoldEnds, Shown
  <2>2. r.target \in Shown
    BY <1>5, <2>1
  <2>3. r.target \in CodeIn(sub) \ ToSet(fold.anchors)
    BY <1>2, <1>4, <2>2 DEF CodeIn, Shown
  <2>4. CoreEdge(r) \in sub.edges
    BY <1>1, <1>2, <1>4, <1>5, <2>3 DEF FoldOK, FoldCloses
  <2>5. r.source \in Shown
    BY <1>2, <1>4, <2>4 DEF CoreEdge, Shown
  <2>. QED BY <2>2, <2>4, <2>5
<1>6. ASSUME ask.engine = "memory", Len(ask.seeds) = 1, NEW r \in Standing, {r.source, r.target} \subseteq Shown
      PROVE  sub.depths[r.source] <= DepthOf(r.target) + 1
  <2>1. r.target \in CodeIn(sub) /\ r.source \in fold.folded \cap live /\ r \in Valid(ask, xedges)
    BY <1>2, <1>4, <1>6 DEF CodeIn, Shown
  <2>2. sub.depths[r.source] <= DepthIn(ask, sub, r.target) + 1
    BY <1>1, <1>6, <2>1 DEF FoldOK, FoldNears, Ordered
  <2>. QED BY <2>2, FoldWords
<1>7. \A m \in Shown \cap Memories : sub.depths[m] <= ask.depth
  BY <1>2 DEF Shown
<1>. QED BY <1>2, <1>3, <1>5, <1>6, <1>7 DEF FoldIsHonest

\* The marks of a traversal tell the truth: without the cap mark every symbol within
\* the depth is answered at its distance from the nearest seed, without either mark
\* nothing lies beyond, and a cut answer kept the nearest, for every graph, question
\* and bound (MemStore::traverse under traverse_multi, SqliteStore::traverse_multi).
THEOREM WalksStayHonest == Spec => []WalksAreHonest
<1>1. Inv => WalksAreHonest
  BY DEF Inv
<1>. QED BY <1>1, SpecInv, PTL

\* A blast radius whose horizon mark was cleared by refine_code_dependents_horizon, or
\* that never had one, has every row of the unbounded dependents of its symbol.
THEOREM BlastStaysHonest == Spec => []BlastIsHonest
<1>1. Inv => BlastIsHonest
  BY DEF Inv
<1>. QED BY <1>1, SpecInv, PTL

\* An unmarked recall is closed under the cross-store edges that stood throughout the
\* read, whatever is erased under it; a stale stamp adds no edge, and neither the depth
\* nor the budget is exceeded (the overlay's traverse_multi and its fold).
THEOREM FoldStaysHonest == Spec => []FoldIsHonest
<1>1. Inv => FoldIsHonest
  BY FoldAnswers
<1>. QED BY <1>1, SpecInv, PTL
=============================================================================
