------------------------------ MODULE Traversal ------------------------------
(***************************************************************************)
(* Bounded traversal: the breadth-first walk of the in-memory store, run    *)
(* once for each seed and folded by the default traverse_multi; the         *)
(* recursive queries of SQLite that answer the same question; and the blast *)
(* radius, which clears a depth cut after it looked past the horizon.       *)
(*                                                                         *)
(* An answer is a floor when a bound cut it.  It says so by two marks, cap  *)
(* (max_nodes) and horizon (max_depth), and an agent takes an unmarked      *)
(* answer for the whole truth.  The edges here are those the question       *)
(* admits by kind and confidence.                                          *)
(***************************************************************************)
EXTENDS Integers, Sequences, FiniteSets, SequencesExt

CONSTANTS
    Ids,          \* the symbols, numbered in the order of their names
    Questions,    \* [graph, use, engine, seeds, dir, depth, cap]; a graph has the kind
                  \* of each symbol, "none" for one without a node, and the edges
    ExtraDepth    \* HORIZON_EXTENSION_DEPTH

Kinds      == {"code", "file", "none"}
Directions == {"dependents", "dependencies", "both"}
Edge       == [source : Ids, target : Ids, kind : {"calls", "imports"}]

ASSUME IdsAreNumbered == Ids \in SUBSET (Nat \ {0}) /\ IsFiniteSet(Ids)
ASSUME QuestionsAreAsked ==
    \A q \in Questions :
        /\ q.graph.kind \in [Ids -> Kinds] /\ q.graph.edges \subseteq Edge
        /\ q.use \in {"walk", "blast", "recall"} /\ q.engine \in {"memory", "sqlite"}
        /\ q.seeds \in Seq(Ids) /\ q.seeds # <<>>
        /\ q.dir \in Directions /\ q.depth \in Nat /\ q.cap \in Nat \ {0}
        /\ q.use = "blast" => Len(q.seeds) = 1 /\ q.dir = "dependents"
        \* A LIMIT of max_nodes on the frontier would hide seeds that are the frontier.
        /\ q.depth = 0 => Len(q.seeds) <= q.cap
ASSUME ExtraDepthIsNat == ExtraDepth \in Nat

VARIABLES
    ask,      \* the question
    seeds,    \* the seeds still to walk from
    walk,     \* the walk from one seed
    sub,      \* the answer so far: [nodes, edges, depths, cap, horizon]
    pc

walkVars == <<ask, seeds, walk, sub, pc>>

Far == Cardinality(Ids) + 1                       \* the depth of what was not reached
HasNode(x)  == ask.graph.kind[x] # "none"
Smaller(a, b) == IF a < b THEN a ELSE b

-----------------------------------------------------------------------------
(* Edges seen from a node. *)

Incident(G, x, dir) ==
    {e \in G.edges : CASE dir = "dependents"   -> e.target = x
                       [] dir = "dependencies" -> e.source = x
                       [] dir = "both"         -> x \in {e.source, e.target}}

Advance(e, x, dir) ==
    CASE dir = "dependents"   -> e.source
      [] dir = "dependencies" -> e.target
      [] dir = "both"         -> IF e.source = x THEN e.target ELSE e.source

Onward(G, S, dir) == UNION {{Advance(e, x, dir) : e \in Incident(G, x, dir)} : x \in S}

Meets(G, S, dir) == S \cup Onward(G, S, dir)

\* What a walk of i hops from S meets.
Ball(G, S, dir) ==
    LET B[i \in Nat] == IF i = 0 THEN S ELSE Meets(G, B[i - 1], dir)
    IN B

\* What a walk of k hops from S meets, and at which depth first.
Mins(G, S, dir, k) ==
    LET ball == Ball(G, S, dir)
    IN [x \in Ids |-> IF x \in ball[k]
                      THEN CHOOSE i \in 0..k : x \in ball[i] /\ \A j \in 0..(i - 1) : x \notin ball[j]
                      ELSE Far]

-----------------------------------------------------------------------------
(* MemStore::traverse from one seed, an edge at a time. *)

NoWalk == [at |-> 0, queue |-> <<>>, todo |-> {}, seen |-> {}, capped |-> {}, nodes |-> <<>>,
           edges |-> {}, depths |-> [x \in Ids |-> Far], cap |-> FALSE, horizon |-> FALSE]

NoAnswer == [nodes |-> <<>>, edges |-> {}, depths |-> [x \in Ids |-> Far],
             cap |-> FALSE, horizon |-> FALSE]

Listed(x) == IF HasNode(x) THEN <<x>> ELSE <<>>

StartWalk ==
    /\ pc = "walk" /\ walk = NoWalk /\ seeds # <<>>
    /\ walk' = [NoWalk EXCEPT !.at = Head(seeds), !.queue = <<Head(seeds)>>, !.seen = {Head(seeds)},
                              !.nodes = Listed(Head(seeds)), !.depths[Head(seeds)] = 0]
    /\ seeds' = Tail(seeds)
    /\ UNCHANGED <<ask, sub, pc>>

Walking == pc = "walk" /\ walk # NoWalk

\* A node at the horizon: the probe for a neighbour that was never reached.
Probe ==
    /\ Walking /\ walk.todo = {} /\ walk.queue # <<>>
    /\ LET x == Head(walk.queue)
       IN /\ walk.depths[x] >= ask.depth
          /\ walk' = [walk EXCEPT !.queue = Tail(@), !.horizon = @ \/
                         Onward(ask.graph, {x}, ask.dir) \ (walk.seen \cup walk.capped) # {}]
    /\ UNCHANGED <<ask, seeds, sub, pc>>

Expand ==
    /\ Walking /\ walk.todo = {} /\ walk.queue # <<>>
    /\ LET x == Head(walk.queue)
       IN /\ walk.depths[x] < ask.depth
          /\ walk' = [walk EXCEPT !.at = x, !.queue = Tail(@), !.todo = Incident(ask.graph, x, ask.dir)]
    /\ UNCHANGED <<ask, seeds, sub, pc>>

Full == Len(walk.nodes) >= ask.cap

\* Neighbours come in the order they were written, which is any order.
Follow(e) ==
    LET y     == Advance(e, walk.at, ask.dir)
        along == [walk EXCEPT !.todo = @ \ {e}, !.edges = @ \cup {e}]
    IN /\ Walking /\ e \in walk.todo
       /\ walk' = IF y \in walk.seen THEN along
                  ELSE IF Full THEN [along EXCEPT !.cap = TRUE, !.capped = @ \cup {y}]
                  ELSE [along EXCEPT !.seen = @ \cup {y}, !.queue = Append(@, y),
                                     !.nodes = @ \o Listed(y),
                                     !.depths[y] = walk.depths[walk.at] + 1]
       /\ UNCHANGED <<ask, seeds, sub, pc>>

\* A node is listed once, in the order it came, and a symbol without one not at all.
AddNode(ns, x) == IF HasNode(x) /\ x \notin ToSet(ns) THEN Append(ns, x) ELSE ns

AddNodes(ns, xs) ==
    LET A[i \in 0..Len(xs)] == IF i = 0 THEN ns ELSE AddNode(A[i - 1], xs[i])
    IN A[Len(xs)]

\* Mutant of Absorbed: only the last seed's marks are kept.
AbsorbedLast(a, w) ==
    [nodes |-> AddNodes(a.nodes, w.nodes), edges |-> a.edges \cup w.edges,
     depths |-> [x \in Ids |-> Smaller(a.depths[x], w.depths[x])],
     cap |-> w.cap, horizon |-> w.horizon]

\* traverse_multi's fold of one seed's answer into the union.
Absorbed(a, w) ==
    [nodes |-> AddNodes(a.nodes, w.nodes), edges |-> a.edges \cup w.edges,
     depths |-> [x \in Ids |-> Smaller(a.depths[x], w.depths[x])],
     cap |-> a.cap \/ w.cap, horizon |-> a.horizon \/ w.horizon]

EndWalk ==
    /\ Walking /\ walk.todo = {} /\ walk.queue = <<>>
    /\ sub' = Absorbed(sub, walk)
    /\ walk' = NoWalk
    /\ UNCHANGED <<ask, seeds, pc>>

\* Seeds are answered without a depth.
WithoutSeeds(d) == [x \in Ids |-> IF x \in ToSet(ask.seeds) THEN Far ELSE d[x]]

Answered == IF ask.use = "recall" THEN "fold" ELSE "done"

EndTraverse ==
    /\ pc = "walk" /\ walk = NoWalk /\ seeds = <<>>
    /\ sub' = [sub EXCEPT !.depths = WithoutSeeds(@)]
    /\ pc' = Answered
    /\ UNCHANGED <<ask, seeds, walk>>

-----------------------------------------------------------------------------
(* SqliteStore::traverse and traverse_multi.  A LIMIT without an ORDER BY    *)
(* keeps any rows, so a question has several possible answers.             *)

Nearest(d, n) ==
    LET nearer(x, y) == d[x] < d[y] \/ (d[x] = d[y] /\ x < y)
    IN [x \in Ids |-> IF Cardinality({y \in Ids : nearer(y, x)}) < n THEN d[x] ELSE Far]

ReachedIn(d) == {x \in Ids : d[x] # Far}

\* Mutant of Unvisited: an edge back to a seed counts as one past the horizon.
UnvisitedOrSeed(m, S) == {x \in Ids : m[x] \in {0, Far}}

\* What the horizon probe has not visited: mins still holds the seeds.
Unvisited(m, S) == {x \in Ids : m[x] = Far}

\* cte_reach and cte_reach_multi: one direction, the seeds left out of the rows.
Legs(S, dir, k, n) ==
    LET m     == Mins(ask.graph, S, dir, k)
        rows  == Nearest([x \in Ids |-> IF x \in S THEN Far ELSE m[x]], n + 1)
        front == {x \in ReachedIn(m) : m[x] = k}
        kept  == {F \in SUBSET front : Cardinality(F) = Smaller(n, Cardinality(front))}
    IN {[depths |-> rows, horizon |-> Onward(ask.graph, F, dir) \cap Unvisited(m, S) # {}] : F \in kept}

BothLegs(S, dir, k, n) ==
    IF dir # "both" THEN Legs(S, dir, k, n)
    ELSE {[depths  |-> [x \in Ids |-> Smaller(a.depths[x], b.depths[x])],
           horizon |-> a.horizon \/ b.horizon] :
              a \in Legs(S, "dependents", k, n), b \in Legs(S, "dependencies", k, n)}

\* cap_by_depth, the nodes and the induced edges.  The seeds are listed first, then
\* what was reached: by name in the code, which has nothing to do with depth, so that
\* any order serves.
SqlAnswer(starts, dir, n, leg) ==
    LET d  == Nearest(leg.depths, n)
        in == ToSet(starts) \cup ReachedIn(d)
    IN [nodes |-> AddNodes(AddNodes(<<>>, starts), SetToSeq(ReachedIn(d))),
        edges |-> UNION {Incident(ask.graph, x, dir) : x \in in},
        depths |-> d, cap |-> Cardinality(ReachedIn(leg.depths)) > n, horizon |-> leg.horizon]

SqlAnswers(starts, dir, k, n) ==
    {SqlAnswer(starts, dir, n, leg) : leg \in BothLegs(ToSet(starts), dir, k, n)}

Query ==
    /\ pc = "query"
    /\ sub' \in SqlAnswers(ask.seeds, ask.dir, ask.depth, ask.cap)
    /\ pc' = Answered
    /\ UNCHANGED <<ask, seeds, walk>>

-----------------------------------------------------------------------------
(* The blast radius of one symbol over a SQLite store. *)

Sources(edges) == {e.source : e \in {f \in edges : f.kind # "imports"}}

\* code_dependents: a file that only imports its way in is not a dependent, unless
\* files are what was asked about.
Rows(nodes, edges, start) ==
    {x \in nodes \ {start} : \/ ask.graph.kind[start] = "file"
                             \/ ask.graph.kind[x] = "file" => x \in Sources(edges)}

\* Mutant of AddsARow: only nodes the first walk had not met are looked at.
AddsANode(a, b) ==
    LET later == Sources(a.edges \cup b.edges)
    IN \E x \in ToSet(b.nodes) \ ToSet(a.nodes) : ask.graph.kind[x] = "file" => x \in later

\* Whether the walk past the horizon gives the answer a row it does not have: a new
\* node, or a file that now is the source of more than an import.
AddsARow(a, b) ==
    LET early == Sources(a.edges)
        later == Sources(a.edges \cup b.edges)
        file(x) == ask.graph.kind[x] = "file"
    IN \E x \in ToSet(a.nodes) \cup ToSet(b.nodes) :
          /\ file(x) => x \in later
          /\ x \notin ToSet(a.nodes) \/ (file(x) /\ x \notin early)

Frontier(a) == {x \in ReachedIn(a.depths) : a.depths[x] = ask.depth}

\* refine_code_dependents_horizon.
Refinable(a) ==
    a.horizon /\ ~a.cap /\ ask.depth # 0 /\ ask.graph.kind[ask.seeds[1]] # "file"

Refined(a, b) ==
    IF AddsARow(a, b) \/ b.cap \/ b.horizon THEN a ELSE [a EXCEPT !.horizon = FALSE]

BlastRadius ==
    /\ pc = "blast"
    /\ \E a \in SqlAnswers(ask.seeds, ask.dir, ask.depth, ask.cap) :
          IF ~Refinable(a) THEN sub' = a
          ELSE \E b \in SqlAnswers(SetToSeq(Frontier(a)), ask.dir, ExtraDepth, ask.cap) :
                  sub' = Refined(a, b)
    /\ pc' = "done"
    /\ UNCHANGED <<ask, seeds, walk>>

-----------------------------------------------------------------------------
InitWalk ==
    /\ ask \in Questions
    /\ seeds = ask.seeds
    /\ walk = NoWalk /\ sub = NoAnswer
    /\ pc = CASE ask.use = "blast" -> "blast"
              [] ask.use # "blast" /\ ask.engine = "sqlite" -> "query"
              [] OTHER -> "walk"

WalkStep ==
    \/ StartWalk \/ Probe \/ Expand \/ EndWalk \/ EndTraverse \/ Query \/ BlastRadius
    \/ \E e \in walk.todo : Follow(e)

-----------------------------------------------------------------------------
\* How far every symbol is from the seeds.  "both" is one undirected walk in memory
\* and the union of two directed walks in SQLite.
Distance ==
    LET from(dir) == Mins(ask.graph, ToSet(ask.seeds), dir, Cardinality(Ids))
    IN IF ask.dir = "both" /\ ask.engine = "sqlite"
       THEN [x \in Ids |-> Smaller(from("dependents")[x], from("dependencies")[x])]
       ELSE from(ask.dir)

\* One walk answered, so each mark means what it says and the cap kept the nearest.
OneWalk == ask.engine = "sqlite" \/ Len(ask.seeds) = 1

\* What a finished traversal owes to the agent that reads its marks, whatever the
\* graph, the seeds and the bounds.  Without the cap mark every symbol within the
\* depth is there, at its distance from the nearest seed; without either mark nothing
\* lies beyond.  Where one walk answered, the cap never drops a near symbol for a far
\* one and a horizon mark without the cap has a symbol one hop past it.
WalksAreHonest ==
    (pc \in {"fold", "done"} /\ ask.use = "walk") =>
        LET seed(x) == x \in ToSet(ask.seeds)
            dist    == Distance
            got     == ReachedIn(sub.depths)
        IN /\ ~sub.cap => \A x \in Ids : ~seed(x) =>
                              sub.depths[x] = IF dist[x] > ask.depth THEN Far ELSE dist[x]
           /\ ~sub.cap /\ ~sub.horizon => \A x \in Ids : dist[x] = Far \/ dist[x] <= ask.depth
           /\ OneWalk /\ sub.cap =>
                 /\ got # {} => \E y \in Ids \ got : ~seed(y) /\ dist[y] # Far
                 /\ \A x \in got, y \in Ids \ got :
                       sub.depths[x] = dist[x] /\ (seed(y) \/ dist[x] <= dist[y])
           /\ (OneWalk /\ ~(ask.engine = "sqlite" /\ ask.dir = "both") /\ ~sub.cap /\ sub.horizon) =>
                 \E x \in Ids : dist[x] = ask.depth + 1

\* A blast radius that carries no mark has every row of the unbounded one: the mark
\* is cleared only if what lies past the horizon are files importing their way in.
BlastIsHonest ==
    (pc = "done" /\ ask.use = "blast" /\ ~sub.cap /\ ~sub.horizon) =>
        LET start == ask.seeds[1]
            all   == {x \in Ids : Mins(ask.graph, {start}, "dependents", Cardinality(Ids))[x] # Far}
        IN Rows(ToSet(sub.nodes), sub.edges, start) =
              Rows({x \in all : HasNode(x)},
                   UNION {Incident(ask.graph, x, "dependents") : x \in all}, start)
=============================================================================
