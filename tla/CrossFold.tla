------------------------------ MODULE CrossFold ------------------------------
(***************************************************************************)
(* The overlay's traverse_multi: after the home store answered, one ply of  *)
(* cross-store edges is folded into the answer, anchor by anchor, while a   *)
(* memory may be erased.  The home is the code store, held for the read;    *)
(* the foreign engine keeps memories, which point at code and never come    *)
(* back under the same id; a row is stamped with the life of the code it    *)
(* is about.  Every bound the ply applies must show in the answer's marks.  *)
(***************************************************************************)
EXTENDS Traversal

CONSTANTS
    Memories,     \* the Ids that are memories
    Stamps,       \* the lives a row may be stamped with; the live code is in its last
    MaxCross,     \* CrossBudget::max_cross_nodes
    MaxErasures   \* bound: erasures while the read runs

ASSUME MemoriesAreForeign ==
    /\ Memories \subseteq Ids
    /\ \A q \in Questions : q.use = "recall" => \A m \in Memories : q.graph.kind[m] = "none"
ASSUME BudgetIsNat ==
    MaxCross \in Nat /\ MaxErasures \in Nat /\ Stamps \in SUBSET Nat /\ Stamps # {}

Row == [source : Memories, target : Ids \ Memories, epoch : Stamps]

VARIABLES
    xedges,     \* the rows of xedge.db
    live,       \* the memories the foreign pool holds
    erasing,    \* memories erased whose rows are still to go
    fold        \* [anchors, at, todo, folded]

foldVars == <<xedges, live, erasing, fold>>

LiveEpoch == CHOOSE n \in Stamps : \A o \in Stamps : o <= n
EpochValid(r) == HasNode(r.target) /\ r.epoch = LiveEpoch
CrossRows(x)  == {r \in xedges : x \in {r.source, r.target} /\ EpochValid(r)}

CoreEdge(r) == [source |-> r.source, target |-> r.target, kind |-> "about"]
Shown       == ToSet(sub.nodes)
DepthOf(x)  == IF x \in ToSet(ask.seeds) THEN 0 ELSE sub.depths[x]

NoFold == [anchors |-> <<>>, at |-> 0, todo |-> {}, folded |-> {}]

StartFold ==
    /\ pc = "fold"
    /\ fold' = [NoFold EXCEPT !.anchors = sub.nodes]
    /\ pc' = "anchors"
    /\ UNCHANGED <<ask, seeds, walk, sub, xedges, live, erasing>>

\* One query reads an anchor's rows; they are folded from memory.
NextAnchor ==
    /\ pc = "anchors" /\ fold.todo = {} /\ fold.anchors # <<>>
    /\ fold' = [fold EXCEPT !.at = Head(fold.anchors), !.anchors = Tail(@),
                            !.todo = CrossRows(Head(fold.anchors))]
    /\ UNCHANGED <<ask, seeds, walk, sub, pc, xedges, live, erasing>>

FoldingRow(r) == pc = "anchors" /\ r \in fold.todo

\* A new end that would sit past the requested depth.
PastHorizon(r) == r.source \notin Shown /\ DepthOf(fold.at) >= ask.depth

OverBudget(r) ==
    r.source \notin Shown /\ ~PastHorizon(r) /\ Cardinality(fold.folded) >= MaxCross

SkipRow(r) ==
    /\ FoldingRow(r) /\ PastHorizon(r)
    /\ sub' = [sub EXCEPT !.horizon = TRUE]
    /\ fold' = [fold EXCEPT !.todo = @ \ {r}]
    /\ UNCHANGED <<ask, seeds, walk, pc, xedges, live, erasing>>

StopAtBudget(r) ==
    /\ FoldingRow(r) /\ OverBudget(r)
    /\ sub' = [sub EXCEPT !.cap = TRUE]
    /\ fold' = [fold EXCEPT !.todo = {}, !.anchors = <<>>]
    /\ UNCHANGED <<ask, seeds, walk, pc, xedges, live, erasing>>

\* The row's edge, and its memory if the answer lacks it and the pool still has it.
FoldRow(r) ==
    /\ FoldingRow(r) /\ ~PastHorizon(r) /\ ~OverBudget(r)
    /\ fold' = [fold EXCEPT !.todo = @ \ {r},
                            !.folded = IF r.source \in live \ Shown THEN @ \cup {r.source} ELSE @]
    /\ sub' = IF CoreEdge(r) \in sub.edges THEN sub
              ELSE IF r.source \in live \ Shown
              THEN [sub EXCEPT !.edges = @ \cup {CoreEdge(r)}, !.nodes = Append(@, r.source),
                               !.depths[r.source] = Smaller(@, DepthOf(fold.at) + 1)]
              ELSE [sub EXCEPT !.edges = @ \cup {CoreEdge(r)}]
    /\ UNCHANGED <<ask, seeds, walk, pc, xedges, live, erasing>>

\* Mutant of HopCut: the second hop is not looked at.
HopCutNever == FALSE

\* A folded memory is about code that the answer does not hold.
HopCut == \E m \in fold.folded : \E r \in CrossRows(m) : r.target \notin Shown

EndFold ==
    /\ pc = "anchors" /\ fold.todo = {} /\ fold.anchors = <<>>
    /\ sub' = [sub EXCEPT !.horizon = @ \/ HopCut]
    /\ pc' = "done"
    /\ UNCHANGED <<ask, seeds, walk, xedges, live, erasing, fold>>

\* Another handle erases a memory: first its node, then the rows that start at it.
EraseNode(m) ==
    /\ ask.use = "recall" /\ m \in live /\ Cardinality(Memories \ live) < MaxErasures
    /\ live' = live \ {m}
    /\ erasing' = erasing \cup {m}
    /\ UNCHANGED <<walkVars, xedges, fold>>

EraseRows(m) ==
    /\ m \in erasing
    /\ xedges' = {r \in xedges : r.source # m}
    /\ erasing' = erasing \ {m}
    /\ UNCHANGED <<walkVars, live, fold>>

-----------------------------------------------------------------------------
Init ==
    /\ InitWalk
    /\ xedges \in IF ask.use = "recall" THEN SUBSET Row ELSE {{}}
    /\ live = Memories
    /\ erasing = {}
    /\ fold = NoFold

Next ==
    \/ WalkStep /\ UNCHANGED foldVars
    \/ StartFold \/ NextAnchor \/ EndFold
    \/ \E r \in fold.todo : SkipRow(r) \/ StopAtBudget(r) \/ FoldRow(r)
    \/ \E m \in Memories : EraseNode(m) \/ EraseRows(m)

Spec == Init /\ [][Next]_<<walkVars, foldVars>>

-----------------------------------------------------------------------------
\* Rows that could have been followed all along: they are there at the end of the
\* read, and a memory's id is not used twice.
Standing == {r \in xedges : EpochValid(r) /\ r.source \in live}

\* A recall without a mark is closed under the cross-store edges that stood all along:
\* who is about code in the answer is in it, and so is all the code it is about.  A row
\* of an earlier life of the code never adds an edge, no memory sits past the depth asked
\* for, and the budget holds whatever happened.  Over the in-memory store, whose answer
\* to one seed comes in the order of depth, a memory is at most one hop past its nearest
\* code.
FoldIsHonest ==
    (pc = "done" /\ ask.use = "recall") =>
        /\ Cardinality(fold.folded) <= MaxCross
        /\ \A e \in sub.edges : e.kind = "about" => HasNode(e.target)
        /\ ~sub.cap /\ ~sub.horizon =>
              \A r \in Standing : Shown \cap {r.source, r.target} # {} =>
                  CoreEdge(r) \in sub.edges /\ {r.source, r.target} \subseteq Shown
        /\ \A m \in Shown \cap Memories : sub.depths[m] <= ask.depth
        /\ ask.engine = "memory" /\ Len(ask.seeds) = 1 =>
              \A r \in Standing : {r.source, r.target} \subseteq Shown =>
                  sub.depths[r.source] <= DepthOf(r.target) + 1
=============================================================================
