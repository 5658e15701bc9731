------------------------------ MODULE SourceLinks ------------------------------
(***************************************************************************)
(* A knowledge source (a tracker) whose documents own typed links.  Its     *)
(* projector replaces it generation by generation; documents and links live *)
(* in two databases, so a replacement is several commits, of which one, the *)
(* flip, makes the generation and its links visible.  A call may end after  *)
(* any of them.  Readers on other connections walk the links or page        *)
(* through the catalog meanwhile, one statement at a time.                  *)
(*                                                                         *)
(* Links point out of their document: to a control endpoint, which estate   *)
(* knows by its id only, or to a knowledge node of another source, which is *)
(* deleted and re-added by that source.  Visibility by deps is left out.    *)
(***************************************************************************)
EXTENDS Integers, FiniteSets

CONSTANTS
    Docs,            \* document keys, as their rank in key order
    ControlEnds,     \* ends in the control store
    KnowledgeEnds,   \* ends in the knowledge store
    Contents,        \* what a generation may hold: documents with the ends they link to
    MaxGeneration,   \* bound of the model: generation numbers
    MaxCalls,        \* bound of the model: calls of replace_source_linked
    MaxEpoch,        \* bound of the model: times an end is re-added
    Walks,           \* the walks asked for: <<start node, depth>>
    NeighborAttempts \* NEIGHBOR_ATTEMPTS

Ends == ControlEnds \cup KnowledgeEnds

ASSUME ContentsLinkDocsToEnds ==
    \A c \in Contents : \E D \in SUBSET Docs : IsFiniteSet(D) /\ c \in [D -> SUBSET Ends]
ASSUME NodesAreDistinct ==
    Docs \subseteq Int /\ Docs \cap Ends = {} /\ ControlEnds \cap KnowledgeEnds = {}
ASSUME WalksAreShort == Walks \subseteq (Docs \cup Ends) \X (1..3)
ASSUME SourceBoundsAreNat ==
    /\ MaxGeneration \in Nat /\ MaxCalls \in Nat /\ MaxEpoch \in Nat
    /\ NeighborAttempts \in Nat \ {0}

NoGeneration == 0
NoContent == [d \in {} |-> {}]
Generation == 1..MaxGeneration
Row == [doc : Docs, end : Ends, gen : Generation, epoch : 0..MaxEpoch]

VARIABLES
    manifest,  \* the source's manifest node: its generation and fingerprint
    docs,      \* the live document nodes: the generation and content each carries
    rows,      \* typed_xedges: [doc, gen] is the owner, epoch that of the end
    live,      \* the knowledge ends with a live node
    epoch,     \* symbols.gen of each knowledge end
    wpc,       \* what the projector does next
    call,      \* the generation it replaces the source with
    toPlan,    \* its links still to resolve
    planned,   \* its links resolved
    calls,     \* calls so far
    rpc,       \* what the reader does next
    moved,     \* the databases another connection wrote since a walk looked: data_version
    walk,      \* a reader's walk
    page,      \* a reader's pass over the catalog
    held,      \* ghost: the content committed at each generation
    view       \* ghost: the links a walk's attempt started from

stores == <<manifest, docs, rows, live, epoch>>
writer == <<wpc, call, toPlan, planned, calls>>
reader == <<rpc, walk, page, view>>
vars   == <<stores, writer, reader, moved, held>>

LiveEpoch(e) == IF e \in live THEN epoch[e] ELSE 0
Moves(db) == moved' = [moved EXCEPT ![db] = walk.attempt > 0]

-----------------------------------------------------------------------------
(* The projector: replace_source_linked. *)

NoCall == [gen |-> NoGeneration, content |-> NoContent, committed |-> NoGeneration, at |-> <<>>]

\* A call that returns, or whose process dies, leaves nothing in memory.
Return == wpc' = "idle" /\ call' = NoCall /\ toPlan' = {} /\ planned' = {}

Replace(g, c) ==
    /\ wpc = "idle" /\ calls < MaxCalls
    /\ call' = [NoCall EXCEPT !.gen = g, !.content = c]
    /\ calls' = calls + 1
    /\ wpc' = "order"
    /\ UNCHANGED <<stores, toPlan, planned, reader, moved, held>>

\* Mutant of InOrder: the fingerprint of the same generation is not compared.
InOrderByNumber == call.gen >= manifest.gen

InOrder ==
    /\ call.gen >= manifest.gen
    /\ call.gen = manifest.gen => call.content = manifest.content

\* Mutant of Restages: a retry of the committed generation writes its rows again.
RestagesAlways(committed) == TRUE

Restages(committed) == call.gen > committed

CheckOrder ==
    /\ wpc = "order"
    /\ IF InOrder
         THEN /\ call' = [call EXCEPT !.committed = manifest.gen]
              /\ toPlan' = UNION {{d} \X call.content[d] : d \in DOMAIN call.content}
              /\ planned' = {}
              /\ wpc' = IF Restages(manifest.gen) THEN "plan" ELSE "flip"
         ELSE Return
    /\ UNCHANGED <<stores, calls, reader, moved, held>>

PlannedRow(l, e) == [doc |-> l[1], end |-> l[2], gen |-> call.gen, epoch |-> e]

PlanControl(l) ==
    /\ wpc = "plan" /\ l \in toPlan /\ l[2] \in ControlEnds
    /\ planned' = planned \cup {PlannedRow(l, 0)}
    /\ toPlan' = toPlan \ {l}
    /\ UNCHANGED <<stores, wpc, call, calls, reader, moved, held>>

\* A knowledge end must be live; its epoch is read by a second statement.
PlanLive(l) ==
    /\ wpc = "plan" /\ l \in toPlan /\ l[2] \in KnowledgeEnds
    /\ IF l[2] \in live
         THEN /\ call' = [call EXCEPT !.at = l]
              /\ toPlan' = toPlan \ {l}
              /\ wpc' = "epoch"
              /\ UNCHANGED planned
         ELSE Return
    /\ UNCHANGED <<stores, calls, reader, moved, held>>

PlanEpoch ==
    /\ wpc = "epoch"
    /\ planned' = planned \cup {PlannedRow(call.at, LiveEpoch(call.at[2]))}
    /\ wpc' = "plan"
    /\ UNCHANGED <<stores, call, toPlan, calls, reader, moved, held>>

\* Mutant of Leftovers: what an interrupted attempt staged is left there.
LeftoversNone == {}

\* The rows of a generation above the committed one.
Leftovers == {r \in rows : r.gen > call.committed}

PreClean ==
    /\ wpc = "plan" /\ toPlan = {}
    /\ rows' = rows \ Leftovers
    /\ Moves("overlay")
    /\ wpc' = "stage"
    /\ UNCHANGED <<manifest, docs, live, epoch, call, toPlan, planned, calls, reader, held>>

SameKey(r, s) == r.doc = s.doc /\ r.end = s.end /\ r.gen = s.gen

\* put_typed_batch: one transaction, a row with the same key is overwritten.
Stage ==
    /\ wpc = "stage"
    /\ rows' = planned \cup {r \in rows : \A p \in planned : ~SameKey(r, p)}
    /\ Moves("overlay")
    /\ wpc' = "flip"
    /\ UNCHANGED <<manifest, docs, live, epoch, call, toPlan, planned, calls, reader, held>>

\* Mutant of Absent: the documents the generation no longer holds stay.
AbsentNone == {}

\* The source's documents that the generation does not hold.
Absent == DOMAIN docs \ DOMAIN call.content

Written ==
    LET kept == DOMAIN docs \ Absent
    IN [d \in kept \cup DOMAIN call.content |->
          IF d \in DOMAIN call.content
            THEN [gen |-> call.gen, links |-> call.content[d]] ELSE docs[d]]

\* One transaction: the order is checked again, every node of the generation
\* and then the manifest are written; a refusal rolls it back.
Flip ==
    /\ wpc = "flip"
    /\ IF InOrder
         THEN /\ docs' = Written
              /\ manifest' = [gen |-> call.gen, content |-> call.content]
              /\ held' = [held EXCEPT ![call.gen] = call.content]
              /\ Moves("knowledge")
              /\ wpc' = "cleanup"
              /\ UNCHANGED <<call, toPlan, planned>>
         ELSE Return /\ UNCHANGED <<docs, manifest, held, moved>>
    /\ UNCHANGED <<rows, live, epoch, calls, reader>>

CleanUp ==
    /\ wpc = "cleanup"
    /\ rows' = {r \in rows : r.gen = call.gen}
    /\ Moves("overlay")
    /\ Return
    /\ UNCHANGED <<manifest, docs, live, epoch, calls, reader, held>>

\* The process dies or a store refuses: what was committed stays.  A cleanup
\* that fails is only reported.
Stop ==
    /\ wpc # "idle"
    /\ Return
    /\ UNCHANGED <<stores, calls, reader, moved, held>>

-----------------------------------------------------------------------------
(* The source of the knowledge ends. *)

Remove(e) ==
    /\ e \in live
    /\ live' = live \ {e}
    /\ Moves("knowledge")
    /\ UNCHANGED <<manifest, docs, rows, epoch, writer, reader, held>>

Readd(e) ==
    /\ e \in KnowledgeEnds \ live /\ epoch[e] < MaxEpoch
    /\ live' = live \cup {e}
    /\ epoch' = [epoch EXCEPT ![e] = @ + 1]
    /\ Moves("knowledge")
    /\ UNCHANGED <<manifest, docs, rows, writer, reader, held>>

-----------------------------------------------------------------------------
(* A reader: one walk of the links (neighbors), or one pass over the catalog. *)

\* The rows whose owner document is live at the owner's generation, and whose
\* end still is the node the row was stamped for.
OwnerLive(r) == r.doc \in DOMAIN docs /\ docs[r.doc].gen = r.gen
Shown == {r \in rows : OwnerLive(r)}
Resolves(r) == r.end \in ControlEnds \/ (r.end \in live /\ LiveEpoch(r.end) = r.epoch)
Link(r) == <<r.doc, r.end>>

Touching(n) == {r \in rows : n \in {r.doc, r.end}}

NoWalk == [start |-> {}, depth |-> 0, hops |-> 0, attempt |-> 0, frontier |-> {}, next |-> {},
           found |-> {}, links |-> {}, todo |-> {}, pins |-> [d \in {} |-> NoGeneration]]
NoPage == [pinned |-> NoGeneration, now |-> NoGeneration, total |-> 0, at |-> {}, got |-> NoContent]

StartWalk(n, depth) ==
    /\ rpc = "idle"
    /\ walk' = [NoWalk EXCEPT !.start = {n}, !.depth = depth]
    /\ rpc' = "before"
    /\ UNCHANGED <<stores, writer, page, moved, held, view>>

\* data_version of both databases, before the attempt.
BeforeKnowledge ==
    /\ rpc = "before" /\ walk.attempt < NeighborAttempts
    /\ moved' = [moved EXCEPT !.knowledge = FALSE]
    /\ walk' = [NoWalk EXCEPT !.start = walk.start, !.depth = walk.depth,
                              !.hops = walk.depth, !.attempt = walk.attempt + 1]
    /\ rpc' = "beforeOverlay"
    /\ UNCHANGED <<stores, writer, page, held, view>>

BeforeOverlay ==
    /\ rpc = "beforeOverlay"
    /\ moved' = [moved EXCEPT !.overlay = FALSE]
    /\ view' = {Link(r) : r \in {s \in Shown : Resolves(s)}}
    /\ rpc' = "start"
    /\ UNCHANGED <<stores, writer, walk, page, held>>

\* A node is found by its id in control, by its live node otherwise.
Hydrates(n) == n \in ControlEnds \cup live \cup DOMAIN docs

FindStart ==
    /\ rpc = "start"
    /\ LET found == {n \in walk.start : Hydrates(n)}
       IN walk' = [walk EXCEPT !.found = found, !.frontier = found]
    /\ rpc' = "walk"
    /\ UNCHANGED <<stores, writer, page, moved, held, view>>

\* The adjacency of one node of the frontier.
ReadRows(n) ==
    /\ rpc = "walk" /\ walk.hops > 0 /\ walk.todo = {} /\ n \in walk.frontier
    /\ walk' = [walk EXCEPT !.todo = Touching(n), !.frontier = @ \ {n}]
    /\ UNCHANGED <<stores, writer, rpc, page, moved, held, view>>

NextHop ==
    /\ rpc = "walk" /\ walk.hops > 0 /\ walk.todo = {} /\ walk.frontier = {}
    /\ walk' = [walk EXCEPT !.hops = IF walk.next = {} THEN 0 ELSE @ - 1,
                            !.frontier = walk.next, !.next = {}]
    /\ UNCHANGED <<stores, writer, rpc, page, moved, held, view>>

\* A document's generation, as the walk first observed it.
Pinned(d) ==
    IF d \in DOMAIN walk.pins THEN walk.pins[d]
    ELSE IF d \in DOMAIN docs THEN docs[d].gen ELSE NoGeneration

\* One row: its owner as pinned, its end's epoch, its far node.
JudgeRow(r) ==
    LET far  == {r.doc, r.end} \ walk.found
        keep == /\ Pinned(r.doc) = r.gen
                /\ r.end \in ControlEnds \/ LiveEpoch(r.end) = r.epoch
                /\ \A n \in far : Hydrates(n)
    IN /\ rpc = "walk" /\ r \in walk.todo
       /\ walk' = [walk EXCEPT
              !.todo = @ \ {r},
              !.pins = [d \in DOMAIN @ \cup {r.doc} |-> Pinned(d)],
              !.found = IF keep THEN @ \cup far ELSE @,
              !.next = IF keep THEN @ \cup far ELSE @,
              !.links = IF keep THEN @ \cup {Link(r)} ELSE @]
       /\ UNCHANGED <<stores, writer, rpc, page, moved, held, view>>

\* Mutant of Settled: the walk is returned whatever was written meanwhile.
SettledAlways(db) == TRUE

Settled(db) == ~moved[db]

AfterKnowledge ==
    /\ rpc = "walk" /\ walk.hops = 0
    /\ rpc' = IF Settled("knowledge") THEN "afterOverlay" ELSE "before"
    /\ UNCHANGED <<stores, writer, walk, page, moved, held, view>>

AfterOverlay ==
    /\ rpc = "afterOverlay"
    /\ rpc' = IF Settled("overlay") THEN "answered" ELSE "before"
    /\ UNCHANGED <<stores, writer, walk, page, moved, held, view>>

Refuse ==
    /\ rpc = "before" /\ walk.attempt = NeighborAttempts
    /\ rpc' = "refused"
    /\ UNCHANGED <<stores, writer, walk, page, moved, held, view>>

\* Mutant of PinHolds: a page is read at whatever generation is current.
PinHoldsAlways == TRUE

PinHolds == page.pinned \in {NoGeneration, manifest.gen}

\* The document of page n, when every record fills a page.
PageDoc(n) ==
    {d \in DOMAIN manifest.content : Cardinality({c \in DOMAIN manifest.content : c < d}) = n}

\* source_catalog for the next page, pinned at the generation of the first:
\* the manifest, each record, the manifest again.
ReadManifest ==
    LET next == PageDoc(Cardinality(DOMAIN page.got))
    IN /\ rpc \in {"idle", "page"} /\ manifest.gen # NoGeneration
       /\ IF PinHolds /\ (next # {} \/ DOMAIN manifest.content = {})
            THEN /\ page' = [page EXCEPT
                        !.pinned = IF @ = NoGeneration THEN manifest.gen ELSE @,
                        !.now = manifest.gen, !.at = next,
                        !.total = Cardinality(DOMAIN manifest.content)]
                 /\ rpc' = IF next = {} THEN "recheck" ELSE "record"
            ELSE rpc' = "changed" /\ UNCHANGED page
       /\ UNCHANGED <<stores, writer, walk, moved, held, view>>

ReadRecord(d) ==
    /\ rpc = "record" /\ d \in page.at
    /\ IF d \in DOMAIN docs /\ docs[d].gen = page.now
         THEN /\ page' = [page EXCEPT !.got = [x \in DOMAIN @ \cup {d} |->
                                                  IF x = d THEN docs[d].links ELSE @[x]]]
              /\ rpc' = "recheck"
         ELSE rpc' = "changed" /\ UNCHANGED page
    /\ UNCHANGED <<stores, writer, walk, moved, held, view>>

RecheckManifest ==
    /\ rpc = "recheck"
    /\ rpc' = IF manifest.gen # page.now THEN "changed"
              ELSE IF Cardinality(DOMAIN page.got) = page.total THEN "paged" ELSE "page"
    /\ UNCHANGED <<stores, writer, walk, page, moved, held, view>>

Done ==
    /\ rpc \in {"answered", "refused", "paged", "changed"}
    /\ rpc' = "idle" /\ walk' = NoWalk /\ page' = NoPage /\ view' = {}
    /\ moved' = [db \in DOMAIN moved |-> FALSE]
    /\ UNCHANGED <<stores, writer, held>>

-----------------------------------------------------------------------------
Init ==
    /\ manifest = [gen |-> NoGeneration, content |-> NoContent]
    /\ docs = [d \in {} |-> [gen |-> NoGeneration, links |-> {}]]
    /\ rows = {}
    /\ live = KnowledgeEnds /\ epoch = [e \in KnowledgeEnds |-> 0]
    /\ wpc = "idle" /\ call = NoCall /\ toPlan = {} /\ planned = {} /\ calls = 0
    /\ rpc = "idle" /\ walk = NoWalk /\ page = NoPage
    /\ moved = [db \in {"knowledge", "overlay"} |-> FALSE]
    /\ held = [g \in Generation |-> NoContent]
    /\ view = {}

Project ==
    \/ \E g \in Generation, c \in Contents : Replace(g, c)
    \/ CheckOrder
    \/ \E l \in toPlan : PlanControl(l) \/ PlanLive(l)
    \/ PlanEpoch \/ PreClean \/ Stage \/ Flip \/ CleanUp
    \/ Stop

Walk ==
    \/ \E w \in Walks : StartWalk(w[1], w[2])
    \/ BeforeKnowledge \/ BeforeOverlay \/ FindStart
    \/ \E n \in walk.frontier : ReadRows(n)
    \/ NextHop
    \/ \E r \in walk.todo : JudgeRow(r)
    \/ AfterKnowledge \/ AfterOverlay \/ Refuse

Read == ReadManifest \/ (\E d \in page.at : ReadRecord(d)) \/ RecheckManifest

Next ==
    \/ Project
    \/ \E e \in KnowledgeEnds : Remove(e) \/ Readd(e)
    \/ Walk \/ Read \/ Done

Spec == Init /\ [][Next]_vars
-----------------------------------------------------------------------------
\* Every live document is one of the committed generation, and a row below it
\* is hidden: no owner lags behind the manifest.
LinksTypeOK ==
    /\ manifest.gen \in 0..MaxGeneration
    /\ \A d \in DOMAIN docs : d \in Docs /\ docs[d].gen = manifest.gen /\ docs[d].links \subseteq Ends
    /\ rows \subseteq Row
    /\ live \subseteq KnowledgeEnds /\ epoch \in [KnowledgeEnds -> 0..MaxEpoch]
    /\ wpc \in {"idle", "order", "plan", "epoch", "stage", "flip", "cleanup"}
    /\ toPlan \subseteq Docs \X Ends /\ planned \subseteq Row
    /\ calls \in 0..MaxCalls
    /\ rpc \in {"idle", "before", "beforeOverlay", "start", "walk", "afterOverlay", "answered",
                "refused", "page", "record", "recheck", "paged", "changed"}
    /\ moved \in [{"knowledge", "overlay"} -> BOOLEAN]
    /\ walk.attempt \in 0..NeighborAttempts

\* A generation and its links become visible together, in one step, whatever a
\* crash left behind in either database: no interrupted attempt's link ever
\* surfaces, none of the generation's own is missing, and it never goes back.
Contract == INSTANCE SourceContract WITH
    generation <- manifest.gen,
    documents  <- [d \in DOMAIN docs |-> docs[d].links],
    links      <- {Link(r) : r \in Shown}
ImplementsSource == Contract!Spec

\* A link that readers see stays with the node it was written for: a retry of
\* its generation never binds it to an end deleted and re-added since.
LinksStayBound ==
    [][\A r \in Shown, s \in rows' : SameKey(r, s) => s.epoch = r.epoch]_vars

\* The links within k hops of the nodes N.
Near[k \in 0..3] ==
    [N \in SUBSET (Docs \cup Ends) |->
        IF k = 0 THEN {}
        ELSE LET one == {l \in view : l[1] \in N \/ l[2] \in N}
             IN one \cup Near[k - 1][N \cup {l[1] : l \in one} \cup {l[2] : l \in one}]]

\* What a walk returns is the neighbourhood in one state of both databases,
\* although its rows, owners and ends are read one by one while generations
\* flip and ends come and go.
WalkIsOneState == rpc = "answered" => walk.links = Near[walk.depth][walk.start]

\* A reader that pages through the catalog ends with one complete generation.
CatalogIsOneGeneration == rpc = "paged" => page.got = held[page.pinned]
=============================================================================
