------------------------------ MODULE GraphStore ------------------------------
(***************************************************************************)
(* SqliteStore as its callers see it: one action for each GraphWrite        *)
(* operation on the node and edge tables, each atomic (the caller's batch   *)
(* or a savepoint makes it so).                                             *)
(***************************************************************************)
EXTENDS NodeTables, EdgeTables

CONSTANTS
    Extractable,  \* the node records extraction may produce for each symbol
    Writable,     \* the contents the base plane may write on each key
    Assertable    \* the facts a producer may assert

ASSUME KeysJoinSymbols == \A k \in Keys : k.source \in Symbols /\ k.target \in Symbols
ASSUME SitesAreFiles   == \A e \in Contents : e.file \in Files \cup {NoSite}
ASSUME ExtractableAreRecords == Extractable \in [Symbols -> SUBSET NodeRecord]
ASSUME WritableAreContents   == Writable \in [Keys -> SUBSET Contents]
ASSUME AssertableAreFacts    == Assertable \subseteq Fact

vars == <<nodeVars, edgeVars>>

-----------------------------------------------------------------------------
\* A call names a symbol at most once for each file.
OneRecordPerFile(recs) == \A r, q \in recs : r.file = q.file => r = q

UpsertNode(s, r) ==
    /\ UpsertNodeTables([t \in Symbols |-> IF t = s THEN {r} ELSE {}])
    /\ UNCHANGED edgeVars

\* The indexer's write batch: it has removed every file it writes before.
WriteNodes(written, new) ==
    /\ \A s \in Symbols : /\ OneRecordPerFile(new[s])
                          /\ \A c \in nodeFiles[s] : c.file \notin written
    /\ WriteNodeTables(written, new)
    /\ UNCHANGED edgeVars

UpsertEdge(k, e) ==
    /\ UpsertEdgeTables(k, e)
    /\ UNCHANGED nodeVars

ReplaceEdgeSupports(o, g, F) ==
    /\ ReplaceEdgeTables(o, g, F)
    /\ UNCHANGED nodeVars

\* Mutant of Importers: an edge without a location makes '' a home.
ImportersUnlocated(s, f) ==
    {edges[k].file : k \in {q \in Keys : /\ q.target = s /\ edges[q] # NoRow
                                         /\ edges[q].file # f
                                         /\ q.source \notin Orphans(f)}}

\* The files whose edges still import symbol s once f and the nodes homed in
\* f are gone (step 1b's survivor predicate).
Importers(s, f) ==
    LET survives(k) == /\ k.target = s /\ edges[k] # NoRow
                       /\ edges[k].file \notin {NoSite, f}
                       /\ k.source \notin Orphans(f)
    IN {edges[k].file : k \in {q \in Keys : survives(q)}}

MinFile(F) == CHOOSE f \in F : \A g \in F : f <= g

RemoveFile(f) ==
    LET kept == {s \in Orphans(f) \cap ImportSymbols : Importers(s, f) # {}}
        home == [s \in kept |-> MinFile(Importers(s, f))]
        rows == {k \in Keys : /\ edges[k] # NoRow
                              /\ edges[k].file = f \/ k.source \in Orphans(f)}
        base == {k \in Keys : /\ edgeBase[k] # NoEdge
                              /\ edgeBase[k].file = f \/ k.source \in Orphans(f)}
    IN /\ RemoveFileNodeTables(f, kept, home)
       /\ DeleteEdgeTables(rows, base)

Dangling(k) == ~Live(k.source) \/ ~Live(k.target)

PruneDanglingEdges ==
    /\ DeleteEdgeTables({k \in Keys : edges[k] # NoRow /\ Dangling(k)},
                        {k \in Keys : edgeBase[k] # NoEdge /\ Dangling(k)})
    /\ UNCHANGED nodeVars

RemoveNodes(ids) ==
    /\ EraseNodeTables(ids)
    /\ EraseEdgeTables(ids)

-----------------------------------------------------------------------------
\* What the extraction of a set of files may yield.
Extractions(written) ==
    {x \in [symbol : Symbols, rec : NodeRecord] :
        x.rec \in Extractable[x.symbol] /\ x.rec.file \in written}

Init == NodeInit /\ EdgeInit

Next ==
    \/ \E s \in Symbols : \E r \in Extractable[s] : UpsertNode(s, r)
    \/ \E written \in SUBSET Files : \E recs \in SUBSET Extractions(written) :
          WriteNodes(written, [s \in Symbols |-> {x.rec : x \in {y \in recs : y.symbol = s}}])
    \/ \E k \in Keys : \E e \in Writable[k] : UpsertEdge(k, e)
    \/ \E o \in Owners, g \in 0..MaxGeneration, F \in SUBSET Assertable :
          ReplaceEdgeSupports(o, g, F)
    \/ \E f \in Files : RemoveFile(f)
    \/ PruneDanglingEdges
    \/ \E s \in Symbols : RemoveNodes({s})

Spec == Init /\ [][Next]_vars

-----------------------------------------------------------------------------
\* Every table holds rows of its type; in particular a node is never homed on
\* the empty path that an edge without a location carries.
TypeOK == NodeTypeOK /\ EdgeTypeOK

\* A file contributes at most one record to a symbol, so re-indexing replaces
\* what the file said before.
OneContribution == \A s \in Symbols : OneRecordPerFile(nodeFiles[s])

\* The derived-primary invariant (schema.sql, node_files): whatever order files
\* are written and removed in, a contributed symbol reads as its preferred
\* contribution, never as the last one written.
PrimaryIsPreferred ==
    \A s \in Symbols : nodeFiles[s] # {} => nodes[s] = Preferred(nodeFiles[s])

\* A row outlives its contributions only as a shared Import node kept for the
\* other importers (remove_file step 1b).
OnlyImportsOutliveTheirFiles ==
    \A s \in Symbols : Live(s) /\ nodeFiles[s] = {} => s \in ImportSymbols

\* Search mirrors the graph: every live symbol has exactly one nodes_fts row,
\* of the record it now shows; a symbol without a node has none.
SearchMirrorsNodes ==
    \A s \in Symbols : fts[s] = IF Live(s) THEN <<Doc(nodes[s])>> ELSE << >>

\* A removed file leaves nothing behind: no row, contribution, edge or kept
\* aside base contribution is located in it any more.
NothingLocatedIn(f) ==
    /\ \A s \in Symbols : ~(Live(s) /\ nodes[s].file = f)
    /\ \A s \in Symbols, c \in UNION {nodeFiles[t] : t \in Symbols} :
          c \in nodeFiles[s] => c.file # f
    /\ \A k \in Keys : edges[k] # NoRow => edges[k].file # f
    /\ \A k \in Keys : edgeBase[k] # NoEdge => edgeBase[k].file # f

\* Removing a file takes all that is its own and nothing else: a symbol another
\* file contributes stays live, and so does an Import node that another file's
\* surviving edge targets (remove_file steps 1a and 1b).
RemovalIsExact ==
    [][\A f \in Files : RemoveFile(f) =>
          /\ NothingLocatedIn(f)'
          /\ \A s \in Symbols : Live(s) /\ Survivors(s, f) # {} => Live(s)'
          /\ \A k \in Keys :
                /\ edges'[k] # NoRow /\ edges'[k].file # NoSite
                /\ k.target \in ImportSymbols
                /\ Live(k.target)
                => Live(k.target)']_vars

\* The public row of a supported key is the projection of its base
\* contribution and every owner's facts, and is owned by the base
\* contribution's file.
PublicIsProjection ==
    \A k \in Keys : Supported(k) => edges[k] = Reprojected(k, edgeBase[k], Facts(k))

\* A base contribution is kept aside for supported keys only; any other row is
\* the base plane's own edge, with no trace of earlier support.
BaseOnlyUnderSupport ==
    \A k \in Keys : ~Supported(k) =>
        /\ edgeBase[k] = NoEdge
        /\ edges[k] # NoRow => edges[k] = Reprojected(k, edges[k].edge, {})

\* prune_dangling_edges leaves a dangling edge only where a producer asserts it.
PruneLeavesOnlyAsserted ==
    [][PruneDanglingEdges =>
          \A k \in Keys : edges'[k] # NoRow /\ Dangling(k) => Supported(k)]_vars

\* The base plane is what a key without support shows, and what edge_base keeps
\* for one with support.
BasePlane ==
    [k \in Keys |-> IF Supported(k) THEN edgeBase[k]
                    ELSE IF edges[k] = NoRow THEN NoEdge ELSE edges[k].edge]

PublicEdges ==
    [k \in Keys |-> IF edges[k] = NoRow THEN NoEdge
                    ELSE [edge |-> edges[k].edge, rows |-> edges[k].rows]]

Contract == INSTANCE SupportContract
                WITH base <- BasePlane, facts <- supports, public <- PublicEdges

\* The tables implement the support contract: neither plane ever moves the
\* other's contributions, and readers see the projection of both.
ImplementsContract == Contract!Spec
=============================================================================
