------------------------------ MODULE EdgeTables ------------------------------
(***************************************************************************)
(* The edge side of SqliteStore: the tables edges, edge_base, edge_supports *)
(* and support_owners.  The base plane (upsert_edges, remove_file, prune)   *)
(* and the producers' support facts share one public row for each key       *)
(* (source, target, kind).  While a key has support the base plane's own    *)
(* contribution is kept aside in edge_base and the public row is projected  *)
(* from both.                                                               *)
(***************************************************************************)
EXTENDS Integers, SupportProjection

CONSTANTS
    Owners,         \* support owners: (producer, snapshot)
    FactIds,        \* the producers' opaque fact ids
    MaxGeneration,  \* MAX_SUPPORT_GENERATION
    NoRow           \* no edges row

NoGeneration == -1

EdgeRow == [edge : Contents, rows : SUBSET Contents, file : SiteFiles]
Fact    == [key : Keys, id : FactIds, edge : Contents]
Support == [owner : Owners, key : Keys, id : FactIds, edge : Contents]

ASSUME NoRowIsNoRow == NoRow \notin EdgeRow
ASSUME GenerationsAreNat == MaxGeneration \in Nat

VARIABLES
    edges,        \* edges: the public row of each key, or NoRow
    edgeBase,     \* edge_base: the base contribution kept aside, or NoEdge
    supports,     \* edge_supports: every owner's facts
    generations   \* support_owners: the generation of each owner

edgeVars == <<edges, edgeBase, supports, generations>>

-----------------------------------------------------------------------------
FactsIn(S, k) == {s.edge : s \in {t \in S : t.key = k}}
Facts(k)      == FactsIn(supports, k)
Supported(k)  == \E s \in supports : s.key = k

SiteOf(e) == IF e = NoEdge THEN NoSite ELSE e.file

\* reproject: the row of key k with base contribution b and facts F.  It is
\* owned by the base contribution's file, never by a fact's site.
Reprojected(k, b, F) ==
    IF b = NoEdge /\ F = {} THEN NoRow
    ELSE LET p == Project(k, b, F)
         IN [edge |-> p.edge, rows |-> p.rows, file |-> SiteOf(b)]

\* ... which also drops the base contribution of a key without facts.
BaseAfter(b, F) == IF F = {} THEN NoEdge ELSE b

-----------------------------------------------------------------------------
\* upsert_edges for one edge e on key k.
UpsertEdgeTables(k, e) ==
    /\ IF Supported(k)
       THEN IF BaseWins(edgeBase[k], e)
            THEN /\ edgeBase' = [edgeBase EXCEPT ![k] = e]
                 /\ edges' = [edges EXCEPT ![k] = Reprojected(k, e, Facts(k))]
            ELSE UNCHANGED <<edges, edgeBase>>
       ELSE /\ edges' = IF edges[k] = NoRow \/ BaseWins(edges[k].edge, e)
                        THEN [edges EXCEPT ![k] = Reprojected(k, e, {})]
                        ELSE edges
            /\ UNCHANGED edgeBase
    /\ UNCHANGED <<supports, generations>>

\* The deletion of the rows of edges in D and of edge_base in R, by one
\* predicate on both tables: support_pre_delete, DELETE, support_post_delete.
DeleteEdgeTables(D, R) ==
    LET retired == IF supports = {} THEN {} ELSE R
        base    == [k \in Keys |-> IF k \in retired THEN NoEdge ELSE edgeBase[k]]
        heal    == {k \in D : Supported(k)} \cup retired
    IN /\ edges' = [k \in Keys |->
                       CASE k \in heal     -> Reprojected(k, base[k], Facts(k))
                         [] k \in D \ heal -> NoRow
                         [] OTHER          -> edges[k]]
       /\ edgeBase' = [k \in Keys |-> IF k \in heal THEN BaseAfter(base[k], Facts(k))
                                      ELSE base[k]]
       /\ UNCHANGED <<supports, generations>>

\* replace_edge_supports(owner, generation, facts).  normalize_facts refuses
\* two contents under one id, plan_replacement a stale or conflicting
\* generation; a refusal and the replay of a generation change nothing.
IdsAreUnique(F) == \A a, b \in F : a.key = b.key /\ a.id = b.id => a = b

Owned(o, F) == {[owner |-> o, key |-> f.key, id |-> f.id, edge |-> f.edge] : f \in F}
FactsOf(o)  == {f \in Fact : [owner |-> o, key |-> f.key, id |-> f.id, edge |-> f.edge]
                                \in supports}

\* Mutant of Accepted: a generation may be applied twice, with other facts.
AcceptedAgain(o, g, F) == IdsAreUnique(F) /\ g <= MaxGeneration /\ g >= generations[o]

Accepted(o, g, F) ==
    /\ IdsAreUnique(F)
    /\ g <= MaxGeneration
    /\ g > generations[o]

ReplaceEdgeTables(o, g, F) ==
    LET touched == {f.key : f \in (FactsOf(o) \ F) \cup (F \ FactsOf(o))}
        base    == [k \in Keys |->
                       IF k \in touched /\ ~Supported(k)
                       THEN IF edges[k] = NoRow THEN NoEdge ELSE edges[k].edge
                       ELSE edgeBase[k]]
        after   == {s \in supports : s.owner # o} \cup Owned(o, F)
    IN /\ Accepted(o, g, F)
       /\ supports' = after
       /\ generations' = [generations EXCEPT ![o] = g]
       /\ edges' = [k \in Keys |-> IF k \in touched
                                   THEN Reprojected(k, base[k], FactsIn(after, k))
                                   ELSE edges[k]]
       /\ edgeBase' = [k \in Keys |-> IF k \in touched
                                      THEN BaseAfter(base[k], FactsIn(after, k))
                                      ELSE base[k]]

\* remove_nodes: erasure is total, support included; the owners keep their
\* generation.
Incident(ids) == {k \in Keys : k.source \in ids \/ k.target \in ids}

\* Mutant of EraseEdgeTables: erasure leaves the facts on the erased keys.
EraseEdgeTablesKeepsFacts(ids) ==
    /\ edges' = [k \in Keys |-> IF k \in Incident(ids) THEN NoRow ELSE edges[k]]
    /\ edgeBase' = [k \in Keys |-> IF k \in Incident(ids) THEN NoEdge ELSE edgeBase[k]]
    /\ UNCHANGED <<supports, generations>>

EraseEdgeTables(ids) ==
    /\ edges' = [k \in Keys |-> IF k \in Incident(ids) THEN NoRow ELSE edges[k]]
    /\ edgeBase' = [k \in Keys |-> IF k \in Incident(ids) THEN NoEdge ELSE edgeBase[k]]
    /\ supports' = {s \in supports : s.key \notin Incident(ids)}
    /\ UNCHANGED generations

EdgeInit ==
    /\ edges = [k \in Keys |-> NoRow]
    /\ edgeBase = [k \in Keys |-> NoEdge]
    /\ supports = {}
    /\ generations = [o \in Owners |-> NoGeneration]

EdgeTypeOK ==
    /\ edges \in [Keys -> EdgeRow \cup {NoRow}]
    /\ edgeBase \in [Keys -> Contents \cup {NoEdge}]
    /\ supports \in SUBSET Support
    /\ generations \in [Owners -> {NoGeneration} \cup 0..MaxGeneration]
=============================================================================
