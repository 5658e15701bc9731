--------------------------- MODULE GraphStoreProofs ---------------------------
(***************************************************************************)
(* GraphStore keeps its tables consistent for every choice of symbols,      *)
(* files, contents and owners.  The invariant is the conjunction of one on  *)
(* the node tables and one on the edge tables; each operation preserves the *)
(* half it writes.  The projection rules come first: contents are strictly  *)
(* and totally ordered, so any non-empty set of them has a representative.  *)
(***************************************************************************)
EXTENDS GraphStore, FiniteSetTheorems, WellFoundedInduction, TLAPS

NodeInv == NodeTypeOK /\ OneContribution /\ PrimaryIsPreferred

EdgeInv == EdgeTypeOK /\ PublicIsProjection /\ BaseOnlyUnderSupport

StoreInv == NodeInv /\ EdgeInv

-----------------------------------------------------------------------------
(* The projection rules. *)

\* A strict total order has a greatest element on every finite non-empty set:
\* one with the fewest elements above it has none above it.
LEMMA GreatestExists ==
    ASSUME NEW S, IsFiniteSet(S), S # {}, NEW R,
           \A a, b \in S : a # b => <<a, b>> \in R \/ <<b, a>> \in R,
           \A a \in S : <<a, a>> \notin R,
           \A a, b, c \in S : <<a, b>> \in R /\ <<b, c>> \in R => <<a, c>> \in R
    PROVE  \E a \in S : \A b \in S \ {a} : <<a, b>> \in R
<1> DEFINE Above(a) == {b \in S : <<b, a>> \in R}
           T == {Above(a) : a \in S}
<1>1. T \subseteq FiniteSubsetsOf(S) /\ T # {}
  <2>1. \A a \in S : Above(a) \subseteq S
    OBVIOUS
  <2>2. \A a \in S : IsFiniteSet(Above(a))
    BY <2>1, FS_Subset
  <2>3. \A a \in S : Above(a) \in FiniteSubsetsOf(S)
    BY <2>1, <2>2 DEF FiniteSubsetsOf
  <2> HIDE DEF Above
  <2>. QED BY <2>3
<1>2. PICK U \in T : \A V \in T : <<V, U>> \notin StrictSubsetOrdering(S)
  BY <1>1, FS_StrictSubsetOrderingWellFounded, WFMin
<1>3. PICK a \in S : U = Above(a)
  BY <1>2
<1>4. ASSUME NEW b \in S, <<b, a>> \in R
      PROVE  FALSE
  <2>1. Above(b) \subseteq Above(a) /\ Above(b) # Above(a)
    BY <1>4
  <2>2. <<Above(b), Above(a)>> \in StrictSubsetOrdering(S)
    BY <2>1 DEF StrictSubsetOrdering
  <2>. QED BY <1>2, <1>3, <2>2
<1>5. \A b \in S \ {a} : <<a, b>> \in R
  BY <1>4
<1>. QED BY <1>5

\* The ranking of contents on a key is a strict total order.
LEMMA OutranksIsTotalOrder ==
    ASSUME NEW k \in Keys
    PROVE  /\ \A a, b \in Contents : a # b => Outranks(k, a, b) \/ Outranks(k, b, a)
           /\ \A a \in Contents : ~Outranks(k, a, a)
           /\ \A a, b, c \in Contents : Outranks(k, a, b) /\ Outranks(k, b, c)
                                           => Outranks(k, a, c)
  BY ContentsAreRanked, FactKeysAreCanonical DEF Outranks

\* Every non-empty set of contents has its representative among its members,
\* and it outranks every other one.
THEOREM RepresentativeExists ==
    ASSUME NEW k \in Keys, NEW S \in SUBSET Contents, S # {}
    PROVE  /\ Representative(k, S) \in S
           /\ \A b \in S \ {Representative(k, S)} : Outranks(k, Representative(k, S), b)
<1> DEFINE R == {p \in Contents \X Contents : Outranks(k, p[1], p[2])}
<1>1. \A a, b \in Contents : <<a, b>> \in R <=> Outranks(k, a, b)
  OBVIOUS
<1>2. IsFiniteSet(S)
  BY ContentsAreFinite, FS_Subset
<1>3. \E a \in S : \A b \in S \ {a} : <<a, b>> \in R
  <2> HIDE DEF R
  <2>1. \A a, b \in S : a # b => <<a, b>> \in R \/ <<b, a>> \in R
    BY <1>1, OutranksIsTotalOrder
  <2>2. \A a \in S : <<a, a>> \notin R
    BY <1>1, OutranksIsTotalOrder
  <2>3. \A a, b, c \in S : <<a, b>> \in R /\ <<b, c>> \in R => <<a, c>> \in R
    BY <1>1, OutranksIsTotalOrder
  <2>. QED BY <1>2, <2>1, <2>2, <2>3, GreatestExists, SMTT(30)
<1>4. \E a \in S : \A b \in S \ {a} : Outranks(k, a, b)
  BY <1>1, <1>3
<1>. QED BY <1>4 DEF Representative

\* A projection shows contents that were contributed to its key.
THEOREM ProjectionIsTyped ==
    ASSUME NEW k \in Keys, NEW b \in Contents \cup {NoEdge}, NEW F \in SUBSET Contents,
           b # NoEdge \/ F # {}
    PROVE  /\ Project(k, b, F).edge \in F \cup ({b} \ {NoEdge})
           /\ Project(k, b, F).rows \subseteq F \cup ({b} \ {NoEdge})
<1> DEFINE all == F \cup ({b} \ {NoEdge})
<1>1. all \in SUBSET Contents
  OBVIOUS
<1>2. CASE F = {}
  BY <1>2 DEF Project
<1>3. CASE F # {}
  BY <1>1, <1>3, RepresentativeExists DEF Project
<1>. QED BY <1>2, <1>3

-----------------------------------------------------------------------------
(* The node tables. *)

LEMMA SmallestExists ==
    ASSUME NEW T \in SUBSET Nat, T # {}
    PROVE  \E m \in T : \A n \in T : m <= n
<1>1. PICK m \in T : \A n \in T : <<n, m>> \notin OpToRel(<, Nat)
  BY NatLessThanWellFounded, WFMin
<1>2. \A n \in T : ~(n < m)
  BY <1>1 DEF OpToRel
<1>. QED BY <1>2

LEMMA MinFileExists ==
    ASSUME NEW F \in SUBSET Files, F # {}
    PROVE  MinFile(F) \in F
  BY SmallestExists, FilesAreRanked DEF MinFile

LEMMA RecordFields ==
    ASSUME NEW c \in NodeRecord
    PROVE  c.file \in Files /\ c.file \in Nat /\ c.isDef \in {0, 1}
  BY FilesAreRanked DEF NodeRecord

\* The preferred contribution of a symbol is one of its contributions, and
\* preferable to every other one.
LEMMA PreferredExists ==
    ASSUME NEW C \in SUBSET NodeRecord, C # {}, OneRecordPerFile(C)
    PROVE  /\ Preferred(C) \in C
           /\ \A d \in C \ {Preferred(C)} : Preferable(Preferred(C), d)
<1> DEFINE D == IF \E c \in C : c.isDef = 1 THEN {c \in C : c.isDef = 1} ELSE C
           F == {c.file : c \in D}
<1>1. D \subseteq C /\ D # {}
  OBVIOUS
<1>2. F \in SUBSET Nat /\ F # {}
  <2>1. \A c \in C : c.file \in Nat
    BY RecordFields
  <2> HIDE DEF D
  <2>. QED BY <1>1, <2>1
<1>3. PICK m \in F : \A n \in F : m <= n
  <2> HIDE DEF F
  <2>. QED BY <1>2, SmallestExists
<1>4. PICK c \in D : c.file = m
  BY <1>3
<1>5. \A d \in C \ {c} : Preferable(c, d)
  <2> SUFFICES ASSUME NEW d \in C \ {c} PROVE Preferable(c, d)
    OBVIOUS
  <2>1. c \in NodeRecord /\ d \in NodeRecord /\ c.file # d.file
    BY <1>1, <1>4 DEF OneRecordPerFile
  <2>2. CASE d \in D
    BY <1>2, <1>3, <1>4, <2>1, <2>2, FilesAreRanked, SMTT(30) DEF Preferable, NodeRecord
  <2>3. CASE d \notin D
    BY <1>4, <2>1, <2>3 DEF Preferable, NodeRecord
  <2>. QED BY <2>2, <2>3
<1>6. \E a \in C : \A d \in C \ {a} : Preferable(a, d)
  BY <1>1, <1>4, <1>5
<1> HIDE DEF D, F
<1>. QED BY <1>6 DEF Preferred

\* Dropping contributions other than the preferred one leaves it preferred.
LEMMA PreferredOfSubset ==
    ASSUME NEW C \in SUBSET NodeRecord, C # {}, OneRecordPerFile(C),
           NEW S \in SUBSET C, Preferred(C) \in S
    PROVE  Preferred(S) = Preferred(C)
<1>1. OneRecordPerFile(S)
  BY DEF OneRecordPerFile
<1>2. Preferred(S) \in S /\ \A d \in S \ {Preferred(S)} : Preferable(Preferred(S), d)
  BY <1>1, PreferredExists
<1>3. \A d \in C \ {Preferred(C)} : Preferable(Preferred(C), d)
  BY PreferredExists
<1>4. ASSUME NEW c \in NodeRecord, NEW d \in NodeRecord, Preferable(c, d)
      PROVE  ~Preferable(d, c)
  BY <1>4, RecordFields DEF Preferable
<1>5. Preferred(C) \in NodeRecord /\ Preferred(S) \in NodeRecord
  BY <1>2
<1>. QED BY <1>2, <1>3, <1>4, <1>5

-----------------------------------------------------------------------------
LEMMA ContributeKeepsOne ==
    ASSUME NEW s \in Symbols, NodeTypeOK, OneContribution,
           NEW recs \in SUBSET NodeRecord, OneRecordPerFile(recs)
    PROVE  /\ Contribute(s, recs) \in SUBSET NodeRecord
           /\ OneRecordPerFile(Contribute(s, recs))
<1>1. nodeFiles[s] \in SUBSET NodeRecord /\ OneRecordPerFile(nodeFiles[s])
  BY DEF OneContribution, NodeTypeOK
<1>2. Contribute(s, recs) \in SUBSET NodeRecord
  BY <1>1 DEF Contribute
<1>3. ASSUME NEW r \in Contribute(s, recs), NEW q \in Contribute(s, recs), r.file = q.file
      PROVE  r = q
  BY <1>1, <1>3 DEF Contribute, OneRecordPerFile
<1>. QED BY <1>2, <1>3 DEF OneRecordPerFile

\* The node half of an upsert, whatever it does to the search table.
LEMMA UpsertRowsPreserves ==
    ASSUME NodeInv,
           NEW new \in [Symbols -> SUBSET NodeRecord],
           \A s \in Symbols : OneRecordPerFile(new[s]),
           UpsertRows(new)
    PROVE  /\ nodeFiles' \in [Symbols -> SUBSET NodeRecord]
           /\ nodes' \in [Symbols -> NodeRecord \cup {NoNode}]
           /\ hadNode' \in SUBSET Symbols
           /\ gen' \in [Symbols -> 0..MaxEpoch]
           /\ OneContribution'
           /\ PrimaryIsPreferred'
           /\ \A s \in Symbols : new[s] # {} => nodes'[s] \in NodeRecord
<1> USE DEF NodeInv
<1>1. \A s \in Symbols : /\ Contribute(s, new[s]) \in SUBSET NodeRecord
                         /\ OneRecordPerFile(Contribute(s, new[s]))
  BY ContributeKeepsOne
<1>2. nodeFiles' \in [Symbols -> SUBSET NodeRecord] /\ OneContribution'
  BY <1>1 DEF UpsertRows, OneContribution
<1>3. \A s \in Symbols : new[s] # {} => /\ nodes'[s] = Preferred(nodeFiles'[s])
                                        /\ nodes'[s] \in NodeRecord
  <2> SUFFICES ASSUME NEW s \in Symbols, new[s] # {}
               PROVE  nodes'[s] = Preferred(nodeFiles'[s]) /\ nodes'[s] \in NodeRecord
    OBVIOUS
  <2>1. nodes'[s] = Preferred(Contribute(s, new[s]))
    BY DEF UpsertRows
  <2>2. nodeFiles'[s] = Contribute(s, new[s])
    BY DEF UpsertRows
  <2>3. Contribute(s, new[s]) # {}
    BY DEF Contribute
  <2>. QED BY <1>1, <2>1, <2>2, <2>3, PreferredExists
<1>4. nodes' \in [Symbols -> NodeRecord \cup {NoNode}]
  BY <1>3 DEF UpsertRows, NodeTypeOK
<1>5. \A s \in Symbols : new[s] = {} => nodeFiles'[s] = nodeFiles[s] /\ nodes'[s] = nodes[s]
  BY DEF UpsertRows, Contribute, NodeTypeOK
<1>6. PrimaryIsPreferred'
  BY <1>3, <1>5 DEF PrimaryIsPreferred
<1>7. hadNode' \in SUBSET Symbols
  BY DEF UpsertRows, NodeTypeOK
<1>8. gen' \in [Symbols -> 0..MaxEpoch]
  <2>1. \A s \in Symbols : gen[s] \in 0..MaxEpoch
    BY DEF NodeTypeOK
  <2>2. \A s \in Symbols : gen'[s] \in 0..MaxEpoch
    BY <2>1, EpochBound DEF UpsertRows
  <2>3. gen' = [s \in Symbols |-> gen'[s]]
    BY DEF UpsertRows
  <2>. QED BY <2>2, <2>3
<1>. QED BY <1>2, <1>3, <1>4, <1>6, <1>7, <1>8

LEMMA DocIsTyped ==
    ASSUME NEW row \in NodeRecord
    PROVE  <<Doc(row)>> \in Seq([isDef : {0, 1}, rev : Revs])
  BY DEF Doc, NodeRecord

LEMMA UpsertNodeTablesPreserves ==
    ASSUME NodeInv,
           NEW new \in [Symbols -> SUBSET NodeRecord],
           \A s \in Symbols : OneRecordPerFile(new[s]),
           UpsertNodeTables(new)
    PROVE  NodeInv'
<1>1. UpsertRows(new)
  BY DEF UpsertNodeTables
<1>2. fts' \in [Symbols -> Seq([isDef : {0, 1}, rev : Revs])]
  BY <1>1, UpsertRowsPreserves, DocIsTyped DEF UpsertNodeTables, NodeInv, NodeTypeOK
<1>. QED BY <1>1, <1>2, UpsertRowsPreserves DEF NodeInv, NodeTypeOK

LEMMA WriteNodeTablesPreserves ==
    ASSUME NodeInv, NEW written,
           NEW new \in [Symbols -> SUBSET NodeRecord],
           \A s \in Symbols : OneRecordPerFile(new[s]),
           WriteNodeTables(written, new)
    PROVE  NodeInv'
<1>1. UpsertRows(new)
  BY DEF WriteNodeTables
<1>2. fts' \in [Symbols -> Seq([isDef : {0, 1}, rev : Revs])]
  BY <1>1, UpsertRowsPreserves, DocIsTyped DEF WriteNodeTables, NodeInv, NodeTypeOK
<1>. QED BY <1>1, <1>2, UpsertRowsPreserves DEF NodeInv, NodeTypeOK

LEMMA RemoveFileNodeTablesPreserves ==
    ASSUME NodeInv, NEW f \in Files,
           NEW kept \in SUBSET Orphans(f), NEW home \in [kept -> Files],
           RemoveFileNodeTables(f, kept, home)
    PROVE  NodeInv'
<1> USE DEF NodeInv
<1>1. nodeFiles' \in [Symbols -> SUBSET NodeRecord] /\ OneContribution'
  BY DEF RemoveFileNodeTables, Survivors, NodeTypeOK, OneContribution, OneRecordPerFile
<1>2. \A s \in Rehomed(f) : Preferred(Survivors(s, f)) \in NodeRecord
  <2> SUFFICES ASSUME NEW s \in Rehomed(f)
               PROVE  Preferred(Survivors(s, f)) \in NodeRecord
    OBVIOUS
  <2>1. /\ Survivors(s, f) \in SUBSET NodeRecord
        /\ Survivors(s, f) # {}
        /\ OneRecordPerFile(Survivors(s, f))
    BY DEF Rehomed, HomedIn, Survivors, NodeTypeOK, OneContribution, OneRecordPerFile
  <2>. QED BY <2>1, PreferredExists
<1>3. \A s \in kept : [nodes[s] EXCEPT !.file = home[s]] \in NodeRecord
  BY DEF Orphans, HomedIn, Live, NodeTypeOK, NodeRecord
<1>4. nodes' \in [Symbols -> NodeRecord \cup {NoNode}]
  BY <1>2, <1>3 DEF RemoveFileNodeTables, NodeTypeOK
<1>5. fts' \in [Symbols -> Seq([isDef : {0, 1}, rev : Revs])]
  <2>1. \A s \in Rehomed(f) :
            <<Doc(Preferred(Survivors(s, f)))>> \in Seq([isDef : {0, 1}, rev : Revs])
    BY <1>2, DocIsTyped
  <2>2. << >> \in Seq([isDef : {0, 1}, rev : Revs])
    OBVIOUS
  <2>. QED BY <2>1, <2>2 DEF RemoveFileNodeTables, NodeTypeOK
<1>6. PrimaryIsPreferred'
  <2> SUFFICES ASSUME NEW s \in Symbols, nodeFiles'[s] # {}
               PROVE  nodes'[s] = Preferred(nodeFiles'[s])
    BY DEF PrimaryIsPreferred
  <2>1. nodeFiles'[s] = Survivors(s, f) /\ Survivors(s, f) # {}
    BY DEF RemoveFileNodeTables
  <2>2. CASE s \in Rehomed(f)
    <3>1. nodes'[s] = Preferred(Survivors(s, f))
      BY <2>2 DEF RemoveFileNodeTables, Orphans
    <3>. QED BY <2>1, <3>1
  <2>3. CASE s \notin Rehomed(f)
    <3>1. s \notin HomedIn(f)
      BY <2>1, <2>3 DEF Rehomed
    <3>2. nodes'[s] = nodes[s]
      BY <2>3, <3>1 DEF RemoveFileNodeTables, Orphans
    <3>3. nodeFiles[s] # {} /\ nodes[s] = Preferred(nodeFiles[s])
      BY <2>1 DEF Survivors, PrimaryIsPreferred
    <3>4. Preferred(nodeFiles[s]) \in nodeFiles[s] /\ nodes[s] \in NodeRecord
      <4>1. nodeFiles[s] \in SUBSET NodeRecord /\ OneRecordPerFile(nodeFiles[s])
        BY DEF NodeTypeOK, OneContribution
      <4>. QED BY <3>3, <4>1, PreferredExists
    <3>5. nodes[s] \in Survivors(s, f)
      BY <3>1, <3>3, <3>4, NoNodeIsNoRecord DEF HomedIn, Live, Survivors
    <3>6. nodeFiles[s] \in SUBSET NodeRecord /\ OneRecordPerFile(nodeFiles[s])
      BY DEF NodeTypeOK, OneContribution
    <3>7. Survivors(s, f) \in SUBSET nodeFiles[s]
      BY DEF Survivors
    <3>8. Preferred(Survivors(s, f)) = Preferred(nodeFiles[s])
      BY <3>3, <3>5, <3>6, <3>7, PreferredOfSubset
    <3>. QED BY <2>1, <3>2, <3>3, <3>8
  <2>. QED BY <2>2, <2>3
<1>. QED BY <1>1, <1>4, <1>5, <1>6 DEF RemoveFileNodeTables, NodeTypeOK

LEMMA EraseNodeTablesPreserves ==
    ASSUME NodeInv, NEW ids, EraseNodeTables(ids)
    PROVE  NodeInv'
<1>1. NodeTypeOK'
  <2>1. << >> \in Seq([isDef : {0, 1}, rev : Revs])
    OBVIOUS
  <2>. QED BY <2>1 DEF NodeInv, NodeTypeOK, EraseNodeTables
<1>2. OneContribution'
  BY DEF NodeInv, NodeTypeOK, EraseNodeTables, OneContribution, OneRecordPerFile
<1>3. PrimaryIsPreferred'
  BY DEF NodeInv, NodeTypeOK, EraseNodeTables, PrimaryIsPreferred
<1>. QED BY <1>1, <1>2, <1>3 DEF NodeInv

-----------------------------------------------------------------------------
\* A reprojected row is a row of the table, or none.
LEMMA ReprojectedIsTyped ==
    ASSUME NEW k \in Keys, NEW b \in Contents \cup {NoEdge}, NEW F \in SUBSET Contents
    PROVE  Reprojected(k, b, F) \in EdgeRow \cup {NoRow}
<1>1. CASE b = NoEdge /\ F = {}
  <2>1. Reprojected(k, b, F) = NoRow
    BY <1>1, Zenon DEF Reprojected
  <2>. QED BY <2>1
<1>2. CASE b # NoEdge \/ F # {}
  <2>1. Project(k, b, F).edge \in Contents /\ Project(k, b, F).rows \in SUBSET Contents
    <3>1. /\ Project(k, b, F).edge \in F \cup ({b} \ {NoEdge})
          /\ Project(k, b, F).rows \subseteq F \cup ({b} \ {NoEdge})
      BY <1>2, ProjectionIsTyped, Zenon
    <3>2. F \cup ({b} \ {NoEdge}) \subseteq Contents
      OBVIOUS
    <3>. QED BY <3>1, <3>2
  <2>2. SiteOf(b) \in SiteFiles
    BY DEF SiteOf, SiteFiles
  <2>. QED BY <1>2, <2>1, <2>2 DEF Reprojected, EdgeRow
<1>. QED BY <1>1, <1>2

LEMMA FactsAreContents ==
    ASSUME NEW S \in SUBSET Support, NEW k \in Keys
    PROVE  /\ FactsIn(S, k) \in SUBSET Contents
           /\ FactsIn(S, k) = {} <=> \A s \in S : s.key # k
  BY DEF FactsIn, Support

\* A base contribution shown by itself.
LEMMA PlainRow ==
    ASSUME NEW k \in Keys, NEW e \in Contents
    PROVE  Reprojected(k, e, {}) = [edge |-> e, rows |-> {}, file |-> e.file]
  BY NoEdgeIsNoContent DEF Reprojected, Project, SiteOf

\* The edge invariant, key by key.
KeyInv(k, row, b, S) ==
    /\ row \in EdgeRow \cup {NoRow}
    /\ b \in Contents \cup {NoEdge}
    /\ FactsIn(S, k) # {} => row = Reprojected(k, b, FactsIn(S, k))
    /\ FactsIn(S, k) = {} => /\ b = NoEdge
                             /\ row # NoRow => row = Reprojected(k, row.edge, {})

LEMMA EdgeInvByKey ==
    ASSUME edges \in [Keys -> EdgeRow \cup {NoRow}],
           edgeBase \in [Keys -> Contents \cup {NoEdge}],
           supports \in SUBSET Support,
           generations \in [Owners -> {NoGeneration} \cup 0..MaxGeneration]
    PROVE  EdgeInv <=> \A k \in Keys : KeyInv(k, edges[k], edgeBase[k], supports)
<1>1. \A k \in Keys : Supported(k) <=> FactsIn(supports, k) # {}
  BY FactsAreContents DEF Supported
<1>. QED BY <1>1 DEF EdgeInv, EdgeTypeOK, PublicIsProjection, BaseOnlyUnderSupport, KeyInv, Facts

LEMMA ReprojectedKeyInv ==
    ASSUME NEW k \in Keys, NEW b \in Contents \cup {NoEdge}, NEW S \in SUBSET Support
    PROVE  KeyInv(k, Reprojected(k, b, FactsIn(S, k)), BaseAfter(b, FactsIn(S, k)), S)
<1>1. Reprojected(k, b, FactsIn(S, k)) \in EdgeRow \cup {NoRow}
  BY FactsAreContents, ReprojectedIsTyped
<1>2. CASE FactsIn(S, k) # {}
  BY <1>1, <1>2 DEF KeyInv, BaseAfter
<1>3. CASE FactsIn(S, k) = {}
  <2>1. CASE b = NoEdge
    BY <1>1, <1>3, <2>1 DEF KeyInv, BaseAfter, Reprojected
  <2>2. CASE b \in Contents
    BY <1>1, <1>3, <2>2, PlainRow DEF KeyInv, BaseAfter
  <2>. QED BY <2>1, <2>2
<1>. QED BY <1>2, <1>3

LEMMA EdgeInvByKeyNext ==
    ASSUME supports' \in SUBSET Support,
           generations' \in [Owners -> {NoGeneration} \cup 0..MaxGeneration],
           edges' = [k \in Keys |-> edges'[k]],
           edgeBase' = [k \in Keys |-> edgeBase'[k]],
           \A k \in Keys : KeyInv(k, edges'[k], edgeBase'[k], supports')
    PROVE  EdgeInv'
<1>1. \A k \in Keys : Supported(k)' <=> FactsIn(supports', k) # {}
  BY FactsAreContents DEF Supported
<1>2. edges' \in [Keys -> EdgeRow \cup {NoRow}] /\ edgeBase' \in [Keys -> Contents \cup {NoEdge}]
  BY DEF KeyInv
<1>. QED
  BY <1>1, <1>2 DEF EdgeInv, EdgeTypeOK, PublicIsProjection, BaseOnlyUnderSupport, KeyInv, Facts

LEMMA EdgeInvParts ==
    ASSUME EdgeInv
    PROVE  /\ edges \in [Keys -> EdgeRow \cup {NoRow}]
           /\ edgeBase \in [Keys -> Contents \cup {NoEdge}]
           /\ supports \in SUBSET Support
           /\ generations \in [Owners -> {NoGeneration} \cup 0..MaxGeneration]
           /\ \A k \in Keys : KeyInv(k, edges[k], edgeBase[k], supports)
           /\ \A k \in Keys : Supported(k) <=> Facts(k) # {}
<1>1. EdgeTypeOK
  BY DEF EdgeInv
<1>2. \A k \in Keys : Supported(k) <=> Facts(k) # {}
  BY <1>1, FactsAreContents DEF Supported, Facts, EdgeTypeOK
<1>. QED BY <1>1, <1>2, EdgeInvByKey DEF EdgeTypeOK

LEMMA UpsertEdgeTablesPreserves ==
    ASSUME EdgeInv, NEW k \in Keys, NEW e \in Contents, UpsertEdgeTables(k, e)
    PROVE  EdgeInv'
<1>1. supports' = supports /\ generations' = generations
  BY DEF UpsertEdgeTables
<1>2. \A q \in Keys \ {k} : edges'[q] = edges[q] /\ edgeBase'[q] = edgeBase[q]
  BY EdgeInvParts DEF UpsertEdgeTables
<1>3. edges' = [q \in Keys |-> edges'[q]] /\ edgeBase' = [q \in Keys |-> edgeBase'[q]]
  BY EdgeInvParts DEF UpsertEdgeTables
<1>4. KeyInv(k, edges'[k], edgeBase'[k], supports)
  <2>1. CASE edges'[k] = edges[k] /\ edgeBase'[k] = edgeBase[k]
    BY <2>1, EdgeInvParts
  <2>2. CASE Supported(k) /\ edges'[k] = Reprojected(k, e, Facts(k)) /\ edgeBase'[k] = e
    BY <2>2, EdgeInvParts, ReprojectedKeyInv DEF BaseAfter, Facts
  <2>3. CASE ~Supported(k) /\ edges'[k] = Reprojected(k, e, {}) /\ edgeBase'[k] = edgeBase[k]
    <3>1. FactsIn(supports, k) = {} /\ edgeBase[k] = NoEdge
      BY <2>3, EdgeInvParts DEF KeyInv, Facts
    <3>. QED BY <2>3, <3>1, EdgeInvParts, ReprojectedKeyInv DEF BaseAfter
  <2>. QED BY <2>1, <2>2, <2>3, EdgeInvParts DEF UpsertEdgeTables
<1>5. \A q \in Keys : KeyInv(q, edges'[q], edgeBase'[q], supports')
  BY <1>1, <1>2, <1>4, EdgeInvParts
<1>. QED BY <1>1, <1>3, <1>5, EdgeInvParts, EdgeInvByKeyNext

LEMMA DeleteEdgeTablesPreserves ==
    ASSUME EdgeInv, NEW D \in SUBSET Keys, NEW R \in SUBSET Keys, DeleteEdgeTables(D, R)
    PROVE  EdgeInv'
<1> DEFINE retired == IF supports = {} THEN {} ELSE R
           base(k) == IF k \in retired THEN NoEdge ELSE edgeBase[k]
           heal    == {k \in D : Supported(k)} \cup retired
<1>1. supports' = supports /\ generations' = generations
  BY DEF DeleteEdgeTables
<1>2. edges' = [k \in Keys |-> CASE k \in heal -> Reprojected(k, base(k), Facts(k))
                                 [] k \in D \ heal -> NoRow
                                 [] OTHER -> edges[k]]
  BY DEF DeleteEdgeTables
<1>3. edgeBase' = [k \in Keys |-> IF k \in heal THEN BaseAfter(base(k), Facts(k)) ELSE base(k)]
  BY DEF DeleteEdgeTables
<1>4. ASSUME NEW k \in Keys
      PROVE  KeyInv(k, edges'[k], edgeBase'[k], supports)
  <2>1. base(k) \in Contents \cup {NoEdge}
    BY EdgeInvParts
  <2>2. CASE k \in heal
    <3> HIDE DEF base, heal, retired
    <3>1. edges'[k] = Reprojected(k, base(k), Facts(k))
          /\ edgeBase'[k] = BaseAfter(base(k), Facts(k))
      BY <1>2, <1>3, <2>2
    <3>. QED BY <2>1, <3>1, EdgeInvParts, ReprojectedKeyInv DEF Facts
  <2>3. CASE k \notin heal /\ k \in D
    <3>1. FactsIn(supports, k) = {} /\ edgeBase[k] = NoEdge
      BY <2>3, EdgeInvParts DEF KeyInv, Facts
    <3>2. edges'[k] = NoRow /\ edgeBase'[k] = NoEdge
      BY <1>2, <1>3, <2>3, <3>1
    <3>. QED BY <3>1, <3>2 DEF KeyInv
  <2>4. CASE k \notin heal /\ k \notin D
    <3>1. edges'[k] = edges[k] /\ edgeBase'[k] = edgeBase[k]
      BY <1>2, <1>3, <2>4
    <3>. QED BY <3>1, EdgeInvParts
  <2>. QED BY <2>2, <2>3, <2>4
<1>5. edges' = [k \in Keys |-> edges'[k]] /\ edgeBase' = [k \in Keys |-> edgeBase'[k]]
  <2> HIDE DEF base, heal
  <2>. QED BY <1>2, <1>3
<1>. QED BY <1>1, <1>4, <1>5, EdgeInvParts, EdgeInvByKeyNext

\* A replacement moves facts on the touched keys only: those the new fact set
\* adds to the owner's or drops from it.
LEMMA UntouchedFacts ==
    ASSUME EdgeInv, NEW o \in Owners, NEW F \in SUBSET Fact, NEW k \in Keys,
           k \notin {f.key : f \in (FactsOf(o) \ F) \cup (F \ FactsOf(o))}
    PROVE  FactsIn({s \in supports : s.owner # o} \cup Owned(o, F), k) = FactsIn(supports, k)
<1> DEFINE after == {s \in supports : s.owner # o} \cup Owned(o, F)
<1>1. ASSUME NEW s \in supports, s.key = k, s.owner = o
      PROVE  s \in Owned(o, F)
  <2> DEFINE f == [key |-> s.key, id |-> s.id, edge |-> s.edge]
  <2>1. s \in Support
    BY EdgeInvParts
  <2>2. f \in Fact /\ s = [owner |-> o, key |-> f.key, id |-> f.id, edge |-> f.edge]
    BY <1>1, <2>1 DEF Support, Fact
  <2>3. f \in FactsOf(o)
    BY <2>2 DEF FactsOf
  <2>4. f \in F
    BY <1>1, <2>3
  <2>. QED BY <2>2, <2>4 DEF Owned
<1>2. ASSUME NEW s \in Owned(o, F), s.key = k
      PROVE  s \in supports
  <2>1. PICK f \in F : s = [owner |-> o, key |-> f.key, id |-> f.id, edge |-> f.edge]
    BY DEF Owned
  <2>2. f.key = k
    BY <1>2, <2>1
  <2>3. f \in FactsOf(o)
    BY <2>2
  <2>. QED BY <2>1, <2>3 DEF FactsOf
<1>3. \A s : s.key = k => (s \in after <=> s \in supports)
  <2> SUFFICES ASSUME NEW s, s.key = k PROVE s \in after <=> s \in supports
    OBVIOUS
  <2>1. CASE s.owner = o
    BY <1>1, <1>2, <2>1
  <2>2. CASE s.owner # o
    BY <2>2 DEF Owned
  <2>. QED BY <2>1, <2>2
<1> HIDE DEF after
<1>4. FactsIn(after, k) = FactsIn(supports, k)
  BY <1>3 DEF FactsIn
<1>. QED BY <1>4 DEF after

LEMMA ReplaceEdgeTablesPreserves ==
    ASSUME EdgeInv, NEW o \in Owners, NEW g \in 0..MaxGeneration, NEW F \in SUBSET Fact,
           ReplaceEdgeTables(o, g, F)
    PROVE  EdgeInv'
<1> DEFINE touched == {f.key : f \in (FactsOf(o) \ F) \cup (F \ FactsOf(o))}
           base(k) == IF k \in touched /\ ~Supported(k)
                      THEN IF edges[k] = NoRow THEN NoEdge ELSE edges[k].edge
                      ELSE edgeBase[k]
           after   == {s \in supports : s.owner # o} \cup Owned(o, F)
<1>1. supports' = after /\ generations' = [generations EXCEPT ![o] = g]
  BY DEF ReplaceEdgeTables
<1>2. edges' = [k \in Keys |-> IF k \in touched THEN Reprojected(k, base(k), FactsIn(after, k))
                               ELSE edges[k]]
  BY DEF ReplaceEdgeTables
<1>3. edgeBase' = [k \in Keys |-> IF k \in touched THEN BaseAfter(base(k), FactsIn(after, k))
                                  ELSE base(k)]
  BY DEF ReplaceEdgeTables
<1>4. after \in SUBSET Support
  BY EdgeInvParts DEF Owned, Fact, Support
<1>5. \A k \in Keys \ touched : FactsIn(after, k) = FactsIn(supports, k)
  BY UntouchedFacts
<1>6. ASSUME NEW k \in Keys
      PROVE  KeyInv(k, edges'[k], edgeBase'[k], after)
  <2> HIDE DEF touched, after
  <2>1. base(k) \in Contents \cup {NoEdge}
    BY EdgeInvParts DEF EdgeRow
  <2>2. CASE k \in touched
    <3> HIDE DEF base
    <3>1. edges'[k] = Reprojected(k, base(k), FactsIn(after, k))
          /\ edgeBase'[k] = BaseAfter(base(k), FactsIn(after, k))
      BY <1>2, <1>3, <2>2
    <3>. QED BY <1>4, <2>1, <3>1, ReprojectedKeyInv
  <2>3. CASE k \notin touched
    <3>1. edges'[k] = edges[k] /\ edgeBase'[k] = edgeBase[k]
      BY <1>2, <1>3, <2>3
    <3>. QED BY <1>5, <2>3, <3>1, EdgeInvParts DEF KeyInv
  <2>. QED BY <2>2, <2>3
<1>7. edges' = [k \in Keys |-> edges'[k]] /\ edgeBase' = [k \in Keys |-> edgeBase'[k]]
  <2> HIDE DEF base, touched, after
  <2>. QED BY <1>2, <1>3
<1>8. generations' \in [Owners -> {NoGeneration} \cup 0..MaxGeneration]
  BY <1>1, EdgeInvParts
<1> HIDE DEF after, base, touched
<1>. QED BY <1>1, <1>4, <1>6, <1>7, <1>8, EdgeInvByKeyNext

LEMMA EraseEdgeTablesPreserves ==
    ASSUME EdgeInv, NEW ids, EraseEdgeTables(ids)
    PROVE  EdgeInv'
<1>1. supports' \in SUBSET Support /\ generations' = generations
  BY EdgeInvParts DEF EraseEdgeTables
<1>2. edges' = [k \in Keys |-> edges'[k]] /\ edgeBase' = [k \in Keys |-> edgeBase'[k]]
  BY DEF EraseEdgeTables
<1>3. ASSUME NEW k \in Keys
      PROVE  KeyInv(k, edges'[k], edgeBase'[k], supports')
  <2>1. CASE k \in Incident(ids)
    <3>1. edges'[k] = NoRow /\ edgeBase'[k] = NoEdge
      BY <2>1 DEF EraseEdgeTables
    <3>2. FactsIn(supports', k) = {}
      BY <2>1 DEF EraseEdgeTables, FactsIn
    <3>. QED BY <3>1, <3>2 DEF KeyInv
  <2>2. CASE k \notin Incident(ids)
    <3>1. edges'[k] = edges[k] /\ edgeBase'[k] = edgeBase[k]
      BY <2>2 DEF EraseEdgeTables
    <3>2. FactsIn(supports', k) = FactsIn(supports, k)
      BY <2>2 DEF EraseEdgeTables, FactsIn
    <3>. QED BY <3>1, <3>2, EdgeInvParts DEF KeyInv
  <2>. QED BY <2>1, <2>2
<1>. QED BY <1>1, <1>2, <1>3, EdgeInvParts, EdgeInvByKeyNext

-----------------------------------------------------------------------------
(* The operations as a whole. *)

\* An importer's file is a file: the sites of edges are files or NoSite.
LEMMA ImportersAreFiles ==
    ASSUME EdgeInv, NEW s \in Symbols, NEW f \in Files
    PROVE  Importers(s, f) \in SUBSET (Files \ {f})
<1>1. \A k \in Keys : edges[k] # NoRow => edges[k].file \in Files \cup {NoSite}
  BY EdgeInvParts, SitesAreFiles DEF EdgeRow, SiteFiles
<1>. QED BY <1>1 DEF Importers

LEMMA RemoveFileParts ==
    ASSUME EdgeInv, NEW f \in Files, RemoveFile(f)
    PROVE  \E kept \in SUBSET Orphans(f) : \E home \in [kept -> Files \ {f}] :
           \E D, R \in SUBSET Keys :
              /\ kept \subseteq ImportSymbols
              /\ D = {k \in Keys : /\ edges[k] # NoRow
                                   /\ edges[k].file = f \/ k.source \in Orphans(f)}
              /\ R = {k \in Keys : /\ edgeBase[k] # NoEdge
                                   /\ edgeBase[k].file = f \/ k.source \in Orphans(f)}
              /\ RemoveFileNodeTables(f, kept, home)
              /\ DeleteEdgeTables(D, R)
<1> DEFINE kept == {s \in Orphans(f) \cap ImportSymbols : Importers(s, f) # {}}
           home == [s \in kept |-> MinFile(Importers(s, f))]
           D == {k \in Keys : /\ edges[k] # NoRow
                              /\ edges[k].file = f \/ k.source \in Orphans(f)}
           R == {k \in Keys : /\ edgeBase[k] # NoEdge
                              /\ edgeBase[k].file = f \/ k.source \in Orphans(f)}
<1>1. \A s \in kept : MinFile(Importers(s, f)) \in Files \ {f}
  <2> SUFFICES ASSUME NEW s \in kept PROVE MinFile(Importers(s, f)) \in Files \ {f}
    OBVIOUS
  <2>1. Importers(s, f) \in SUBSET (Files \ {f}) /\ Importers(s, f) # {}
    BY ImportersAreFiles DEF Orphans, HomedIn
  <2>. QED BY <2>1, MinFileExists
<1>2. kept \in SUBSET Orphans(f) /\ kept \subseteq ImportSymbols
  OBVIOUS
<1>3. home \in [kept -> Files \ {f}]
  BY <1>1
<1>4. RemoveFileNodeTables(f, kept, home) /\ DeleteEdgeTables(D, R)
  BY DEF RemoveFile
<1>5. D \in SUBSET Keys /\ R \in SUBSET Keys
  OBVIOUS
<1> HIDE DEF kept, home
<1>. QED BY <1>2, <1>3, <1>4, <1>5

LEMMA UnchangedTables ==
    /\ NodeInv /\ UNCHANGED nodeVars => NodeInv'
    /\ EdgeInv /\ UNCHANGED edgeVars => EdgeInv'
<1>1. ASSUME NodeInv, UNCHANGED nodeVars PROVE NodeInv'
  <2>1. nodeFiles' = nodeFiles /\ nodes' = nodes /\ fts' = fts /\ hadNode' = hadNode /\ gen' = gen
    BY <1>1 DEF nodeVars
  <2>. QED BY <1>1, <2>1 DEF NodeInv, NodeTypeOK, OneContribution, PrimaryIsPreferred
<1>2. ASSUME EdgeInv, UNCHANGED edgeVars PROVE EdgeInv'
  BY <1>2 DEF edgeVars, EdgeInv, EdgeTypeOK, PublicIsProjection, BaseOnlyUnderSupport, Supported, Facts
<1>. QED BY <1>1, <1>2

LEMMA InitEstablishes == Init => StoreInv
<1> SUFFICES ASSUME Init PROVE StoreInv
  OBVIOUS
<1> USE DEF Init
<1>1. NodeTypeOK
  <2>1. << >> \in Seq([isDef : {0, 1}, rev : Revs])
    OBVIOUS
  <2>. QED BY <2>1, EpochBound DEF NodeInit, NodeTypeOK
<1>2. OneContribution /\ PrimaryIsPreferred
  BY DEF NodeInit, OneContribution, OneRecordPerFile, PrimaryIsPreferred
<1>3. EdgeTypeOK
  BY DEF EdgeInit, EdgeTypeOK
<1>4. PublicIsProjection /\ BaseOnlyUnderSupport
  BY DEF EdgeInit, PublicIsProjection, BaseOnlyUnderSupport, Supported
<1>. QED BY <1>1, <1>2, <1>3, <1>4 DEF StoreInv, NodeInv, EdgeInv

\* The records a write batch puts on each symbol.
RecordsOf(recs) == [s \in Symbols |-> {x.rec : x \in {y \in recs : y.symbol = s}}]

LEMMA RecordsAreTyped ==
    ASSUME NEW written \in SUBSET Files, NEW recs \in SUBSET Extractions(written)
    PROVE  /\ RecordsOf(recs) \in [Symbols -> SUBSET NodeRecord]
           /\ \A s \in Symbols, r \in UNION {RecordsOf(recs)[t] : t \in Symbols} :
                 r \in RecordsOf(recs)[s] => r.file \in written
  BY DEF RecordsOf, Extractions

LEMMA NextPreserves == StoreInv /\ [Next]_vars => StoreInv'
<1> SUFFICES ASSUME StoreInv, [Next]_vars PROVE StoreInv'
  OBVIOUS
<1> USE DEF StoreInv
<1>1. CASE UNCHANGED vars
  BY <1>1, UnchangedTables DEF vars
<1>2. ASSUME NEW s \in Symbols, NEW r \in Extractable[s], UpsertNode(s, r)
      PROVE  StoreInv'
  <2> DEFINE new == [t \in Symbols |-> IF t = s THEN {r} ELSE {}]
  <2>1. new \in [Symbols -> SUBSET NodeRecord] /\ \A t \in Symbols : OneRecordPerFile(new[t])
    BY ExtractableAreRecords DEF OneRecordPerFile
  <2>2. UpsertNodeTables(new) /\ UNCHANGED edgeVars
    BY <1>2 DEF UpsertNode
  <2> HIDE DEF new
  <2>. QED BY <2>1, <2>2, UpsertNodeTablesPreserves, UnchangedTables
<1>3. ASSUME NEW written \in SUBSET Files, NEW recs \in SUBSET Extractions(written),
             WriteNodes(written, RecordsOf(recs))
      PROVE  StoreInv'
  BY <1>3, RecordsAreTyped, WriteNodeTablesPreserves, UnchangedTables DEF WriteNodes
<1>4. ASSUME NEW k \in Keys, NEW e \in Writable[k], UpsertEdge(k, e)
      PROVE  StoreInv'
  BY <1>4, WritableAreContents, UpsertEdgeTablesPreserves, UnchangedTables DEF UpsertEdge
<1>5. ASSUME NEW o \in Owners, NEW g \in 0..MaxGeneration, NEW F \in SUBSET Assertable,
             ReplaceEdgeSupports(o, g, F)
      PROVE  StoreInv'
  BY <1>5, AssertableAreFacts, ReplaceEdgeTablesPreserves, UnchangedTables DEF ReplaceEdgeSupports
<1>6. ASSUME NEW f \in Files, RemoveFile(f)
      PROVE  StoreInv'
  <2>1. PICK kept \in SUBSET Orphans(f) : \E home \in [kept -> Files \ {f}] :
             \E D, R \in SUBSET Keys :
                RemoveFileNodeTables(f, kept, home) /\ DeleteEdgeTables(D, R)
    BY <1>6, RemoveFileParts
  <2>2. PICK home \in [kept -> Files \ {f}] : \E D, R \in SUBSET Keys :
                RemoveFileNodeTables(f, kept, home) /\ DeleteEdgeTables(D, R)
    BY <2>1
  <2>3. home \in [kept -> Files]
    OBVIOUS
  <2>. QED BY <2>2, <2>3, RemoveFileNodeTablesPreserves, DeleteEdgeTablesPreserves
<1>7. CASE PruneDanglingEdges
  <2>1. {k \in Keys : edges[k] # NoRow /\ Dangling(k)} \in SUBSET Keys
        /\ {k \in Keys : edgeBase[k] # NoEdge /\ Dangling(k)} \in SUBSET Keys
    OBVIOUS
  <2>. QED BY <1>7, <2>1, DeleteEdgeTablesPreserves, UnchangedTables DEF PruneDanglingEdges
<1>8. ASSUME NEW s \in Symbols, RemoveNodes({s})
      PROVE  StoreInv'
  BY <1>8, EraseNodeTablesPreserves, EraseEdgeTablesPreserves DEF RemoveNodes
<1>. QED BY <1>1, <1>2, <1>3, <1>4, <1>5, <1>6, <1>7, <1>8 DEF Next, RecordsOf

\* In every reachable state of the store, whatever is indexed, asserted,
\* removed or erased in whatever order, all tables hold well-formed rows.
THEOREM TypeCorrect == Spec => []TypeOK
<1>1. StoreInv => TypeOK
  BY DEF StoreInv, NodeInv, EdgeInv, TypeOK
<1>. QED BY <1>1, InitEstablishes, NextPreserves, PTL DEF Spec

\* A contributed symbol always reads as its preferred contribution: the row
\* upsert_nodes and remove_file maintain never depends on the order in which
\* files were written and removed.
THEOREM PrimaryStaysPreferred == Spec => []PrimaryIsPreferred
<1>1. StoreInv => PrimaryIsPreferred
  BY DEF StoreInv, NodeInv
<1>. QED BY <1>1, InitEstablishes, NextPreserves, PTL DEF Spec

\* The public row of a supported key is always the projection of its base
\* contribution and every owner's facts, and a key without support keeps no
\* trace of any: what reproject and replace_edge_supports promise.
THEOREM PublicStaysProjection == Spec => [](PublicIsProjection /\ BaseOnlyUnderSupport)
<1>1. StoreInv => PublicIsProjection /\ BaseOnlyUnderSupport
  BY DEF StoreInv, EdgeInv
<1>. QED BY <1>1, InitEstablishes, NextPreserves, PTL DEF Spec

-----------------------------------------------------------------------------
(* The search table follows the nodes table.                                *)

\* The row a write batch leaves untouched in nodes_fts is the row the symbol
\* still shows: a symbol the batch names keeps its preferred contribution when
\* that one is not of a written file.
LEMMA UnwrittenKeepsRow ==
    ASSUME NodeInv, NEW written,
           NEW new \in [Symbols -> SUBSET NodeRecord],
           WriteNodes(written, new),
           NEW s \in Symbols,
           \A r \in new[s] : r.file \in written,
           ~(nodes'[s] # NoNode /\ nodes'[s].file \in written)
    PROVE  nodes'[s] = nodes[s]
<1> USE DEF NodeInv
<1>1. CASE new[s] = {}
  BY <1>1 DEF WriteNodes, WriteNodeTables, UpsertRows
<1>2. CASE new[s] # {}
  <2> DEFINE C == Contribute(s, new[s])
  <2>1. OneRecordPerFile(new[s]) /\ \A c \in nodeFiles[s] : c.file \notin written
    BY DEF WriteNodes
  <2>2. nodes'[s] = Preferred(C)
    BY <1>2 DEF WriteNodes, WriteNodeTables, UpsertRows
  <2>3. C \in SUBSET NodeRecord /\ OneRecordPerFile(C) /\ C # {}
    <3>1. C # {}
      BY <1>2 DEF Contribute
    <3>. QED BY <2>1, <3>1, ContributeKeepsOne
  <2>4. Preferred(C) \in C
    BY <2>3, PreferredExists
  <2>5. Preferred(C).file \notin written
    BY <2>2, <2>3, <2>4, NoNodeIsNoRecord
  <2>6. Preferred(C) \in nodeFiles[s]
    BY <2>4, <2>5 DEF Contribute
  <2>7. nodeFiles[s] \in SUBSET C
    BY <2>1 DEF Contribute
  <2>8. Preferred(nodeFiles[s]) = Preferred(C)
    <3> HIDE DEF C
    <3>. QED BY <2>3, <2>6, <2>7, PreferredOfSubset
  <2>9. nodes[s] = Preferred(nodeFiles[s])
    BY <2>6 DEF PrimaryIsPreferred
  <2>. QED BY <2>2, <2>8, <2>9
<1>. QED BY <1>1, <1>2

LEMMA UpsertNodeMirrors ==
    ASSUME NodeInv, SearchMirrorsNodes,
           NEW new \in [Symbols -> SUBSET NodeRecord],
           \A s \in Symbols : OneRecordPerFile(new[s]),
           UpsertNodeTables(new)
    PROVE  SearchMirrorsNodes'
<1>1. UpsertRows(new)
  BY DEF UpsertNodeTables
<1>2. \A s \in Symbols : new[s] # {} => nodes'[s] # NoNode
  BY <1>1, UpsertRowsPreserves, NoNodeIsNoRecord
<1>3. \A s \in Symbols : fts'[s] = IF new[s] = {} THEN fts[s] ELSE <<Doc(nodes'[s])>>
  BY DEF UpsertNodeTables
<1>4. \A s \in Symbols : new[s] = {} => nodes'[s] = nodes[s]
  BY <1>1 DEF UpsertRows
<1>. QED BY <1>2, <1>3, <1>4 DEF SearchMirrorsNodes, Live

LEMMA WriteNodesMirrors ==
    ASSUME NodeInv, SearchMirrorsNodes, NEW written,
           NEW new \in [Symbols -> SUBSET NodeRecord],
           \A s \in Symbols : \A r \in new[s] : r.file \in written,
           WriteNodes(written, new)
    PROVE  SearchMirrorsNodes'
<1>1. \A s \in Symbols : fts'[s] = IF nodes'[s] # NoNode /\ nodes'[s].file \in written
                                   THEN <<Doc(nodes'[s])>> ELSE fts[s]
  BY DEF WriteNodes, WriteNodeTables
<1>2. \A s \in Symbols : ~(nodes'[s] # NoNode /\ nodes'[s].file \in written)
                            => nodes'[s] = nodes[s]
  BY UnwrittenKeepsRow
<1>. QED BY <1>1, <1>2 DEF SearchMirrorsNodes, Live

LEMMA RemoveFileMirrors ==
    ASSUME NodeInv, SearchMirrorsNodes, NEW f \in Files,
           NEW kept \in SUBSET Orphans(f), NEW home \in [kept -> Files],
           RemoveFileNodeTables(f, kept, home)
    PROVE  SearchMirrorsNodes'
<1> USE DEF NodeInv
<1> SUFFICES ASSUME NEW s \in Symbols
             PROVE  fts'[s] = IF nodes'[s] # NoNode THEN <<Doc(nodes'[s])>> ELSE << >>
  BY DEF SearchMirrorsNodes, Live
<1>1. Rehomed(f) \cap Orphans(f) = {}
  BY DEF Orphans
<1>2. CASE s \in Rehomed(f)
  <2>1. nodes'[s] = Preferred(Survivors(s, f)) /\ fts'[s] = <<Doc(Preferred(Survivors(s, f)))>>
    BY <1>1, <1>2 DEF RemoveFileNodeTables
  <2>2. /\ Survivors(s, f) \in SUBSET NodeRecord
        /\ Survivors(s, f) # {}
        /\ OneRecordPerFile(Survivors(s, f))
    BY <1>2 DEF Rehomed, HomedIn, Survivors, NodeTypeOK, OneContribution, OneRecordPerFile
  <2>3. Preferred(Survivors(s, f)) # NoNode
    BY <2>2, PreferredExists, NoNodeIsNoRecord
  <2>. QED BY <2>1, <2>3
<1>3. CASE s \in kept
  <2>1. nodes'[s] = [nodes[s] EXCEPT !.file = home[s]] /\ fts'[s] = fts[s]
    BY <1>1, <1>3 DEF RemoveFileNodeTables
  <2>2. nodes[s] # NoNode /\ nodes[s] \in NodeRecord
    BY <1>3 DEF Orphans, HomedIn, Live, NodeTypeOK
  <2>3. nodes'[s] \in NodeRecord /\ nodes'[s].isDef = nodes[s].isDef /\ nodes'[s].rev = nodes[s].rev
    BY <1>3, <2>1, <2>2 DEF NodeRecord
  <2>. QED BY <2>1, <2>2, <2>3, NoNodeIsNoRecord DEF SearchMirrorsNodes, Live, Doc
<1>4. CASE s \in Orphans(f) \ kept
  <2>1. nodes'[s] = NoNode /\ fts'[s] = << >>
    BY <1>1, <1>4 DEF RemoveFileNodeTables
  <2>. QED BY <2>1
<1>5. CASE s \notin Rehomed(f) /\ s \notin Orphans(f)
  <2>1. nodes'[s] = nodes[s] /\ fts'[s] = fts[s]
    BY <1>5 DEF RemoveFileNodeTables
  <2>. QED BY <2>1 DEF SearchMirrorsNodes, Live
<1>. QED BY <1>2, <1>3, <1>4, <1>5

\* Only the operations on nodes touch the two tables, and each keeps them in
\* step.
LEMMA NextMirrors == StoreInv /\ SearchMirrorsNodes /\ [Next]_vars => SearchMirrorsNodes'
<1> SUFFICES ASSUME StoreInv, SearchMirrorsNodes, [Next]_vars PROVE SearchMirrorsNodes'
  OBVIOUS
<1> USE DEF StoreInv
<1>1. ASSUME UNCHANGED nodeVars PROVE SearchMirrorsNodes'
  BY <1>1 DEF nodeVars, SearchMirrorsNodes, Live
<1>2. ASSUME NEW s \in Symbols, NEW r \in Extractable[s], UpsertNode(s, r)
      PROVE  SearchMirrorsNodes'
  <2> DEFINE new == [t \in Symbols |-> IF t = s THEN {r} ELSE {}]
  <2>1. new \in [Symbols -> SUBSET NodeRecord] /\ \A t \in Symbols : OneRecordPerFile(new[t])
    BY ExtractableAreRecords DEF OneRecordPerFile
  <2>2. UpsertNodeTables(new)
    BY <1>2 DEF UpsertNode
  <2> HIDE DEF new
  <2>. QED BY <2>1, <2>2, UpsertNodeMirrors
<1>3. ASSUME NEW written \in SUBSET Files, NEW recs \in SUBSET Extractions(written),
             WriteNodes(written, RecordsOf(recs))
      PROVE  SearchMirrorsNodes'
  <2>1. RecordsOf(recs) \in [Symbols -> SUBSET NodeRecord]
    BY RecordsAreTyped
  <2>2. \A s \in Symbols : \A r \in RecordsOf(recs)[s] : r.file \in written
    BY RecordsAreTyped
  <2>. QED BY <1>3, <2>1, <2>2, WriteNodesMirrors
<1>4. ASSUME NEW f \in Files, RemoveFile(f)
      PROVE  SearchMirrorsNodes'
  <2>1. PICK kept \in SUBSET Orphans(f) : \E home \in [kept -> Files \ {f}] :
             RemoveFileNodeTables(f, kept, home)
    BY <1>4, RemoveFileParts
  <2>2. PICK home \in [kept -> Files \ {f}] : RemoveFileNodeTables(f, kept, home)
    BY <2>1
  <2>3. home \in [kept -> Files]
    OBVIOUS
  <2>. QED BY <2>2, <2>3, RemoveFileMirrors
<1>5. ASSUME NEW s \in Symbols, RemoveNodes({s})
      PROVE  SearchMirrorsNodes'
  BY <1>5 DEF RemoveNodes, EraseNodeTables, SearchMirrorsNodes, Live, NodeInv, NodeTypeOK
<1>6. \/ UNCHANGED nodeVars
      \/ \E s \in Symbols : \E r \in Extractable[s] : UpsertNode(s, r)
      \/ \E written \in SUBSET Files : \E recs \in SUBSET Extractions(written) :
            WriteNodes(written, RecordsOf(recs))
      \/ \E f \in Files : RemoveFile(f)
      \/ \E s \in Symbols : RemoveNodes({s})
  BY DEF Next, vars, RecordsOf, UpsertEdge, ReplaceEdgeSupports, PruneDanglingEdges
<1>. QED BY <1>1, <1>2, <1>3, <1>4, <1>5, <1>6

\* Full-text search always mirrors the graph: every live symbol has exactly one
\* nodes_fts row, of the record it now shows, whether rows are kept one by one
\* (upsert_nodes), rebuilt for the written files only
\* (bulk_rebuild_fts_for_files), re-homed or erased.
THEOREM SearchStaysMirrored == Spec => []SearchMirrorsNodes
<1>1. Init => SearchMirrorsNodes
  BY DEF Init, NodeInit, SearchMirrorsNodes, Live
<1>2. StoreInv /\ SearchMirrorsNodes /\ [Next]_vars => (StoreInv /\ SearchMirrorsNodes)'
  BY NextPreserves, NextMirrors
<1>. QED BY <1>1, <1>2, InitEstablishes, PTL DEF Spec

-----------------------------------------------------------------------------
(* What removing a file does.                                               *)

LEMMA RemoveFileKeepsImports ==
    ASSUME NodeInv, OnlyImportsOutliveTheirFiles, NEW f \in Files,
           NEW kept \in SUBSET (Orphans(f) \cap ImportSymbols), NEW home,
           RemoveFileNodeTables(f, kept, home)
    PROVE  OnlyImportsOutliveTheirFiles'
<1> USE DEF NodeInv
<1> SUFFICES ASSUME NEW s \in Symbols, nodes'[s] # NoNode, nodeFiles'[s] = {}, s \notin kept
             PROVE  s \in ImportSymbols
  BY DEF OnlyImportsOutliveTheirFiles, Live
<1>1. nodeFiles'[s] = Survivors(s, f)
  BY DEF RemoveFileNodeTables
<1>2. s \notin Rehomed(f)
  BY <1>1 DEF Rehomed
<1>3. s \notin Orphans(f)
  BY <1>2 DEF RemoveFileNodeTables
<1>4. nodes'[s] = nodes[s] /\ s \notin HomedIn(f)
  BY <1>2, <1>3 DEF RemoveFileNodeTables, Orphans
<1>5. CASE nodeFiles[s] = {}
  BY <1>4, <1>5 DEF OnlyImportsOutliveTheirFiles, Live
<1>6. CASE nodeFiles[s] # {}
  <2>1. nodeFiles[s] \in SUBSET NodeRecord /\ OneRecordPerFile(nodeFiles[s])
    BY DEF NodeTypeOK, OneContribution
  <2>2. nodes[s] \in nodeFiles[s]
    BY <1>6, <2>1, PreferredExists DEF PrimaryIsPreferred
  <2>3. nodes[s].file # f
    BY <1>4 DEF HomedIn, Live
  <2>. QED BY <1>1, <2>2, <2>3 DEF Survivors
<1>. QED BY <1>5, <1>6

LEMMA NextKeepsImports ==
    StoreInv /\ OnlyImportsOutliveTheirFiles /\ [Next]_vars => OnlyImportsOutliveTheirFiles'
<1> SUFFICES ASSUME StoreInv, OnlyImportsOutliveTheirFiles, [Next]_vars
             PROVE  OnlyImportsOutliveTheirFiles'
  OBVIOUS
<1> USE DEF StoreInv
<1>1. ASSUME UNCHANGED nodeVars PROVE OnlyImportsOutliveTheirFiles'
  BY <1>1 DEF nodeVars, OnlyImportsOutliveTheirFiles, Live
<1>2. ASSUME NEW new, UpsertRows(new)
      PROVE  OnlyImportsOutliveTheirFiles'
  <2> SUFFICES ASSUME NEW s \in Symbols, nodes'[s] # NoNode, nodeFiles'[s] = {}
               PROVE  s \in ImportSymbols
    BY DEF OnlyImportsOutliveTheirFiles, Live
  <2>1. nodeFiles'[s] = Contribute(s, new[s])
    BY <1>2 DEF UpsertRows
  <2>2. new[s] = {} /\ nodeFiles[s] = {}
    BY <2>1 DEF Contribute
  <2>3. nodes'[s] = nodes[s]
    BY <1>2, <2>2 DEF UpsertRows
  <2>. QED BY <2>2, <2>3 DEF OnlyImportsOutliveTheirFiles, Live
<1>3. ASSUME NEW f \in Files, RemoveFile(f)
      PROVE  OnlyImportsOutliveTheirFiles'
  BY <1>3, RemoveFileKeepsImports DEF RemoveFile, NodeInv
<1>4. ASSUME NEW s \in Symbols, RemoveNodes({s})
      PROVE  OnlyImportsOutliveTheirFiles'
  BY <1>4 DEF RemoveNodes, EraseNodeTables, OnlyImportsOutliveTheirFiles, Live, NodeInv, NodeTypeOK
<1>5. \/ UNCHANGED nodeVars
      \/ \E new : UpsertRows(new)
      \/ \E f \in Files : RemoveFile(f)
      \/ \E s \in Symbols : RemoveNodes({s})
  BY DEF Next, vars, UpsertNode, UpsertNodeTables, WriteNodes, WriteNodeTables, UpsertEdge,
         ReplaceEdgeSupports, PruneDanglingEdges
<1>. QED BY <1>1, <1>2, <1>3, <1>4, <1>5

\* A nodes row without a contribution behind it is always a shared Import node
\* that remove_file's step 1b kept: no other node outlives its files.
THEOREM OnlyImportsOutlive == Spec => []OnlyImportsOutliveTheirFiles
<1>1. Init => OnlyImportsOutliveTheirFiles
  BY DEF Init, NodeInit, OnlyImportsOutliveTheirFiles, Live
<1>2. StoreInv /\ OnlyImportsOutliveTheirFiles /\ [Next]_vars
         => (StoreInv /\ OnlyImportsOutliveTheirFiles)'
  BY NextPreserves, NextKeepsImports
<1>. QED BY <1>1, <1>2, InitEstablishes, PTL DEF Spec

\* The row of a supported key lies where its base contribution does.
LEMMA SupportedRowSite ==
    ASSUME EdgeInv, NEW k \in Keys, Supported(k)
    PROVE  edges[k] \in EdgeRow /\ edges[k].file = SiteOf(edgeBase[k])
<1>1. Facts(k) # {} /\ edges[k] = Reprojected(k, edgeBase[k], Facts(k))
  BY EdgeInvParts DEF PublicIsProjection, EdgeInv
<1>2. edges[k].file = SiteOf(edgeBase[k])
  BY <1>1 DEF Reprojected
<1>3. Facts(k) \in SUBSET Contents
  BY EdgeInvParts, FactsAreContents DEF Facts
<1>4. Reprojected(k, edgeBase[k], Facts(k)) \in EdgeRow
  <2>1. edgeBase[k] \in Contents \cup {NoEdge}
    BY EdgeInvParts
  <2>2. Project(k, edgeBase[k], Facts(k)).edge \in Contents
        /\ Project(k, edgeBase[k], Facts(k)).rows \in SUBSET Contents
    BY <1>1, <1>3, <2>1, ProjectionIsTyped
  <2>3. SiteOf(edgeBase[k]) \in SiteFiles
    BY <2>1 DEF SiteOf, SiteFiles
  <2>. QED BY <1>1, <2>2, <2>3 DEF Reprojected, EdgeRow
<1>. QED BY <1>1, <1>2, <1>4

\* Of the edges, the removal of f spares what is located elsewhere and whose
\* source survives: a located row that is there afterwards is one that was
\* there before, and so is a base contribution.
LEMMA RemoveFileEdges ==
    ASSUME EdgeInv, NEW f \in Files, RemoveFile(f), NEW k \in Keys
    PROVE  /\ edges'[k] # NoRow /\ edges'[k].file # NoSite
                 => edges'[k] = edges[k] /\ edges[k].file # f /\ k.source \notin Orphans(f)
           /\ edgeBase'[k] # NoEdge
                 => edgeBase'[k] = edgeBase[k] /\ edgeBase[k].file # f
<1> DEFINE D == {q \in Keys : /\ edges[q] # NoRow
                              /\ edges[q].file = f \/ q.source \in Orphans(f)}
           R == {q \in Keys : /\ edgeBase[q] # NoEdge
                              /\ edgeBase[q].file = f \/ q.source \in Orphans(f)}
           retired == IF supports = {} THEN {} ELSE R
           base(q) == IF q \in retired THEN NoEdge ELSE edgeBase[q]
           heal    == {q \in D : Supported(q)} \cup retired
<1>1. edges'[k] = CASE k \in heal     -> Reprojected(k, base(k), Facts(k))
                    [] k \in D \ heal -> NoRow
                    [] OTHER          -> edges[k]
  BY DEF RemoveFile, DeleteEdgeTables
<1>2. edgeBase'[k] = IF k \in heal THEN BaseAfter(base(k), Facts(k)) ELSE base(k)
  BY DEF RemoveFile, DeleteEdgeTables
<1>3. ASSUME edgeBase[k] # NoEdge
      PROVE  Supported(k) /\ supports # {} /\ edges[k] # NoRow /\ edges[k].file = edgeBase[k].file
  <2>1. Supported(k)
    BY <1>3 DEF EdgeInv, BaseOnlyUnderSupport
  <2>. QED BY <1>3, <2>1, SupportedRowSite, NoRowIsNoRow DEF Supported, SiteOf
<1>4. k \in R => k \in retired /\ base(k) = NoEdge
  BY <1>3
<1>5. base(k) # NoEdge => k \notin R /\ base(k) = edgeBase[k] /\ edgeBase[k].file # f
  <2>1. ASSUME base(k) # NoEdge
        PROVE  k \notin R /\ base(k) = edgeBase[k]
    BY <1>4, <2>1
  <2>. QED BY <2>1
<1>6. k \in heal => base(k) = NoEdge
  <2>1. CASE k \in retired
    BY <2>1
  <2>2. CASE k \in D /\ k \notin retired /\ edgeBase[k] # NoEdge
    <3>1. k \in R
      BY <1>3, <2>2
    <3>. QED BY <1>4, <3>1
  <2>3. CASE k \notin retired /\ edgeBase[k] = NoEdge
    BY <2>3
  <2>. QED BY <2>1, <2>2, <2>3
<1>7. ASSUME edges'[k] # NoRow, edges'[k].file # NoSite
      PROVE  edges'[k] = edges[k] /\ edges[k].file # f /\ k.source \notin Orphans(f)
  <2>1. k \notin heal
    <3> SUFFICES ASSUME k \in heal PROVE FALSE
      OBVIOUS
    <3>1. edges'[k] = Reprojected(k, NoEdge, Facts(k))
      <4> HIDE DEF heal, base
      <4>. QED BY <1>1, <1>6
    <3>. QED BY <1>7, <3>1 DEF Reprojected, SiteOf
  <2>2. k \notin D /\ edges'[k] = edges[k]
    <3> HIDE DEF heal, D
    <3>. QED BY <1>1, <1>7, <2>1
  <2>. QED BY <1>7, <2>2
<1>8. ASSUME edgeBase'[k] # NoEdge
      PROVE  edgeBase'[k] = edgeBase[k] /\ edgeBase[k].file # f
  <2>1. edgeBase'[k] = base(k)
    <3> HIDE DEF heal, base
    <3>. QED BY <1>2, <1>8 DEF BaseAfter
  <2> HIDE DEF base
  <2>. QED BY <1>5, <1>8, <2>1
<1> HIDE DEF D, R
<1>. QED BY <1>7, <1>8

LEMMA RemoveFileNodes ==
    ASSUME NodeInv, NEW f \in Files,
           NEW kept \in SUBSET Orphans(f), NEW home \in [kept -> Files \ {f}],
           RemoveFileNodeTables(f, kept, home), NEW s \in Symbols
    PROVE  /\ nodes'[s] # NoNode => nodes'[s].file # f
           /\ \A c \in nodeFiles'[s] : c.file # f
           /\ Live(s) /\ s \notin Orphans(f) \ kept => nodes'[s] # NoNode
<1> USE DEF NodeInv
<1>1. \A c \in nodeFiles'[s] : c.file # f
  BY DEF RemoveFileNodeTables, Survivors
<1>2. Rehomed(f) \cap Orphans(f) = {}
  BY DEF Orphans
<1>3. CASE s \in Rehomed(f)
  <2>1. /\ Survivors(s, f) \in SUBSET NodeRecord
        /\ Survivors(s, f) # {}
        /\ OneRecordPerFile(Survivors(s, f))
    BY <1>3 DEF Rehomed, HomedIn, Survivors, NodeTypeOK, OneContribution, OneRecordPerFile
  <2>2. nodes'[s] = Preferred(Survivors(s, f))
    BY <1>2, <1>3 DEF RemoveFileNodeTables
  <2>3. nodes'[s] \in Survivors(s, f)
    BY <2>1, <2>2, PreferredExists
  <2>4. nodes'[s] # NoNode /\ nodes'[s].file # f
    BY <2>1, <2>3, NoNodeIsNoRecord DEF Survivors
  <2>. QED BY <1>1, <2>4
<1>4. CASE s \in kept
  <2>1. nodes'[s] = [nodes[s] EXCEPT !.file = home[s]]
    BY <1>2, <1>4 DEF RemoveFileNodeTables
  <2>2. nodes[s] \in NodeRecord
    BY <1>4 DEF Orphans, HomedIn, Live, NodeTypeOK
  <2>3. nodes'[s] \in NodeRecord /\ nodes'[s].file = home[s] /\ home[s] # f
    BY <1>4, <2>1, <2>2 DEF NodeRecord
  <2>. QED BY <1>1, <2>3, NoNodeIsNoRecord
<1>5. CASE s \in Orphans(f) \ kept
  <2>1. nodes'[s] = NoNode
    BY <1>2, <1>5 DEF RemoveFileNodeTables
  <2>. QED BY <1>1, <1>5, <2>1
<1>6. CASE s \notin Rehomed(f) /\ s \notin Orphans(f)
  <2>1. nodes'[s] = nodes[s] /\ s \notin HomedIn(f)
    BY <1>6 DEF RemoveFileNodeTables, Orphans
  <2>. QED BY <1>1, <2>1 DEF HomedIn, Live
<1>. QED BY <1>3, <1>4, <1>5, <1>6

LEMMA RemoveFileIsComplete ==
    ASSUME StoreInv, NEW f \in Files, RemoveFile(f)
    PROVE  NothingLocatedIn(f)'
<1> USE DEF StoreInv
<1>1. \E kept \in SUBSET Orphans(f) : \E home \in [kept -> Files \ {f}] :
         RemoveFileNodeTables(f, kept, home)
  BY RemoveFileParts
<1>2. \A s \in Symbols : /\ nodes'[s] # NoNode => nodes'[s].file # f
                         /\ \A c \in nodeFiles'[s] : c.file # f
  BY <1>1, RemoveFileNodes
<1>3. \A k \in Keys : /\ edges'[k] # NoRow => edges'[k].file # f
                      /\ edgeBase'[k] # NoEdge => edgeBase'[k].file # f
  BY RemoveFileEdges, FilesAreRanked DEF NoFile, NoSite
<1>. QED BY <1>2, <1>3 DEF NothingLocatedIn, Live

LEMMA RemoveFileIsLocal ==
    ASSUME StoreInv, NEW f \in Files, RemoveFile(f)
    PROVE  /\ \A s \in Symbols : Live(s) /\ Survivors(s, f) # {} => Live(s)'
           /\ \A k \in Keys : /\ edges'[k] # NoRow /\ edges'[k].file # NoSite
                              /\ k.target \in ImportSymbols
                              /\ Live(k.target)
                              => Live(k.target)'
<1> USE DEF StoreInv
<1> DEFINE kept == {s \in Orphans(f) \cap ImportSymbols : Importers(s, f) # {}}
           home == [s \in kept |-> MinFile(Importers(s, f))]
<1>1. home \in [kept -> Files \ {f}]
  <2>1. \A s \in kept : Importers(s, f) \in SUBSET (Files \ {f}) /\ Importers(s, f) # {}
    BY ImportersAreFiles DEF Orphans, HomedIn
  <2>. QED BY <2>1, MinFileExists
<1>2. RemoveFileNodeTables(f, kept, home)
  BY DEF RemoveFile
<1>3. \A s \in Symbols : Live(s) /\ s \notin Orphans(f) \ kept => nodes'[s] # NoNode
  <2>1. kept \in SUBSET Orphans(f)
    OBVIOUS
  <2> HIDE DEF kept, home
  <2>. QED BY <1>1, <1>2, <2>1, RemoveFileNodes
<1>4. ASSUME NEW s \in Symbols, Live(s), Survivors(s, f) # {}
      PROVE  nodes'[s] # NoNode
  <2>1. s \notin Orphans(f)
    BY <1>4 DEF Orphans, Rehomed
  <2>. QED BY <1>3, <1>4, <2>1
<1>5. ASSUME NEW k \in Keys, edges'[k] # NoRow, edges'[k].file # NoSite,
             k.target \in ImportSymbols, Live(k.target)
      PROVE  nodes'[k.target] # NoNode
  <2>1. edges'[k] = edges[k] /\ edges[k].file # f /\ k.source \notin Orphans(f)
    BY <1>5, RemoveFileEdges
  <2>2. edges[k].file \in Importers(k.target, f)
    BY <1>5, <2>1 DEF Importers
  <2>3. k.target \notin Orphans(f) \ kept
    BY <1>5, <2>2
  <2>. QED BY <1>3, <1>5, <2>3, KeysJoinSymbols
<1>. QED BY <1>4, <1>5 DEF Live

\* From any state the store can reach, removing a file leaves nothing located in it,
\* in any table, and never takes a symbol that another file contributes, nor an
\* Import node that a surviving edge of another file targets.
THEOREM RemovalStaysExact == Spec => RemovalIsExact
<1>1. ASSUME StoreInv, NEW f \in Files, RemoveFile(f)
      PROVE  /\ NothingLocatedIn(f)'
             /\ \A s \in Symbols : Live(s) /\ Survivors(s, f) # {} => Live(s)'
             /\ \A k \in Keys : /\ edges'[k] # NoRow /\ edges'[k].file # NoSite
                                /\ k.target \in ImportSymbols
                                /\ Live(k.target)
                                => Live(k.target)'
  <2>1. NothingLocatedIn(f)'
    BY <1>1, RemoveFileIsComplete
  <2>. QED BY <1>1, <2>1, RemoveFileIsLocal
<1>2. StoreInv /\ [Next]_vars =>
         [\A f \in Files : RemoveFile(f) =>
             /\ NothingLocatedIn(f)'
             /\ \A s \in Symbols : Live(s) /\ Survivors(s, f) # {} => Live(s)'
             /\ \A k \in Keys : /\ edges'[k] # NoRow /\ edges'[k].file # NoSite
                                /\ k.target \in ImportSymbols
                                /\ Live(k.target)
                                => Live(k.target)']_vars
  BY <1>1
<1>. QED BY <1>2, InitEstablishes, NextPreserves, PTL DEF Spec, RemovalIsExact

\* After a prune, a dangling edge is one a producer asserts: the projection
\* keeps it, and the base plane has none of its own.
THEOREM PruneSparesOnlyAsserted == Spec => PruneLeavesOnlyAsserted
<1>1. ASSUME StoreInv, PruneDanglingEdges, NEW k \in Keys, edges'[k] # NoRow, Dangling(k)
      PROVE  Supported(k)
  <2> DEFINE D == {q \in Keys : edges[q] # NoRow /\ Dangling(q)}
             R == {q \in Keys : edgeBase[q] # NoEdge /\ Dangling(q)}
             retired == IF supports = {} THEN {} ELSE R
             base(q) == IF q \in retired THEN NoEdge ELSE edgeBase[q]
             heal    == {q \in D : Supported(q)} \cup retired
  <2>1. edges'[k] = CASE k \in heal     -> Reprojected(k, base(k), Facts(k))
                      [] k \in D \ heal -> NoRow
                      [] OTHER          -> edges[k]
    BY <1>1 DEF PruneDanglingEdges, DeleteEdgeTables
  <2>2. SUFFICES ASSUME ~Supported(k) PROVE FALSE
    OBVIOUS
  <2>3. edgeBase[k] = NoEdge
    BY <1>1, <2>2 DEF StoreInv, EdgeInv, BaseOnlyUnderSupport
  <2>4. k \notin heal
    BY <2>2, <2>3
  <2>5. k \notin D /\ edges'[k] = edges[k]
    <3> HIDE DEF heal, D
    <3>. QED BY <1>1, <2>1, <2>4
  <2>. QED BY <1>1, <2>5
<1>2. StoreInv /\ [Next]_vars =>
         [PruneDanglingEdges =>
             \A k \in Keys : edges'[k] # NoRow /\ Dangling(k) => Supported(k)]_vars
  BY <1>1
<1>. QED BY <1>2, InitEstablishes, NextPreserves, PTL DEF Spec, PruneLeavesOnlyAsserted

-----------------------------------------------------------------------------
(* The tables implement the support contract.                               *)

\* The base plane's contribution of one key, read off its rows.
Plane(k, row, b, S) ==
    IF FactsIn(S, k) # {} THEN b ELSE IF row = NoRow THEN NoEdge ELSE row.edge

LEMMA BasePlaneByKey ==
    ASSUME EdgeInv
    PROVE  BasePlane = [k \in Keys |-> Plane(k, edges[k], edgeBase[k], supports)]
  BY EdgeInvParts DEF BasePlane, Plane, Facts

LEMMA BasePlaneByKeyNext ==
    ASSUME supports' \in SUBSET Support
    PROVE  BasePlane' = [k \in Keys |-> Plane(k, edges'[k], edgeBase'[k], supports')]
<1>1. \A k \in Keys : Supported(k)' <=> FactsIn(supports', k) # {}
  BY FactsAreContents DEF Supported
<1>. QED BY <1>1 DEF BasePlane, Plane

\* Reprojecting a key does not move its base contribution.
LEMMA ReprojectionKeepsPlane ==
    ASSUME NEW k \in Keys, NEW b \in Contents \cup {NoEdge}, NEW S \in SUBSET Support
    PROVE  Plane(k, Reprojected(k, b, FactsIn(S, k)), BaseAfter(b, FactsIn(S, k)), S) = b
<1>1. CASE FactsIn(S, k) # {}
  BY <1>1 DEF Plane, BaseAfter
<1>2. CASE FactsIn(S, k) = {} /\ b = NoEdge
  BY <1>2 DEF Plane, Reprojected
<1>3. CASE FactsIn(S, k) = {} /\ b \in Contents
  <2>1. Reprojected(k, b, {}).edge = b
    BY <1>3, PlainRow
  <2>2. Reprojected(k, b, {}) # NoRow
    <3>1. Reprojected(k, b, {}) = [edge |-> b, rows |-> {}, file |-> b.file]
      BY <1>3, PlainRow
    <3>2. b.file \in SiteFiles
      BY <1>3 DEF SiteFiles
    <3>3. Reprojected(k, b, {}) \in EdgeRow
      BY <1>3, <3>1, <3>2 DEF EdgeRow
    <3>. QED BY <3>3, NoRowIsNoRow
  <2>. QED BY <1>3, <2>1, <2>2 DEF Plane
<1>. QED BY <1>1, <1>2, <1>3

LEMMA BasePlaneIsTyped ==
    ASSUME EdgeInv
    PROVE  BasePlane \in [Keys -> Contents \cup {NoEdge}]
  BY EdgeInvParts DEF BasePlane, EdgeRow

\* The contract is stated with the rules the tables apply.
LEMMA SameRules ==
    /\ \A old, new : Contract!BaseWins(old, new) <=> BaseWins(old, new)
    /\ \A k, b, F : Contract!Project(k, b, F) = Project(k, b, F)
  BY DEF Contract!BaseWins, BaseWins, Contract!Project, Project, Contract!Representative,
         Representative, Contract!Outranks, Outranks

\* What readers see is always the contract's view of the two planes.
LEMMA PublicIsView ==
    ASSUME EdgeInv
    PROVE  PublicEdges = Contract!View(BasePlane, supports)
<1>1. \A k \in Keys : Contract!FactsOn(supports, k) = Facts(k)
  BY DEF Contract!FactsOn, Facts, FactsIn
<1> DEFINE P(k) == IF edges[k] = NoRow THEN NoEdge
                   ELSE [edge |-> edges[k].edge, rows |-> edges[k].rows]
           V(k) == IF BasePlane[k] = NoEdge /\ Facts(k) = {} THEN NoEdge
                   ELSE Project(k, BasePlane[k], Facts(k))
<1>2. ASSUME NEW k \in Keys PROVE P(k) = V(k)
  <2>1. CASE Supported(k)
    <3>1. Facts(k) # {} /\ edges[k] = Reprojected(k, edgeBase[k], Facts(k))
      BY <2>1, EdgeInvParts DEF EdgeInv, PublicIsProjection
    <3>2. edges[k] # NoRow
      BY <2>1, SupportedRowSite, NoRowIsNoRow
    <3>3. BasePlane[k] = edgeBase[k]
      BY <2>1 DEF BasePlane
    <3>4. P(k) = [edge |-> Project(k, edgeBase[k], Facts(k)).edge,
                  rows |-> Project(k, edgeBase[k], Facts(k)).rows]
      BY <3>1, <3>2 DEF Reprojected
    <3>5. V(k) = Project(k, edgeBase[k], Facts(k))
      BY <3>1, <3>3
    <3>. QED BY <3>4, <3>5 DEF Project
  <2>2. CASE ~Supported(k) /\ edges[k] = NoRow
    BY <2>2, EdgeInvParts DEF BasePlane
  <2>3. CASE ~Supported(k) /\ edges[k] # NoRow
    <3>1. edges[k] = Reprojected(k, edges[k].edge, {}) /\ Facts(k) = {}
      BY <2>3, EdgeInvParts DEF EdgeInv, BaseOnlyUnderSupport
    <3>2. edges[k].edge \in Contents
      BY <2>3, EdgeInvParts DEF EdgeRow
    <3>3. BasePlane[k] = edges[k].edge
      BY <2>3 DEF BasePlane
    <3>4. edges[k].rows = {}
      BY <3>1, <3>2, PlainRow
    <3>. QED BY <2>3, <3>1, <3>2, <3>3, <3>4, NoEdgeIsNoContent DEF Project
  <2>. QED BY <2>1, <2>2, <2>3
<1>3. PublicEdges = [k \in Keys |-> P(k)]
  BY DEF PublicEdges
<1>4. Contract!View(BasePlane, supports) = [k \in Keys |-> V(k)]
  BY <1>1, SameRules DEF Contract!View
<1> HIDE DEF P, V
<1>. QED BY <1>2, <1>3, <1>4

LEMMA UpsertEdgeIsUpsertBase ==
    ASSUME EdgeInv, NEW k \in Keys, NEW e \in Contents, UpsertEdgeTables(k, e)
    PROVE  Contract!UpsertBase(k, e) \/ UNCHANGED edgeVars
<1>1. supports' = supports /\ generations' = generations
  BY DEF UpsertEdgeTables
<1>2. CASE edges' = edges /\ edgeBase' = edgeBase
  BY <1>1, <1>2 DEF edgeVars
<1>3. CASE ~(edges' = edges /\ edgeBase' = edgeBase)
  <2>1. \A q \in Keys \ {k} : edges'[q] = edges[q] /\ edgeBase'[q] = edgeBase[q]
    BY EdgeInvParts DEF UpsertEdgeTables
  <2>2. Plane(k, edges'[k], edgeBase'[k], supports) = e /\ BaseWins(BasePlane[k], e)
    <3>1. CASE Supported(k)
      <4>1. edges'[k] = Reprojected(k, e, Facts(k)) /\ edgeBase'[k] = e
            /\ BaseWins(edgeBase[k], e)
        BY <1>3, <3>1, EdgeInvParts DEF UpsertEdgeTables
      <4>2. Facts(k) # {} /\ BasePlane[k] = edgeBase[k]
        BY <3>1, EdgeInvParts DEF BasePlane
      <4>. QED BY <4>1, <4>2 DEF Plane, Facts
    <3>2. CASE ~Supported(k)
      <4>1. edges'[k] = Reprojected(k, e, {}) /\ edgeBase'[k] = edgeBase[k]
        BY <1>3, <3>2, EdgeInvParts DEF UpsertEdgeTables
      <4>2. edges[k] = NoRow \/ BaseWins(edges[k].edge, e)
        BY <1>3, <3>2 DEF UpsertEdgeTables
      <4>3. BaseWins(BasePlane[k], e)
        BY <3>2, <4>2 DEF BasePlane, BaseWins
      <4>4. FactsIn(supports, k) = {} /\ edgeBase[k] = NoEdge
        BY <3>2, EdgeInvParts DEF Facts, KeyInv
      <4>5. Plane(k, Reprojected(k, e, FactsIn(supports, k)), BaseAfter(e, FactsIn(supports, k)),
                  supports) = e
        BY EdgeInvParts, ReprojectionKeepsPlane
      <4>. QED BY <4>1, <4>3, <4>4, <4>5 DEF BaseAfter
    <3>. QED BY <3>1, <3>2
  <2>3. BasePlane' = [BasePlane EXCEPT ![k] = e]
    <3>1. BasePlane' = [q \in Keys |-> Plane(q, edges'[q], edgeBase'[q], supports)]
      BY <1>1, EdgeInvParts, BasePlaneByKeyNext
    <3>2. BasePlane = [q \in Keys |-> Plane(q, edges[q], edgeBase[q], supports)]
      BY BasePlaneByKey
    <3>. QED BY <2>1, <2>2, <3>1, <3>2
  <2>. QED BY <1>1, <2>2, <2>3, SameRules DEF Contract!UpsertBase
<1>. QED BY <1>2, <1>3

LEMMA DeleteIsRetireBase ==
    ASSUME EdgeInv, NEW D \in SUBSET Keys, NEW R \in SUBSET Keys, DeleteEdgeTables(D, R)
    PROVE  Contract!RetireBase
<1> DEFINE retired == IF supports = {} THEN {} ELSE R
           base(k) == IF k \in retired THEN NoEdge ELSE edgeBase[k]
           heal    == {k \in D : Supported(k)} \cup retired
<1>1. supports' = supports /\ generations' = generations
  BY DEF DeleteEdgeTables
<1>2. edges' = [k \in Keys |-> CASE k \in heal -> Reprojected(k, base(k), Facts(k))
                                 [] k \in D \ heal -> NoRow
                                 [] OTHER -> edges[k]]
  BY DEF DeleteEdgeTables
<1>3. edgeBase' = [k \in Keys |-> IF k \in heal THEN BaseAfter(base(k), Facts(k)) ELSE base(k)]
  BY DEF DeleteEdgeTables
<1>4. BasePlane' = [k \in Keys |-> Plane(k, edges'[k], edgeBase'[k], supports)]
  BY <1>1, EdgeInvParts, BasePlaneByKeyNext
<1>5. BasePlane = [k \in Keys |-> Plane(k, edges[k], edgeBase[k], supports)]
  BY BasePlaneByKey
<1>6. ASSUME NEW k \in Keys
      PROVE  Plane(k, edges'[k], edgeBase'[k], supports)
                \in {Plane(k, edges[k], edgeBase[k], supports), NoEdge}
  <2>1. base(k) \in Contents \cup {NoEdge}
    BY EdgeInvParts
  <2>2. CASE k \in heal
    <3>1. Plane(k, edges'[k], edgeBase'[k], supports) = base(k)
      <4> HIDE DEF base, heal, retired
      <4>1. edges'[k] = Reprojected(k, base(k), Facts(k))
            /\ edgeBase'[k] = BaseAfter(base(k), Facts(k))
        BY <1>2, <1>3, <2>2
      <4>. QED BY <2>1, <4>1, EdgeInvParts, ReprojectionKeepsPlane DEF Facts
    <3>2. base(k) # NoEdge => Supported(k) /\ base(k) = edgeBase[k]
      BY <2>2
    <3>3. Supported(k) => Plane(k, edges[k], edgeBase[k], supports) = edgeBase[k]
      BY EdgeInvParts DEF Plane, Facts
    <3> HIDE DEF base, heal
    <3>. QED BY <3>1, <3>2, <3>3
  <2>3. CASE k \notin heal /\ k \in D
    <3>1. FactsIn(supports, k) = {}
      BY <2>3, EdgeInvParts DEF Facts
    <3>2. edges'[k] = NoRow
      BY <1>2, <2>3
    <3>. QED BY <3>1, <3>2 DEF Plane
  <2>4. CASE k \notin heal /\ k \notin D
    <3>1. edges'[k] = edges[k] /\ edgeBase'[k] = edgeBase[k]
      BY <1>2, <1>3, <2>4
    <3>. QED BY <3>1
  <2>. QED BY <2>2, <2>3, <2>4
<1>7. \A k \in Keys : BasePlane'[k] \in {BasePlane[k], NoEdge}
  BY <1>4, <1>5, <1>6
<1>8. BasePlane' \in [Keys -> Contents \cup {NoEdge}]
  <2>1. \A k \in Keys : BasePlane'[k] \in Contents \cup {NoEdge}
    BY <1>7, BasePlaneIsTyped
  <2>. QED BY <1>4, <2>1
<1>. QED BY <1>1, <1>7, <1>8 DEF Contract!RetireBase

LEMMA ReplaceIsReplace ==
    ASSUME EdgeInv, NEW o \in Owners, NEW g \in 0..MaxGeneration, NEW F \in SUBSET Fact,
           ReplaceEdgeTables(o, g, F)
    PROVE  Contract!Replace(o, g)
<1> DEFINE touched == {f.key : f \in (FactsOf(o) \ F) \cup (F \ FactsOf(o))}
           base(k) == IF k \in touched /\ ~Supported(k)
                      THEN IF edges[k] = NoRow THEN NoEdge ELSE edges[k].edge
                      ELSE edgeBase[k]
           after   == {s \in supports : s.owner # o} \cup Owned(o, F)
<1>1. /\ supports' = after /\ generations' = [generations EXCEPT ![o] = g]
      /\ IdsAreUnique(F) /\ g > generations[o]
  BY DEF ReplaceEdgeTables, Accepted
<1>2. edges' = [k \in Keys |-> IF k \in touched THEN Reprojected(k, base(k), FactsIn(after, k))
                               ELSE edges[k]]
  BY DEF ReplaceEdgeTables
<1>3. edgeBase' = [k \in Keys |-> IF k \in touched THEN BaseAfter(base(k), FactsIn(after, k))
                                  ELSE base(k)]
  BY DEF ReplaceEdgeTables
<1>4. after \in SUBSET Support
  BY EdgeInvParts DEF Owned, Fact, Support
<1>5. {s \in after : s.owner # o} = {s \in supports : s.owner # o}
  BY DEF Owned
<1>6. \A s, t \in after : s.owner = o /\ t.owner = o /\ s.key = t.key /\ s.id = t.id => s = t
  <2> SUFFICES ASSUME NEW s \in after, NEW t \in after,
                      s.owner = o, t.owner = o, s.key = t.key, s.id = t.id
               PROVE  s = t
    OBVIOUS
  <2>1. s \in Owned(o, F) /\ t \in Owned(o, F)
    OBVIOUS
  <2>2. PICK a \in F : s = [owner |-> o, key |-> a.key, id |-> a.id, edge |-> a.edge]
    BY <2>1 DEF Owned
  <2>3. PICK b \in F : t = [owner |-> o, key |-> b.key, id |-> b.id, edge |-> b.edge]
    BY <2>1 DEF Owned
  <2>4. a.key = b.key /\ a.id = b.id
    BY <2>2, <2>3
  <2>5. a = b
    BY <1>1, <2>4 DEF IdsAreUnique
  <2>. QED BY <2>2, <2>3, <2>5
<1>7. ASSUME NEW k \in Keys
      PROVE  Plane(k, edges'[k], edgeBase'[k], after) = BasePlane[k]
  <2>1. base(k) \in Contents \cup {NoEdge}
    BY EdgeInvParts DEF EdgeRow
  <2>2. CASE k \in touched
    <3>1. Plane(k, edges'[k], edgeBase'[k], after) = base(k)
      <4> HIDE DEF base, touched, after
      <4>. QED BY <1>2, <1>3, <1>4, <2>1, <2>2, ReprojectionKeepsPlane
    <3>2. base(k) = BasePlane[k]
      BY <2>2 DEF BasePlane
    <3>. QED BY <3>1, <3>2
  <2>3. CASE k \notin touched
    <3>1. edges'[k] = edges[k] /\ edgeBase'[k] = edgeBase[k]
      <4> HIDE DEF touched
      <4>. QED BY <1>2, <1>3, <2>3
    <3>2. FactsIn(after, k) = FactsIn(supports, k)
      BY <2>3, UntouchedFacts
    <3> HIDE DEF after
    <3>. QED BY <3>1, <3>2, BasePlaneByKey DEF Plane
  <2>. QED BY <2>2, <2>3
<1>8. BasePlane' = BasePlane
  <2> HIDE DEF after
  <2>1. BasePlane' = [k \in Keys |-> Plane(k, edges'[k], edgeBase'[k], after)]
    BY <1>1, <1>4, BasePlaneByKeyNext
  <2>2. BasePlane = [k \in Keys |-> BasePlane[k]]
    BY DEF BasePlane
  <2>. QED BY <1>7, <2>1, <2>2
<1>9. supports' \in SUBSET Contract!Support
  BY <1>1, <1>4 DEF Support, Contract!Support
<1> HIDE DEF after, touched
<1>. QED BY <1>1, <1>5, <1>6, <1>8, <1>9 DEF Contract!Replace

LEMMA EraseIsErase ==
    ASSUME EdgeInv, NEW ids, EraseEdgeTables(ids)
    PROVE  Contract!Erase(Incident(ids))
<1>1. /\ supports' = {s \in supports : s.key \notin Incident(ids)}
      /\ generations' = generations /\ supports' \in SUBSET Support
  BY EdgeInvParts DEF EraseEdgeTables
<1>2. BasePlane' = [k \in Keys |-> Plane(k, edges'[k], edgeBase'[k], supports')]
  BY <1>1, BasePlaneByKeyNext
<1>3. ASSUME NEW k \in Keys
      PROVE  Plane(k, edges'[k], edgeBase'[k], supports')
                = IF k \in Incident(ids) THEN NoEdge ELSE BasePlane[k]
  <2>1. CASE k \in Incident(ids)
    <3>1. edges'[k] = NoRow /\ FactsIn(supports', k) = {}
      BY <1>1, <2>1 DEF EraseEdgeTables, FactsIn
    <3>. QED BY <2>1, <3>1 DEF Plane
  <2>2. CASE k \notin Incident(ids)
    <3>1. edges'[k] = edges[k] /\ edgeBase'[k] = edgeBase[k]
      BY <2>2 DEF EraseEdgeTables
    <3>2. FactsIn(supports', k) = FactsIn(supports, k)
      BY <1>1, <2>2 DEF FactsIn
    <3>. QED BY <2>2, <3>1, <3>2, BasePlaneByKey DEF Plane
  <2>. QED BY <2>1, <2>2
<1>4. BasePlane' = [k \in Keys |-> IF k \in Incident(ids) THEN NoEdge ELSE BasePlane[k]]
  BY <1>2, <1>3
<1>. QED BY <1>1, <1>4 DEF Contract!Erase

\* Every step on the edge tables is the step of the contract it stands for, or
\* changes nothing of it.
LEMMA NextRefines ==
    StoreInv /\ [Next]_vars /\ (PublicEdges = Contract!View(BasePlane, supports))'
        => [Contract!Next]_(Contract!vars)
<1> SUFFICES ASSUME StoreInv, [Next]_vars,
                    (PublicEdges = Contract!View(BasePlane, supports))'
             PROVE  [Contract!Next]_(Contract!vars)
  OBVIOUS
<1> USE DEF StoreInv
<1>1. ASSUME UNCHANGED edgeVars PROVE UNCHANGED Contract!vars
  <2>1. edges' = edges /\ edgeBase' = edgeBase /\ supports' = supports /\ generations' = generations
    BY <1>1 DEF edgeVars
  <2>2. BasePlane' = BasePlane /\ PublicEdges' = PublicEdges
    BY <2>1 DEF BasePlane, PublicEdges, Supported
  <2>. QED BY <2>1, <2>2 DEF Contract!vars
<1>2. ASSUME NEW k \in Keys, NEW e \in Writable[k], UpsertEdge(k, e)
      PROVE  [Contract!Next]_(Contract!vars)
  <2>1. e \in Contents /\ UpsertEdgeTables(k, e)
    BY <1>2, WritableAreContents DEF UpsertEdge
  <2>2. Contract!UpsertBase(k, e) \/ UNCHANGED edgeVars
    BY <2>1, UpsertEdgeIsUpsertBase
  <2>. QED BY <1>1, <2>1, <2>2 DEF Contract!Next
<1>3. ASSUME NEW o \in Owners, NEW g \in 0..MaxGeneration, NEW F \in SUBSET Assertable,
             ReplaceEdgeSupports(o, g, F)
      PROVE  Contract!Next
  <2>1. Contract!Replace(o, g)
    BY <1>3, AssertableAreFacts, ReplaceIsReplace DEF ReplaceEdgeSupports
  <2>. QED BY <2>1 DEF Contract!Next
<1>4. ASSUME NEW D \in SUBSET Keys, NEW R \in SUBSET Keys, DeleteEdgeTables(D, R)
      PROVE  Contract!Next
  BY <1>4, DeleteIsRetireBase DEF Contract!Next
<1>5. ASSUME NEW f \in Files, RemoveFile(f)
      PROVE  Contract!Next
  <2>1. \E D, R \in SUBSET Keys : DeleteEdgeTables(D, R)
    BY <1>5, RemoveFileParts
  <2>. QED BY <1>4, <2>1
<1>6. CASE PruneDanglingEdges
  <2>1. {k \in Keys : edges[k] # NoRow /\ Dangling(k)} \in SUBSET Keys
        /\ {k \in Keys : edgeBase[k] # NoEdge /\ Dangling(k)} \in SUBSET Keys
    OBVIOUS
  <2>. QED BY <1>4, <1>6, <2>1 DEF PruneDanglingEdges
<1>7. ASSUME NEW s \in Symbols, RemoveNodes({s})
      PROVE  Contract!Next
  <2>1. Contract!Erase(Incident({s}))
    BY <1>7, EraseIsErase DEF RemoveNodes
  <2>2. Incident({s}) \in SUBSET Keys
    BY DEF Incident
  <2>. QED BY <2>1, <2>2 DEF Contract!Next
<1>8. \/ UNCHANGED edgeVars
      \/ \E k \in Keys : \E e \in Writable[k] : UpsertEdge(k, e)
      \/ \E o \in Owners, g \in 0..MaxGeneration, F \in SUBSET Assertable :
            ReplaceEdgeSupports(o, g, F)
      \/ \E f \in Files : RemoveFile(f)
      \/ PruneDanglingEdges
      \/ \E s \in Symbols : RemoveNodes({s})
  BY DEF Next, vars, UpsertNode, WriteNodes
<1>. QED BY <1>1, <1>2, <1>3, <1>5, <1>6, <1>7, <1>8

LEMMA InitRefines == Init => Contract!Init
<1> SUFFICES ASSUME Init PROVE Contract!Init
  OBVIOUS
<1>1. EdgeInv
  BY InitEstablishes DEF StoreInv
<1>2. BasePlane = [k \in Keys |-> NoEdge]
  BY DEF Init, EdgeInit, BasePlane, Supported
<1>3. supports = {} /\ generations = [o \in Owners |-> -1]
  BY DEF Init, EdgeInit, NoGeneration
<1>. QED BY <1>1, <1>2, <1>3, PublicIsView DEF Contract!Init

\* The SQLite edge tables implement the support contract: through every
\* operation of the store the base plane and the producers' facts evolve as if
\* the other did not exist, and readers see the projection of the two.
THEOREM TablesImplementContract == Spec => ImplementsContract
<1>1. StoreInv => PublicEdges = Contract!View(BasePlane, supports)
  BY PublicIsView DEF StoreInv
<1>. QED BY <1>1, InitEstablishes, NextPreserves, InitRefines, NextRefines, PTL
         DEF Spec, ImplementsContract, Contract!Spec
=============================================================================
