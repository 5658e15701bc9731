-------------------------- MODULE SupportProjection --------------------------
(***************************************************************************)
(* The pure rules of the support plane (wicked_estate_core::support): which *)
(* base write wins, and the public edge of a key as a function of the set   *)
(* of its base contribution and its support facts.  factKey stands for the  *)
(* last tie-break of the order a kind is ranked by: fact_key, and for a    *)
(* flow edge the representative order of merge_flow_edges.                  *)
(***************************************************************************)
EXTENDS Integers, FiniteSets

CONSTANTS
    Keys,       \* public edge keys: records with source, target, kind
    FlowKeys,   \* the keys whose kind is flows_to
    Contents,   \* edge contents: confidence, evidence, file and factKey
    NoEdge      \* no base contribution

NoSite    == 0  \* edges.file = '': an edge without a location
SiteFiles == {e.file : e \in Contents} \cup {NoSite}

ASSUME FlowKeysAreKeys == FlowKeys \subseteq Keys
ASSUME ContentsAreRanked ==
    \A e \in Contents : /\ e.confidence \in Nat /\ e.evidence \in Nat
                        /\ e.factKey \in Nat
ASSUME FactKeysAreCanonical ==
    \A d, e \in Contents : d.factKey = e.factKey => d = e
ASSUME ContentsAreFinite == IsFiniteSet(Contents)
ASSUME NoEdgeIsNoContent == NoEdge \notin Contents

\* base_upsert_wins, where any write beats no contribution.
BaseWins(old, new) ==
    \/ old = NoEdge
    \/ new.confidence >= old.confidence
    \/ new.evidence > old.evidence

\* The representative of a key: maximum confidence, then (except for flow
\* edges) maximum evidence_count, then the smallest fact_key.
Outranks(k, a, b) ==
    \/ a.confidence > b.confidence
    \/ /\ a.confidence = b.confidence
       /\ k \notin FlowKeys
       /\ a.evidence > b.evidence
    \/ /\ a.confidence = b.confidence
       /\ k \in FlowKeys \/ a.evidence = b.evidence
       /\ a.factKey < b.factKey

Representative(k, S) == CHOOSE a \in S : \A b \in S \ {a} : Outranks(k, a, b)

\* project_edge on a key with a base contribution or facts.  A flow edge folds
\* in the rows of every contribution (merge_flow_edges); a key without facts
\* shows its base contribution unchanged.
Project(k, b, F) ==
    LET all == F \cup ({b} \ {NoEdge})
    IN IF F = {} THEN [edge |-> b, rows |-> {}]
       ELSE [edge |-> Representative(k, all),
             rows |-> IF k \in FlowKeys THEN all ELSE {}]
=============================================================================
