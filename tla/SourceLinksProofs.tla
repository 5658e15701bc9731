-------------------------- MODULE SourceLinksProofs --------------------------
(***************************************************************************)
(* For any documents, ends, contents and number of generations: the commits *)
(* by which a source is replaced implement the one step that                *)
(* SourceContract promises, wherever a call stops; and a reader that pages  *)
(* through the catalog ends with one generation.                           *)
(***************************************************************************)
EXTENDS SourceLinks, FiniteSetTheorems, TLAPS

LinksOf(content) == UNION {{d} \X content[d] : d \in DOMAIN content}
RowsOf(g) == {r \in rows : r.gen = g}
LinksIn(rs) == {Link(r) : r \in rs}

\* A row has a key, and what holds it holds it once.
Keyed(rs) == \A r, s \in rs : SameKey(r, s) => r = s

-----------------------------------------------------------------------------
\* The committed generation: its documents are live with what it holds, and the
\* rows of its number are its links.
Committed ==
    /\ manifest.gen \in 0..MaxGeneration
    /\ manifest.gen = NoGeneration => manifest.content = NoContent
    /\ manifest.gen # NoGeneration => manifest.content \in Contents
    /\ docs = [d \in DOMAIN manifest.content |->
                  [gen |-> manifest.gen, links |-> manifest.content[d]]]
    /\ rows \subseteq Row /\ Keyed(rows)
    /\ LinksIn(RowsOf(manifest.gen)) = LinksOf(manifest.content)

\* The ends, for the epoch a planned row is stamped with.
EndsTyped == live \subseteq KnowledgeEnds /\ epoch \in [KnowledgeEnds -> 0..MaxEpoch]

Planning == {"plan", "epoch", "stage"}

\* The call: a newer generation, or the committed one again.
CallInOrder ==
    /\ wpc \in Planning \cup {"idle", "order", "flip", "cleanup"}
    /\ call \in [gen : 0..MaxGeneration, content : Contents \cup {NoContent},
                 committed : 0..MaxGeneration, at : (Docs \X Ends) \cup {<<>>}]
    /\ wpc # "idle" => call.gen # NoGeneration /\ call.content \in Contents
    /\ wpc \in Planning => call.gen > manifest.gen
    /\ wpc \in Planning \cup {"flip"} => call.committed = manifest.gen
    /\ wpc = "cleanup" => call.gen = manifest.gen
    /\ calls \in 0..MaxCalls

\* Its links are planned once each, and staged over nothing left of an earlier
\* attempt: at the flip the rows of a newer generation are its links.
PlanIsItsLinks ==
    /\ toPlan \subseteq Docs \X Ends /\ planned \subseteq Row /\ Keyed(planned)
    /\ \A p \in planned : p.gen = call.gen /\ Link(p) \notin toPlan
    /\ wpc \in {"idle", "order"} => toPlan = {} /\ planned = {}
    /\ wpc \in Planning =>
          LinksOf(call.content) =
              toPlan \cup LinksIn(planned) \cup (IF wpc = "epoch" THEN {call.at} ELSE {})
    /\ wpc = "epoch" => /\ call.at \in Docs \X Ends
                        /\ call.at \notin toPlan /\ call.at \notin LinksIn(planned)
    /\ wpc = "stage" => toPlan = {} /\ \A r \in rows : r.gen <= manifest.gen
    /\ wpc = "flip" /\ call.gen > manifest.gen =>
          LinksIn(RowsOf(call.gen)) = LinksOf(call.content)

WriterInv == Committed /\ EndsTyped /\ CallInOrder /\ PlanIsItsLinks

-----------------------------------------------------------------------------
(* Links and rows. *)

LEMMA LinksAreTyped ==
    ASSUME NEW c \in Contents \cup {NoContent}
    PROVE  LinksOf(c) \subseteq Docs \X Ends /\ DOMAIN c \subseteq Docs
  BY ContentsLinkDocsToEnds DEF LinksOf, NoContent

LEMMA PlannedRowIsTyped ==
    ASSUME WriterInv, wpc \in Planning, NEW l \in Docs \X Ends, NEW e \in 0..MaxEpoch
    PROVE  /\ PlannedRow(l, e) \in Row
           /\ PlannedRow(l, e).gen = call.gen
           /\ Link(PlannedRow(l, e)) = l
<1>1. call.gen \in Generation
  BY SourceBoundsAreNat DEF WriterInv, CallInOrder, Planning, Generation, NoGeneration
<1>. QED BY <1>1 DEF PlannedRow, Row, Link

\* One more link is planned.
LEMMA PlanStaysKeyed ==
    ASSUME WriterInv, wpc \in Planning, NEW l \in Docs \X Ends, NEW e \in 0..MaxEpoch,
           l \notin LinksIn(planned)
    PROVE  /\ planned \cup {PlannedRow(l, e)} \subseteq Row
           /\ Keyed(planned \cup {PlannedRow(l, e)})
           /\ LinksIn(planned \cup {PlannedRow(l, e)}) = LinksIn(planned) \cup {l}
<1> DEFINE p == PlannedRow(l, e)
<1>1. p \in Row /\ Link(p) = l
  BY PlannedRowIsTyped
<1>2. planned \subseteq Row /\ Keyed(planned)
  BY DEF WriterInv, PlanIsItsLinks
<1>3. \A r, s \in Row : SameKey(r, s) => Link(r) = Link(s) /\ SameKey(s, r)
  BY DEF SameKey, Link
<1> HIDE DEF p
<1>4. \A r \in planned : ~SameKey(r, p) /\ ~SameKey(p, r)
  BY <1>1, <1>2, <1>3 DEF LinksIn
<1>5. Keyed(planned \cup {p})
  BY <1>2, <1>4 DEF Keyed
<1>6. LinksIn(planned \cup {p}) = LinksIn(planned) \cup {l}
  BY <1>1 DEF LinksIn
<1>. QED BY <1>1, <1>2, <1>5, <1>6 DEF p

-----------------------------------------------------------------------------
(* The projector keeps its invariant. *)

LEMMA InitIsCommitted == Init => WriterInv
<1> SUFFICES ASSUME Init PROVE WriterInv
  OBVIOUS
<1> USE SourceBoundsAreNat DEF Init, NoGeneration
<1>1. Committed
  BY DEF Committed, Keyed, LinksIn, RowsOf, LinksOf, NoContent
<1>2. CallInOrder
  BY DEF CallInOrder, Planning, NoCall
<1>3. PlanIsItsLinks
  BY DEF PlanIsItsLinks, Planning, Keyed, NoCall
<1>. QED BY <1>1, <1>2, <1>3 DEF WriterInv, EndsTyped

LEMMA ReturnKeeps ==
    ASSUME WriterInv, Return, UNCHANGED <<stores, calls>>
    PROVE  WriterInv'
<1> USE DEF stores
<1>1. Committed' /\ EndsTyped'
  BY DEF WriterInv, Committed, EndsTyped, RowsOf
<1>2. CallInOrder'
  BY SourceBoundsAreNat DEF WriterInv, CallInOrder, Return, NoCall, Planning, NoGeneration
<1>3. PlanIsItsLinks'
  BY DEF PlanIsItsLinks, Return, Planning, Keyed
<1>. QED BY <1>1, <1>2, <1>3 DEF WriterInv

LEMMA CallKeeps ==
    ASSUME WriterInv,
           (\E g \in Generation, c \in Contents : Replace(g, c)) \/ CheckOrder
    PROVE  WriterInv'
<1> USE DEF stores
<1>1. ASSUME NEW g \in Generation, NEW c \in Contents, Replace(g, c) PROVE WriterInv'
  <2>1. Committed' /\ EndsTyped'
    BY <1>1 DEF WriterInv, Replace, Committed, EndsTyped, RowsOf
  <2>2. CallInOrder'
    <3>1. call' = [gen |-> g, content |-> c, committed |-> NoGeneration, at |-> <<>>]
      BY <1>1 DEF Replace, NoCall
    <3>2. wpc' = "order" /\ calls' \in 0..MaxCalls
      <4>1. calls \in 0..MaxCalls /\ MaxCalls \in Nat
        BY SourceBoundsAreNat DEF WriterInv, CallInOrder
      <4>2. calls < MaxCalls /\ calls' = calls + 1 /\ wpc' = "order"
        BY <1>1, Zenon DEF Replace
      <4>. QED BY <4>1, <4>2
    <3>3. g \in 0..MaxGeneration /\ g # NoGeneration /\ NoGeneration \in 0..MaxGeneration
      BY SourceBoundsAreNat DEF Generation, NoGeneration
    <3>. QED BY <3>1, <3>2, <3>3 DEF CallInOrder, Planning
  <2>3. PlanIsItsLinks'
    BY <1>1 DEF WriterInv, Replace, PlanIsItsLinks, Planning
  <2>. QED BY <2>1, <2>2, <2>3 DEF WriterInv
<1>2. ASSUME CheckOrder PROVE WriterInv'
  <2>1. CASE ~InOrder
    BY <1>2, <2>1, ReturnKeeps DEF CheckOrder
  <2>2. CASE InOrder
    <3>1. /\ wpc = "order" /\ call.gen >= manifest.gen
          /\ call' = [call EXCEPT !.committed = manifest.gen]
          /\ toPlan' = LinksOf(call.content) /\ planned' = {}
          /\ wpc' = (IF call.gen > manifest.gen THEN "plan" ELSE "flip")
          /\ UNCHANGED <<manifest, docs, rows, live, epoch, calls>>
      BY <1>2, <2>2 DEF CheckOrder, InOrder, Restages, LinksOf
    <3>2. Committed' /\ EndsTyped'
      BY <3>1 DEF WriterInv, Committed, EndsTyped, RowsOf
    <3>3. CallInOrder'
      BY <3>1 DEF WriterInv, CallInOrder, Committed, Planning
    <3>4. call'.gen = call.gen /\ call'.content = call.content /\ call.content \in Contents
      BY <3>1 DEF WriterInv, CallInOrder
    <3>5. PlanIsItsLinks'
      BY <3>1, <3>4, LinksAreTyped DEF PlanIsItsLinks, Planning, Keyed, LinksIn
    <3>. QED BY <3>2, <3>3, <3>5 DEF WriterInv
  <2>. QED BY <2>1, <2>2
<1>. QED BY <1>1, <1>2

LEMMA PlanKeeps ==
    ASSUME WriterInv,
           (\E l \in toPlan : PlanControl(l) \/ PlanLive(l)) \/ PlanEpoch
    PROVE  WriterInv'
<1> USE DEF stores
<1>1. toPlan \subseteq Docs \X Ends
  BY DEF WriterInv, PlanIsItsLinks
<1>2. ASSUME UNCHANGED stores PROVE Committed' /\ EndsTyped'
  BY <1>2 DEF WriterInv, Committed, EndsTyped, RowsOf
<1>3. ASSUME NEW l \in toPlan, PlanControl(l) PROVE WriterInv'
  <2>1. /\ wpc = "plan" /\ l \in Docs \X Ends /\ l \notin LinksIn(planned)
    BY <1>1, <1>3 DEF PlanControl, WriterInv, PlanIsItsLinks, LinksIn
  <2>2. 0 \in 0..MaxEpoch
    BY SourceBoundsAreNat
  <2>3. CallInOrder'
    BY <1>3 DEF WriterInv, PlanControl, CallInOrder
  <2>4. PlanIsItsLinks'
    <3>1. wpc' = "plan" /\ call' = call /\ toPlan' = toPlan \ {l} /\ rows' = rows
          /\ planned' = planned \cup {PlannedRow(l, 0)} /\ manifest' = manifest
      BY <1>3 DEF PlanControl
    <3>2. planned' \subseteq Row /\ Keyed(planned)' /\ LinksIn(planned)' = LinksIn(planned) \cup {l}
      BY <2>1, <2>2, <3>1, PlanStaysKeyed DEF Planning, Keyed, LinksIn
    <3>3. PlannedRow(l, 0).gen = call.gen /\ Link(PlannedRow(l, 0)) = l
      BY <2>1, <2>2, PlannedRowIsTyped DEF Planning
    <3>4. LinksOf(call.content) = toPlan \cup LinksIn(planned)
      BY <2>1 DEF WriterInv, PlanIsItsLinks, Planning
    <3>. QED BY <2>1, <3>1, <3>2, <3>3, <3>4 DEF WriterInv, PlanIsItsLinks, Planning, LinksIn
  <2>. QED BY <1>2, <1>3, <2>3, <2>4 DEF WriterInv, PlanControl
<1>4. ASSUME NEW l \in toPlan, PlanLive(l) PROVE WriterInv'
  <2>1. CASE l[2] \notin live
    BY <1>4, <2>1, ReturnKeeps DEF PlanLive
  <2>2. CASE l[2] \in live
    <3>1. /\ wpc = "plan" /\ wpc' = "epoch" /\ call' = [call EXCEPT !.at = l]
          /\ toPlan' = toPlan \ {l} /\ UNCHANGED <<manifest, rows, planned, calls>>
      BY <1>4, <2>2 DEF PlanLive
    <3>2. CallInOrder'
      BY <1>1, <3>1 DEF WriterInv, CallInOrder, Planning
    <3>3. call'.gen = call.gen /\ call'.content = call.content /\ call'.at = l
      BY <3>1 DEF WriterInv, CallInOrder
    <3>4. LinksOf(call.content) = toPlan \cup LinksIn(planned) /\ l \notin LinksIn(planned)
      BY <3>1 DEF WriterInv, PlanIsItsLinks, Planning, LinksIn
    <3>5. PlanIsItsLinks'
      BY <1>1, <3>1, <3>3, <3>4 DEF WriterInv, PlanIsItsLinks, Planning, Keyed, LinksIn
    <3>. QED BY <1>2, <1>4, <3>2, <3>5 DEF WriterInv, PlanLive
  <2>. QED BY <2>1, <2>2
<1>5. ASSUME PlanEpoch PROVE WriterInv'
  <2> DEFINE e == LiveEpoch(call.at[2])
  <2>1. /\ wpc = "epoch" /\ call.at \in Docs \X Ends
        /\ call.at \notin LinksIn(planned) /\ call.at \notin toPlan
    BY <1>5 DEF PlanEpoch, WriterInv, PlanIsItsLinks
  <2>2. e \in 0..MaxEpoch
    BY SourceBoundsAreNat DEF WriterInv, EndsTyped, LiveEpoch
  <2>3. CallInOrder'
    BY <1>5 DEF WriterInv, PlanEpoch, CallInOrder, Planning
  <2>4. PlanIsItsLinks'
    <3>1. wpc' = "plan" /\ call' = call /\ toPlan' = toPlan /\ rows' = rows
          /\ planned' = planned \cup {PlannedRow(call.at, e)} /\ manifest' = manifest
      BY <1>5 DEF PlanEpoch
    <3> HIDE DEF e
    <3>2. /\ planned' \subseteq Row /\ Keyed(planned)'
          /\ LinksIn(planned)' = LinksIn(planned) \cup {call.at}
      BY <2>1, <2>2, <3>1, PlanStaysKeyed DEF Planning, Keyed, LinksIn
    <3>3. PlannedRow(call.at, e).gen = call.gen /\ Link(PlannedRow(call.at, e)) = call.at
      BY <2>1, <2>2, PlannedRowIsTyped DEF Planning
    <3>4. LinksOf(call.content) = toPlan \cup LinksIn(planned) \cup {call.at}
      BY <2>1 DEF WriterInv, PlanIsItsLinks, Planning
    <3>. QED BY <2>1, <3>1, <3>2, <3>3, <3>4 DEF WriterInv, PlanIsItsLinks, Planning, LinksIn
  <2>. QED BY <1>2, <1>5, <2>3, <2>4 DEF WriterInv, PlanEpoch
<1>. QED BY <1>3, <1>4, <1>5

\* Rows come and go above the committed generation only, until it is flipped.
LEMMA StageKeeps ==
    ASSUME WriterInv, PreClean \/ Stage
    PROVE  WriterInv'
<1>1. /\ manifest.gen \in 0..MaxGeneration /\ call.gen \in 0..MaxGeneration
      /\ call.gen > manifest.gen /\ call.committed = manifest.gen
  BY DEF WriterInv, Committed, CallInOrder, PreClean, Stage, Planning
<1>2. rows \subseteq Row /\ Keyed(rows) /\ planned \subseteq Row /\ Keyed(planned)
  BY DEF WriterInv, Committed, PlanIsItsLinks
<1>3. \A r \in Row : r.gen \in Int
  BY DEF Row, Generation
<1>4. CASE PreClean
  <2>1. /\ wpc = "plan" /\ wpc' = "stage" /\ toPlan = {} /\ rows' = rows \ Leftovers
        /\ UNCHANGED <<manifest, docs, live, epoch, call, toPlan, planned, calls>>
    BY <1>4 DEF PreClean
  <2>2. \A r : r \in rows' <=> r \in rows /\ r.gen <= manifest.gen
    BY <1>1, <1>2, <1>3, <2>1 DEF Leftovers
  <2>3. RowsOf(manifest.gen)' = RowsOf(manifest.gen)
    BY <1>1, <2>1, <2>2 DEF RowsOf
  <2>4. Committed'
    BY <1>2, <2>1, <2>2, <2>3 DEF WriterInv, Committed, Keyed, LinksIn
  <2>5. CallInOrder' /\ EndsTyped'
    BY <2>1 DEF WriterInv, CallInOrder, EndsTyped, Planning
  <2>6. PlanIsItsLinks'
    BY <2>1, <2>2 DEF WriterInv, PlanIsItsLinks, Planning, Keyed, LinksIn
  <2>. QED BY <2>4, <2>5, <2>6 DEF WriterInv
<1>5. CASE Stage
  <2>1. /\ wpc = "stage" /\ wpc' = "flip"
        /\ rows' = planned \cup {r \in rows : \A p \in planned : ~SameKey(r, p)}
        /\ UNCHANGED <<manifest, docs, live, epoch, call, toPlan, planned, calls>>
    BY <1>5 DEF Stage
  <2>2. /\ \A r \in rows : r.gen <= manifest.gen
        /\ \A p \in planned : p.gen = call.gen
        /\ LinksOf(call.content) = LinksIn(planned)
    BY <2>1 DEF WriterInv, PlanIsItsLinks, Planning
  <2>3. \A r \in rows, p \in planned : r.gen # p.gen
    BY <1>1, <1>2, <1>3, <2>2
  <2>4. rows' = planned \cup rows
    BY <2>1, <2>3 DEF SameKey
  <2>5. Keyed(rows)'
    BY <1>2, <2>3, <2>4 DEF Keyed, SameKey
  <2>6. RowsOf(manifest.gen)' = RowsOf(manifest.gen)
    BY <1>1, <2>1, <2>2, <2>4 DEF RowsOf
  <2>7. RowsOf(call.gen)' = planned
    BY <1>1, <1>2, <1>3, <2>1, <2>2, <2>4 DEF RowsOf
  <2>8. Committed'
    BY <1>2, <2>1, <2>4, <2>5, <2>6 DEF WriterInv, Committed, LinksIn
  <2>9. CallInOrder' /\ EndsTyped'
    BY <2>1 DEF WriterInv, CallInOrder, EndsTyped, Planning
  <2>10. PlanIsItsLinks'
    BY <2>1, <2>2, <2>7 DEF WriterInv, PlanIsItsLinks, Planning, Keyed, LinksIn
  <2>. QED BY <2>8, <2>9, <2>10 DEF WriterInv
<1>. QED BY <1>4, <1>5

\* What the flip writes is the generation, whatever the documents were before.
LEMMA WrittenIsTheGeneration ==
    ASSUME WriterInv
    PROVE  Written = [d \in DOMAIN call.content |-> [gen |-> call.gen, links |-> call.content[d]]]
  BY DEF Written, Absent

LEMMA FlipKeeps ==
    ASSUME WriterInv, Flip \/ CleanUp
    PROVE  WriterInv'
<1>1. manifest.gen \in 0..MaxGeneration /\ call.gen \in 0..MaxGeneration
  BY DEF WriterInv, Committed, CallInOrder
<1>2. CASE Flip
  <2>1. CASE ~InOrder
    BY <1>2, <2>1, ReturnKeeps DEF Flip, stores
  <2>2. CASE InOrder
    <3>1. /\ wpc = "flip" /\ wpc' = "cleanup" /\ call.gen >= manifest.gen
          /\ call.gen = manifest.gen => call.content = manifest.content
          /\ docs' = Written /\ manifest' = [gen |-> call.gen, content |-> call.content]
          /\ UNCHANGED <<rows, live, epoch, call, toPlan, planned, calls>>
      BY <1>2, <2>2 DEF Flip, InOrder
    <3>2. call.gen # NoGeneration /\ call.content \in Contents
      BY <3>1 DEF WriterInv, CallInOrder
    <3>3. LinksIn(RowsOf(call.gen)) = LinksOf(call.content)
      BY <1>1, <3>1 DEF WriterInv, Committed, PlanIsItsLinks
    <3>4. Committed'
      BY <1>1, <3>1, <3>2, <3>3, WrittenIsTheGeneration
         DEF WriterInv, Committed, RowsOf, LinksIn
    <3>5. CallInOrder' /\ EndsTyped' /\ PlanIsItsLinks'
      BY <3>1 DEF WriterInv, CallInOrder, EndsTyped, PlanIsItsLinks, Planning
    <3>. QED BY <3>4, <3>5 DEF WriterInv
  <2>. QED BY <2>1, <2>2
<1>3. CASE CleanUp
  <2>1. /\ wpc = "cleanup" /\ rows' = RowsOf(call.gen) /\ Return
        /\ UNCHANGED <<manifest, docs, live, epoch, calls>>
    BY <1>3 DEF CleanUp, RowsOf
  <2>2. call.gen = manifest.gen
    BY <2>1 DEF WriterInv, CallInOrder
  <2>3. RowsOf(manifest.gen)' = RowsOf(manifest.gen)
    BY <2>1, <2>2 DEF RowsOf
  <2>4. Committed' /\ EndsTyped'
    BY <2>1, <2>2, <2>3 DEF WriterInv, Committed, EndsTyped, Keyed, RowsOf, LinksIn
  <2>5. CallInOrder'
    BY <2>1, SourceBoundsAreNat DEF WriterInv, CallInOrder, Return, NoCall, Planning, NoGeneration
  <2>6. PlanIsItsLinks'
    BY <2>1 DEF PlanIsItsLinks, Return, Planning, Keyed
  <2>. QED BY <2>4, <2>5, <2>6 DEF WriterInv
<1>. QED BY <1>2, <1>3

-----------------------------------------------------------------------------
(* Its steps, one by one, and everybody else's. *)

LEMMA OthersKeepTheSource ==
    ASSUME WriterInv,
           \/ \E e \in KnowledgeEnds : Remove(e) \/ Readd(e)
           \/ Walk \/ Read \/ Done \/ UNCHANGED vars
    PROVE  WriterInv' /\ UNCHANGED <<manifest, docs, rows, wpc>>
<1> USE DEF stores, writer, vars
<1>1. UNCHANGED <<manifest, docs, rows, writer>>
  <2>1. CASE Walk
    BY <2>1 DEF Walk, StartWalk, BeforeKnowledge, BeforeOverlay, FindStart, ReadRows, NextHop,
                JudgeRow, AfterKnowledge, AfterOverlay, Refuse
  <2>2. CASE Read \/ Done
    BY <2>2 DEF Read, ReadManifest, ReadRecord, RecheckManifest, Done
  <2>. QED BY <2>1, <2>2, SMTT(40) DEF Remove, Readd
<1>2. EndsTyped'
  <2>1. CASE UNCHANGED <<live, epoch>>
    BY <2>1 DEF WriterInv, EndsTyped
  <2>2. ASSUME NEW e \in KnowledgeEnds, Remove(e) PROVE EndsTyped'
    BY <2>2 DEF WriterInv, EndsTyped, Remove
  <2>3. ASSUME NEW e \in KnowledgeEnds, Readd(e) PROVE EndsTyped'
    BY <2>3, SourceBoundsAreNat DEF WriterInv, EndsTyped, Readd
  <2>4. Walk => UNCHANGED <<live, epoch>>
    BY DEF Walk, StartWalk, BeforeKnowledge, BeforeOverlay, FindStart, ReadRows, NextHop,
           JudgeRow, AfterKnowledge, AfterOverlay, Refuse
  <2>5. Read \/ Done => UNCHANGED <<live, epoch>>
    BY DEF Read, ReadManifest, ReadRecord, RecheckManifest, Done
  <2>. QED BY <2>1, <2>2, <2>3, <2>4, <2>5
<1>3. Committed' /\ CallInOrder' /\ PlanIsItsLinks'
  BY <1>1 DEF WriterInv, Committed, RowsOf, CallInOrder, PlanIsItsLinks
<1>. QED BY <1>1, <1>2, <1>3 DEF WriterInv

LEMMA ProjectKeeps ==
    ASSUME WriterInv, Project
    PROVE  WriterInv'
<1>1. CASE Stop
  BY <1>1, ReturnKeeps DEF Stop
<1>. QED BY <1>1, CallKeeps, PlanKeeps, StageKeeps, FlipKeeps DEF Project

LEMMA WriterInvHolds == Spec => []WriterInv
<1>1. WriterInv /\ [Next]_vars => WriterInv'
  BY ProjectKeeps, OthersKeepTheSource DEF Next
<1>. QED BY InitIsCommitted, <1>1, PTL DEF Spec

\* The documents and links that readers see are those of the committed generation.
ShownIsCommitted ==
    /\ LinksIn(Shown) = LinksOf(manifest.content)
    /\ Shown = RowsOf(manifest.gen)
    /\ [d \in DOMAIN docs |-> docs[d].links] = manifest.content

LEMMA CommittedIsShown ==
    ASSUME WriterInv
    PROVE  ShownIsCommitted
<1> USE DEF WriterInv, Committed
<1>1. \A r \in RowsOf(manifest.gen) : r.doc \in DOMAIN manifest.content
  <2> SUFFICES ASSUME NEW r \in RowsOf(manifest.gen) PROVE r.doc \in DOMAIN manifest.content
    OBVIOUS
  <2>1. <<r.doc, r.end>> \in LinksOf(manifest.content)
    BY DEF LinksIn, Link
  <2>. QED BY <2>1 DEF LinksOf
<1>2. Shown = RowsOf(manifest.gen)
  BY <1>1 DEF Shown, OwnerLive, RowsOf
<1>3. \E D : manifest.content \in [D -> SUBSET Ends]
  <2>1. CASE manifest.gen = NoGeneration
    BY <2>1 DEF NoContent
  <2>2. CASE manifest.gen # NoGeneration
    BY <2>2, ContentsLinkDocsToEnds
  <2>. QED BY <2>1, <2>2
<1>4. [d \in DOMAIN docs |-> docs[d].links] = manifest.content
  BY <1>3
<1>. QED BY <1>2, <1>4 DEF ShownIsCommitted

SourceInv == WriterInv /\ ShownIsCommitted

LEMMA SourceInvHolds == Spec => []SourceInv
  BY WriterInvHolds, CommittedIsShown, PTL DEF SourceInv

\* Every commit of the projector but the flip leaves what readers see.
LEMMA OnlyFlipsShow ==
    ASSUME SourceInv, ShownIsCommitted', Project, ~Flip
    PROVE  UNCHANGED <<manifest, docs>> /\ Shown' = Shown
<1> USE DEF stores, SourceInv
<1>1. UNCHANGED <<manifest, docs>>
  BY DEF Project, Replace, CheckOrder, PlanControl, PlanLive, PlanEpoch, PreClean, Stage,
         CleanUp, Stop
<1>3. Shown = RowsOf(manifest.gen) /\ Shown' = RowsOf(manifest.gen)'
  BY DEF ShownIsCommitted
<1>4. manifest.gen \in Int /\ \A r \in Row : r.gen \in Int
  BY DEF WriterInv, Committed, Row, Generation
<1>5. rows \subseteq Row
  BY DEF WriterInv, Committed
<1>6. CASE UNCHANGED rows
  BY <1>1, <1>3, <1>6 DEF RowsOf
<1>7. CASE PreClean
  <2>1. call.committed = manifest.gen /\ rows' = rows \ Leftovers
    BY <1>7 DEF PreClean, WriterInv, CallInOrder, Planning
  <2>2. RowsOf(manifest.gen)' = RowsOf(manifest.gen)
    BY <1>1, <1>4, <1>5, <2>1 DEF RowsOf, Leftovers
  <2>. QED BY <1>1, <1>3, <2>2
<1>8. CASE Stage
  <2>1. /\ wpc = "stage" /\ call.gen > manifest.gen /\ call.gen \in Int
        /\ \A p \in planned : p.gen = call.gen
        /\ rows' = planned \cup {r \in rows : \A p \in planned : ~SameKey(r, p)}
    BY <1>8 DEF Stage, WriterInv, CallInOrder, PlanIsItsLinks, Planning
  <2>2. RowsOf(manifest.gen)' = RowsOf(manifest.gen)
    BY <1>1, <1>4, <1>5, <2>1 DEF RowsOf, SameKey
  <2>. QED BY <1>1, <1>3, <2>2
<1>9. CASE CleanUp
  <2>1. call.gen = manifest.gen /\ rows' = RowsOf(call.gen)
    BY <1>9 DEF CleanUp, WriterInv, CallInOrder, RowsOf
  <2>2. RowsOf(manifest.gen)' = RowsOf(manifest.gen)
    BY <1>1, <2>1 DEF RowsOf
  <2>. QED BY <1>1, <1>3, <2>2
<1>. QED BY <1>6, <1>7, <1>8, <1>9
         DEF Project, Replace, CheckOrder, PlanControl, PlanLive, PlanEpoch, Stop

-----------------------------------------------------------------------------
(* The refinement. *)

LEMMA InitIsContract == Init => Contract!Init
<1> SUFFICES ASSUME Init PROVE Contract!Init
  OBVIOUS
<1>1. rows = {} /\ docs = [d \in {} |-> [gen |-> NoGeneration, links |-> {}]]
      /\ manifest.gen = 0
  BY DEF Init, NoGeneration
<1>. QED BY <1>1 DEF Contract!Init, Contract!NoDocuments, Shown

LEMMA FlipIsReplace ==
    ASSUME SourceInv, ShownIsCommitted', Flip
    PROVE  [Contract!Next]_Contract!vars
<1> USE DEF SourceInv
<1>2. /\ LinksIn(Shown) = LinksOf(manifest.content)
      /\ [d \in DOMAIN docs |-> docs[d].links] = manifest.content
  BY DEF ShownIsCommitted
<1>3. /\ LinksIn(Shown)' = LinksOf(manifest'.content)
      /\ [d \in DOMAIN docs |-> docs[d].links]' = manifest'.content
  BY DEF ShownIsCommitted, LinksOf
<1>4. CASE ~InOrder
  BY <1>4 DEF Flip, Contract!vars, stores, Shown, OwnerLive
<1>5. CASE InOrder
  <2>1. /\ wpc = "flip" /\ call.gen >= manifest.gen
        /\ call.gen = manifest.gen => call.content = manifest.content
        /\ manifest' = [gen |-> call.gen, content |-> call.content]
    BY <1>5 DEF Flip, InOrder
  <2>2. /\ call.gen \in 1..MaxGeneration /\ call.content \in Contents
        /\ manifest.gen \in 0..MaxGeneration
    BY <2>1, SourceBoundsAreNat DEF WriterInv, Committed, CallInOrder, NoGeneration
  <2>3. CASE call.gen = manifest.gen
    <3>1. manifest'.gen = manifest.gen /\ manifest'.content = manifest.content
      BY <2>1, <2>3
    <3>. QED BY <1>2, <1>3, <3>1 DEF Contract!vars, LinksIn
  <2>4. CASE call.gen > manifest.gen
    <3>1. Contract!Replace(call.gen, call.content)
      BY <1>3, <2>1, <2>4 DEF Contract!Replace, Contract!LinksOf, LinksOf, LinksIn
    <3>. QED BY <2>2, <3>1 DEF Contract!Next, Contract!Replace
  <2>. QED BY <2>1, <2>2, <2>3, <2>4
<1>. QED BY <1>4, <1>5

\* Replacing a source, a sequence of commits in two databases of which any may
\* be the last, is for its readers the one step SourceContract promises: the
\* documents and exactly the links of one generation become visible together,
\* and a generation never goes back.
THEOREM ReplaceIsOneStep == Spec => ImplementsSource
<1>1. SourceInv /\ ShownIsCommitted' /\ [Next]_vars => [Contract!Next]_Contract!vars
  <2> SUFFICES ASSUME SourceInv, ShownIsCommitted', [Next]_vars PROVE [Contract!Next]_Contract!vars
    OBVIOUS
  <2> USE DEF SourceInv
  <2>1. CASE Flip
    BY <2>1, FlipIsReplace
  <2>2. CASE Project /\ ~Flip
    BY <2>2, OnlyFlipsShow DEF Contract!vars
  <2>3. CASE UNCHANGED <<manifest, docs, rows>>
    BY <2>3 DEF Contract!vars, Shown, OwnerLive
  <2>. QED BY <2>1, <2>2, <2>3, OthersKeepTheSource DEF Next
<1>. QED BY InitIsContract, <1>1, SourceInvHolds, PTL DEF SourceInv, Spec, ImplementsSource, Contract!Spec

\* A row that readers see is never written again: neither a retry of its
\* generation nor any leftover changes the epoch of the end it is bound to.
THEOREM LinksStayWithTheirEnds == Spec => LinksStayBound
<1>1. SourceInv /\ [Next]_vars
        => [\A r \in Shown, s \in rows' : SameKey(r, s) => s.epoch = r.epoch]_vars
  <2> SUFFICES ASSUME SourceInv, [Next]_vars, NEW r \in Shown, NEW s \in rows', SameKey(r, s)
               PROVE  s.epoch = r.epoch
    OBVIOUS
  <2> USE DEF SourceInv
  <2>1. r \in rows /\ r.gen = manifest.gen /\ Keyed(rows) /\ manifest.gen \in Int
    BY DEF ShownIsCommitted, WriterInv, Committed, RowsOf
  <2>2. CASE s \in rows
    BY <2>1, <2>2 DEF Keyed
  <2>3. CASE s \notin rows
    <3>1. Stage
      <4>1. CASE Project
        BY <2>3, <4>1 DEF Project, Replace, CheckOrder, PlanControl, PlanLive, PlanEpoch,
              PreClean, Flip, CleanUp, Stop, stores
      <4>2. CASE UNCHANGED rows
        BY <2>3, <4>2
      <4>. QED BY <4>1, <4>2, OthersKeepTheSource DEF Next
    <3>2. s.gen = call.gen /\ call.gen > manifest.gen /\ call.gen \in Int
      BY <2>3, <3>1 DEF Stage, WriterInv, PlanIsItsLinks, CallInOrder, Planning
    <3>3. s.gen = r.gen
      BY DEF SameKey
    <3>4. call.gen = manifest.gen
      BY <2>1, <3>2, <3>3, Zenon
    <3>. QED BY <2>1, <3>2, <3>4
  <2>. QED BY <2>2, <2>3
<1>. QED BY <1>1, SourceInvHolds, PTL DEF Spec, LinksStayBound

-----------------------------------------------------------------------------
(* The reader. *)

WalkTyped ==
    /\ DOMAIN walk = {"start", "depth", "hops", "attempt", "frontier", "next", "found", "links",
                      "todo", "pins"}
    /\ walk.attempt \in 0..NeighborAttempts
    /\ moved \in [{"knowledge", "overlay"} -> BOOLEAN]
    /\ rpc \in {"idle", "before", "beforeOverlay", "start", "walk", "afterOverlay", "answered",
                "refused", "page", "record", "recheck", "paged", "changed"}

PartialContent == UNION {[D -> SUBSET Ends] : D \in SUBSET Docs}
Paging == {"page", "record", "recheck", "paged"}

\* What was committed is kept, by generation; a pass is pinned to a committed
\* generation, and what it has got is that generation's.
CatalogInv ==
    /\ DOMAIN held = Generation
    /\ manifest.gen # NoGeneration => held[manifest.gen] = manifest.content
    /\ page \in [pinned : 0..MaxGeneration, now : 0..MaxGeneration, total : Nat,
                 at : SUBSET Docs, got : PartialContent]
    /\ rpc \notin Paging \cup {"changed"} => page = NoPage
    /\ rpc \in Paging =>
          /\ page.pinned # NoGeneration /\ page.pinned <= manifest.gen
          /\ page.now = page.pinned
          /\ held[page.pinned] \in Contents
          /\ page.total = Cardinality(DOMAIN held[page.pinned])
          /\ \A d \in DOMAIN page.got :
                d \in DOMAIN held[page.pinned] /\ page.got[d] = held[page.pinned][d]
    /\ rpc = "record" => page.at \subseteq DOMAIN held[page.pinned]
    /\ rpc = "paged" => Cardinality(DOMAIN page.got) = page.total

ReaderInv == WalkTyped /\ CatalogInv

LEMMA ContentIsFinite ==
    ASSUME NEW c \in Contents
    PROVE  /\ c \in PartialContent /\ IsFiniteSet(DOMAIN c)
           /\ Cardinality(DOMAIN c) \in Nat
<1>1. PICK D \in SUBSET Docs : IsFiniteSet(D) /\ c \in [D -> SUBSET Ends]
  BY ContentsLinkDocsToEnds
<1>2. DOMAIN c = D
  BY <1>1
<1>. QED BY <1>1, <1>2, FS_CardinalityType DEF PartialContent

LEMMA NoContentIsPartial == NoContent \in PartialContent
  BY DEF NoContent, PartialContent

LEMMA InitIsReader == Init => ReaderInv
<1> SUFFICES ASSUME Init PROVE ReaderInv
  OBVIOUS
<1>1. WalkTyped
  <2>1. moved \in [{"knowledge", "overlay"} -> BOOLEAN]
    BY DEF Init
  <2>. QED BY <2>1, SourceBoundsAreNat DEF Init, WalkTyped, NoWalk
<1>2. page \in [pinned : 0..MaxGeneration, now : 0..MaxGeneration, total : Nat,
                at : SUBSET Docs, got : PartialContent]
  BY SourceBoundsAreNat, NoContentIsPartial DEF Init, NoPage, NoGeneration
<1>3. CatalogInv
  BY <1>2 DEF Init, CatalogInv, Paging
<1>. QED BY <1>1, <1>3 DEF ReaderInv

LEMMA WriterKeepsWalks ==
    ASSUME WalkTyped, Project \/ \E e \in KnowledgeEnds : Remove(e) \/ Readd(e)
    PROVE  WalkTyped'
<1>1. UNCHANGED <<rpc, walk>>
  BY DEF Project, Replace, CheckOrder, PlanControl, PlanLive, PlanEpoch, PreClean, Stage, Flip,
         CleanUp, Stop, Remove, Readd, reader
<1>2. UNCHANGED moved \/ Moves("knowledge") \/ Moves("overlay")
  BY DEF Project, Replace, CheckOrder, PlanControl, PlanLive, PlanEpoch, PreClean, Stage, Flip,
         CleanUp, Stop, Remove, Readd
<1>3. moved' \in [{"knowledge", "overlay"} -> BOOLEAN]
  <2>1. (walk.attempt > 0) \in BOOLEAN
    OBVIOUS
  <2>. QED BY <1>2, <2>1 DEF WalkTyped, Moves
<1>. QED BY <1>1, <1>3 DEF WalkTyped

LEMMA ReaderKeepsWalks ==
    ASSUME WalkTyped, Walk \/ Read \/ Done
    PROVE  WalkTyped'
<1> USE SourceBoundsAreNat DEF WalkTyped
<1>1. ASSUME NEW n, NEW depth, StartWalk(n, depth) PROVE WalkTyped'
  BY <1>1 DEF StartWalk, NoWalk
<1>2. CASE BeforeKnowledge
  <2>1. moved' \in [{"knowledge", "overlay"} -> BOOLEAN]
    BY <1>2 DEF BeforeKnowledge
  <2>2. DOMAIN walk' = DOMAIN walk /\ walk'.attempt = walk.attempt + 1
    BY <1>2 DEF BeforeKnowledge, NoWalk
  <2>3. walk'.attempt \in 0..NeighborAttempts
    BY <1>2, <2>2 DEF BeforeKnowledge
  <2>. QED BY <1>2, <2>1, <2>2, <2>3 DEF BeforeKnowledge
<1>3. CASE BeforeOverlay
  BY <1>3 DEF BeforeOverlay
<1>4. CASE FindStart
  BY <1>4 DEF FindStart
<1>5. ASSUME NEW n, ReadRows(n) PROVE WalkTyped'
  BY <1>5 DEF ReadRows
<1>6. CASE NextHop
  BY <1>6 DEF NextHop
<1>7. ASSUME NEW r, JudgeRow(r) PROVE WalkTyped'
  BY <1>7 DEF JudgeRow
<1>8. CASE AfterKnowledge \/ AfterOverlay \/ Refuse
  BY <1>8 DEF AfterKnowledge, AfterOverlay, Refuse
<1>9. CASE Read
  BY <1>9 DEF Read, ReadManifest, ReadRecord, RecheckManifest
<1>10. CASE Done
  BY <1>10 DEF Done, NoWalk
<1>. QED BY <1>1, <1>2, <1>3, <1>4, <1>5, <1>6, <1>7, <1>8, <1>9, <1>10 DEF Walk

\* What was committed under a number stays: a generation never goes back, and
\* the same one is flipped again with the same content only.
LEMMA WriterKeepsCatalog ==
    ASSUME WriterInv, CatalogInv, Project \/ \E e \in KnowledgeEnds : Remove(e) \/ Readd(e)
    PROVE  CatalogInv'
<1>1. UNCHANGED <<rpc, page>>
  BY DEF Project, Replace, CheckOrder, PlanControl, PlanLive, PlanEpoch, PreClean, Stage, Flip,
         CleanUp, Stop, Remove, Readd, reader
<1>2. CASE UNCHANGED <<manifest, held>>
  BY <1>1, <1>2 DEF CatalogInv
<1>3. CASE Flip /\ InOrder
  <2>1. /\ call.gen >= manifest.gen
        /\ call.gen = manifest.gen => call.content = manifest.content
        /\ manifest' = [gen |-> call.gen, content |-> call.content]
        /\ held' = [held EXCEPT ![call.gen] = call.content]
    BY <1>3 DEF Flip, InOrder
  <2>2. call.gen \in Generation /\ manifest.gen \in 0..MaxGeneration
    BY <1>3, SourceBoundsAreNat
       DEF Flip, WriterInv, Committed, CallInOrder, NoGeneration, Generation
  <2>3. DOMAIN held' = Generation /\ held'[call.gen] = call.content
    BY <2>1, <2>2 DEF CatalogInv
  <2>4. ASSUME NEW g \in 0..MaxGeneration, g # NoGeneration, g <= manifest.gen
        PROVE  held'[g] = held[g] /\ g <= call.gen
    <3>1. g \in Generation /\ g <= call.gen
      BY <2>1, <2>2, <2>4 DEF Generation, NoGeneration
    <3>2. CASE g # call.gen
      BY <2>1, <3>1, <3>2 DEF CatalogInv
    <3>3. CASE g = call.gen
      <4>1. g = manifest.gen
        BY <2>1, <2>2, <2>4, <3>3
      <4>. QED BY <2>1, <2>3, <2>4, <3>1, <3>3, <4>1 DEF CatalogInv
    <3>. QED BY <3>1, <3>2, <3>3
  <2>5. rpc \in Paging =>
           held'[page.pinned] = held[page.pinned] /\ page.pinned <= call.gen
    BY <2>4 DEF CatalogInv
  <2>. QED BY <1>1, <2>1, <2>3, <2>5 DEF CatalogInv, Paging
<1>. QED BY <1>2, <1>3
         DEF Project, Replace, CheckOrder, PlanControl, PlanLive, PlanEpoch, PreClean, Stage, Flip,
             CleanUp, Stop, Remove, Readd, stores

LEMMA PageKeepsCatalog ==
    ASSUME WriterInv, CatalogInv, ReadManifest
    PROVE  CatalogInv'
<1> DEFINE next == PageDoc(Cardinality(DOMAIN page.got))
           more == PinHolds /\ (next # {} \/ DOMAIN manifest.content = {})
           n    == Cardinality(DOMAIN manifest.content)
<1>1. /\ rpc \in {"idle", "page"} /\ manifest.gen # NoGeneration
      /\ UNCHANGED <<manifest, held>>
  BY DEF ReadManifest, stores
<1>2. /\ manifest.gen \in 0..MaxGeneration /\ manifest.content \in Contents
      /\ held[manifest.gen] = manifest.content
  BY <1>1 DEF WriterInv, Committed, CatalogInv
<1>3. next \subseteq DOMAIN manifest.content /\ n \in Nat /\ DOMAIN manifest.content \subseteq Docs
  BY <1>2, ContentIsFinite, LinksAreTyped DEF PageDoc
<1>4. CASE ~more
  BY <1>1, <1>4 DEF ReadManifest, CatalogInv, Paging
<1>5. CASE more
  <2>1. /\ rpc' = (IF next = {} THEN "recheck" ELSE "record")
        /\ page' = [page EXCEPT !.pinned = IF @ = NoGeneration THEN manifest.gen ELSE @,
                                !.now = manifest.gen, !.at = next, !.total = n]
    BY <1>5 DEF ReadManifest
  <2>2. page.pinned \in {NoGeneration, manifest.gen}
    BY <1>5 DEF PinHolds
  <2> HIDE DEF next, n
  <2>3. /\ page' \in [pinned : 0..MaxGeneration, now : 0..MaxGeneration, total : Nat,
                      at : SUBSET Docs, got : PartialContent]
        /\ page'.pinned = manifest.gen /\ page'.now = manifest.gen /\ page'.at = next
        /\ page'.total = n /\ page'.got = page.got
    BY <1>2, <1>3, <2>1, <2>2 DEF CatalogInv
  <2>4. \A d \in DOMAIN page.got :
           d \in DOMAIN manifest.content /\ page.got[d] = manifest.content[d]
    <3>1. CASE rpc = "idle"
      <4>1. page.got = NoContent
        BY <3>1 DEF CatalogInv, Paging, NoPage
      <4>. QED BY <4>1 DEF NoContent
    <3>2. CASE rpc = "page"
      BY <1>2, <2>2, <3>2 DEF CatalogInv, Paging
    <3>. QED BY <1>1, <3>1, <3>2
  <2>5. n = Cardinality(DOMAIN manifest.content)
    BY DEF n
  <2>6. manifest.gen <= manifest.gen
    BY <1>2
  <2>. QED BY <1>1, <1>2, <1>3, <2>1, <2>3, <2>4, <2>5, <2>6 DEF CatalogInv, Paging
<1>. QED BY <1>4, <1>5

LEMMA RecordKeepsCatalog ==
    ASSUME WriterInv, CatalogInv, NEW d \in page.at, ReadRecord(d)
    PROVE  CatalogInv'
<1>1. rpc = "record" /\ UNCHANGED <<manifest, held>>
  BY DEF ReadRecord, stores
<1> DEFINE read == d \in DOMAIN docs /\ docs[d].gen = page.now
           got  == [x \in DOMAIN page.got \cup {d} |-> IF x = d THEN docs[d].links ELSE page.got[x]]
<1>2. CASE ~read
  BY <1>1, <1>2 DEF ReadRecord, CatalogInv, Paging
<1>3. CASE read
  <2>1. rpc' = "recheck" /\ page' = [page EXCEPT !.got = got]
    BY <1>3 DEF ReadRecord
  <2>2. /\ page.pinned # NoGeneration /\ page.now = page.pinned
        /\ held[page.pinned] \in Contents /\ d \in Docs /\ d \in DOMAIN held[page.pinned]
    BY <1>1 DEF CatalogInv, Paging
  <2>3. page.pinned = manifest.gen /\ docs[d].links = manifest.content[d]
    BY <1>3, <2>2 DEF WriterInv, Committed
  <2>4. docs[d].links = held[page.pinned][d]
    BY <2>2, <2>3 DEF CatalogInv
  <2>5. held[page.pinned][d] \in SUBSET Ends
    BY <2>2, ContentIsFinite DEF PartialContent
  <2>6. got \in PartialContent
    <3>1. PICK D \in SUBSET Docs : page.got \in [D -> SUBSET Ends]
      BY DEF CatalogInv, PartialContent
    <3>2. got \in [D \cup {d} -> SUBSET Ends]
      BY <2>4, <2>5, <3>1
    <3>. QED BY <2>2, <3>2 DEF PartialContent
  <2>7. \A x \in DOMAIN got : x \in DOMAIN held[page.pinned] /\ got[x] = held[page.pinned][x]
    BY <1>1, <2>2, <2>4 DEF CatalogInv, Paging
  <2> HIDE DEF got
  <2>8. /\ page' \in [pinned : 0..MaxGeneration, now : 0..MaxGeneration, total : Nat,
                      at : SUBSET Docs, got : PartialContent]
        /\ page'.pinned = page.pinned /\ page'.now = page.now /\ page'.total = page.total
        /\ page'.got = got
    BY <2>1, <2>6 DEF CatalogInv
  <2>. QED BY <1>1, <2>1, <2>7, <2>8 DEF CatalogInv, Paging
<1>. QED BY <1>2, <1>3

LEMMA ReaderKeepsCatalog ==
    ASSUME WriterInv, CatalogInv, Walk \/ Read \/ Done
    PROVE  CatalogInv'
<1>1. CASE Walk
  <2>1. /\ UNCHANGED <<manifest, held, page>>
        /\ rpc \notin Paging \cup {"changed"} /\ rpc' \notin Paging \cup {"changed"}
    BY <1>1 DEF Walk, StartWalk, BeforeKnowledge, BeforeOverlay, FindStart, ReadRows, NextHop,
                JudgeRow, AfterKnowledge, AfterOverlay, Refuse, Paging, stores
  <2>. QED BY <2>1, SMTT(40) DEF CatalogInv, Paging
<1>2. CASE RecheckManifest
  BY <1>2 DEF RecheckManifest, CatalogInv, Paging, stores
<1>3. CASE Done
  <2>1. page' \in [pinned : 0..MaxGeneration, now : 0..MaxGeneration, total : Nat,
                   at : SUBSET Docs, got : PartialContent]
    BY <1>3, SourceBoundsAreNat, NoContentIsPartial DEF Done, NoPage, NoGeneration
  <2>. QED BY <1>3, <2>1 DEF Done, CatalogInv, Paging, stores
<1>. QED BY <1>1, <1>2, <1>3, PageKeepsCatalog, RecordKeepsCatalog DEF Read

LEMMA ReaderInvHolds == Spec => [](WriterInv /\ ReaderInv)
<1>1. WriterInv /\ ReaderInv /\ [Next]_vars => ReaderInv'
  <2> SUFFICES ASSUME WriterInv, ReaderInv, [Next]_vars PROVE ReaderInv'
    OBVIOUS
  <2>1. CASE UNCHANGED vars
    BY <2>1 DEF vars, stores, reader, ReaderInv, WalkTyped, CatalogInv
  <2>. QED BY <2>1, WriterKeepsWalks, ReaderKeepsWalks, WriterKeepsCatalog, ReaderKeepsCatalog
           DEF Next, ReaderInv
<1>. QED BY InitIsReader, <1>1, WriterInvHolds, PTL DEF Spec

LEMMA TypesHold ==
    ASSUME WriterInv, ReaderInv
    PROVE  LinksTypeOK
<1>1. \A d \in DOMAIN docs : d \in Docs /\ docs[d].gen = manifest.gen /\ docs[d].links \subseteq Ends
  <2>1. CASE manifest.gen = NoGeneration
    BY <2>1 DEF WriterInv, Committed, NoContent
  <2>2. CASE manifest.gen # NoGeneration
    BY <2>2, ContentIsFinite DEF WriterInv, Committed, PartialContent
  <2>. QED BY <2>1, <2>2
<1>2. wpc \in {"idle", "order", "plan", "epoch", "stage", "flip", "cleanup"}
  BY DEF WriterInv, CallInOrder, Planning
<1>. QED BY <1>1, <1>2
         DEF LinksTypeOK, WriterInv, Committed, EndsTyped, CallInOrder, PlanIsItsLinks,
             ReaderInv, WalkTyped

\* No row, document or call is ever out of type, and every live document is of
\* the committed generation.
THEOREM LinksTypeCorrect == Spec => []LinksTypeOK
  BY TypesHold, ReaderInvHolds, PTL

\* A pass over the catalog (source_catalog with a pinned generation, page after
\* page, while the source may be replaced between any two statements) that
\* reaches its end has read one committed generation, complete.
THEOREM CatalogIsWhole == Spec => []CatalogIsOneGeneration
<1>1. ReaderInv => CatalogIsOneGeneration
  <2> SUFFICES ASSUME ReaderInv, rpc = "paged" PROVE page.got = held[page.pinned]
    BY DEF CatalogIsOneGeneration
  <2> DEFINE whole == held[page.pinned]
  <2>1. /\ whole \in Contents /\ page.got \in PartialContent
        /\ \A d \in DOMAIN page.got : d \in DOMAIN whole /\ page.got[d] = whole[d]
        /\ Cardinality(DOMAIN page.got) = Cardinality(DOMAIN whole)
    BY DEF ReaderInv, CatalogInv, Paging
  <2>2. IsFiniteSet(DOMAIN whole) /\ whole \in PartialContent
    BY <2>1, ContentIsFinite
  <2> HIDE DEF whole
  <2>3. DOMAIN page.got = DOMAIN whole
    <3>1. DOMAIN page.got \in SUBSET DOMAIN whole
      BY <2>1
    <3>. QED BY <2>1, <2>2, <3>1, FS_Subset
  <2>4. page.got = whole
    BY <2>1, <2>2, <2>3 DEF PartialContent
  <2>. QED BY <2>4 DEF whole
<1>. QED BY <1>1, ReaderInvHolds, PTL

-----------------------------------------------------------------------------
(* A walk.                                                                  *)

Nodes      == Docs \cup Ends
OneHop(N)  == {l \in view : l[1] \in N \/ l[2] \in N}
Reached(N) == N \cup {l[1] : l \in OneHop(N)} \cup {l[2] : l \in OneHop(N)}

\* Near is a recursive function over four numbers: the one that its equation
\* describes exists.
LEMMA NearUnfolds ==
    \A k \in 0..3 : \A N \in SUBSET Nodes :
        Near[k][N] = IF k = 0 THEN {} ELSE OneHop(N) \cup Near[k - 1][Reached(N)]
<1> DEFINE Body(f) == [k \in 0..3 |-> [N \in SUBSET Nodes |->
                         IF k = 0 THEN {} ELSE OneHop(N) \cup f[k - 1][Reached(N)]]]
           none == [N \in SUBSET Nodes |-> {}]
           more(f) == [N \in SUBSET Nodes |-> OneHop(N) \cup f[Reached(N)]]
           one   == more(none)
           two   == more(one)
           three == more(two)
           g == [k \in 0..3 |-> IF k = 0 THEN none ELSE IF k = 1 THEN one
                                ELSE IF k = 2 THEN two ELSE three]
<1>1. Near = CHOOSE f : f = Body(f)
  BY DEF Near, OneHop, Reached, Nodes
<1>2. g = Body(g)
  <2>1. g[0] = none /\ g[1] = one /\ g[2] = two /\ g[3] = three
    OBVIOUS
  <2>2. Body(g)[0] = none
    BY DEF none
  <2> HIDE DEF g
  <2>3. ASSUME NEW k \in {1, 2, 3} PROVE Body(g)[k] = more(g[k - 1])
    <3>1. k # 0 /\ k \in 0..3
      OBVIOUS
    <3>2. Body(g)[k] = [N \in SUBSET Nodes |->
                           IF k = 0 THEN {} ELSE OneHop(N) \cup g[k - 1][Reached(N)]]
      BY <3>1
    <3>. QED BY <3>1, <3>2
  <2> HIDE DEF more, none
  <2>4. \A k \in 0..3 : g[k] = Body(g)[k]
    <3> HIDE DEF Body
    <3>1. Body(g)[1] = more(g[0]) /\ Body(g)[2] = more(g[1]) /\ Body(g)[3] = more(g[2])
      BY <2>3
    <3>2. Body(g)[1] = one /\ Body(g)[2] = two /\ Body(g)[3] = three
      BY <2>1, <3>1
    <3>. QED BY <2>1, <2>2, <3>2
  <2>5. DOMAIN g = 0..3 /\ DOMAIN Body(g) = 0..3 /\ g = [k \in 0..3 |-> g[k]]
    BY DEF g
  <2>6. Body(g) = [k \in 0..3 |-> Body(g)[k]]
    OBVIOUS
  <2> HIDE DEF Body
  <2>. QED BY <2>4, <2>5, <2>6
<1> HIDE DEF g
<1>3. Near = Body(Near)
  <2> HIDE DEF Body
  <2>. QED BY <1>1, <1>2
<1>4. \A k \in 0..3 : \A N \in SUBSET Nodes :
         Body(Near)[k][N] = IF k = 0 THEN {} ELSE OneHop(N) \cup Near[k - 1][Reached(N)]
  OBVIOUS
<1> HIDE DEF Body
<1>. QED BY <1>3, <1>4

\* Nothing touches what is closed under the links but its own links.
LEMMA NearOfClosed ==
    ASSUME NEW N \in SUBSET Nodes, Reached(N) \subseteq N, NEW k \in 0..3
    PROVE  Near[k][N] \subseteq OneHop(N)
<1>1. Reached(N) = N
  BY DEF Reached
<1>2. Near[0][N] = {}
  BY NearUnfolds
<1>3. Near[1][N] = OneHop(N) \cup Near[0][N]
  BY <1>1, NearUnfolds
<1>4. Near[2][N] = OneHop(N) \cup Near[1][N]
  BY <1>1, NearUnfolds
<1>5. Near[3][N] = OneHop(N) \cup Near[2][N]
  BY <1>1, NearUnfolds
<1>6. k = 0 \/ k = 1 \/ k = 2 \/ k = 3
  OBVIOUS
<1>. QED BY <1>2, <1>3, <1>4, <1>5, <1>6

\* The links of the present state.
Seen == {Link(r) : r \in {s \in Shown : Resolves(s)}}
Calm == ~moved["knowledge"] /\ ~moved["overlay"]

\* Where a walk stands, while nothing has been written since its attempt began:
\* base is what it has reached by earlier hops.
Base == walk.found \ walk.next
WalkSound ==
    /\ view = Seen
    /\ walk.found \in SUBSET Nodes /\ \A n \in walk.found : Hydrates(n)
    /\ walk.next \subseteq walk.found /\ walk.frontier \subseteq Base
    /\ walk.links \subseteq OneHop(Base)
    /\ \A l \in walk.links : l[1] \in walk.found /\ l[2] \in walk.found
    /\ \A n \in walk.next : \E l \in walk.links : n \in {l[1], l[2]}
    /\ \A r \in walk.todo : r \in rows /\ (r.doc \in Base \/ r.end \in Base)
    /\ \A d \in DOMAIN walk.pins :
          walk.pins[d] = IF d \in DOMAIN docs THEN docs[d].gen ELSE NoGeneration
    /\ \A l \in OneHop(Base) :
          \/ l \in walk.links \/ l[1] \in walk.frontier \/ l[2] \in walk.frontier
          \/ \E r \in walk.todo : r \in Shown /\ Resolves(r) /\ Link(r) = l
    /\ Near[walk.depth][walk.start] = walk.links \cup Near[walk.hops][Base]
    /\ walk.hops = 0 => walk.todo = {}

\* A walk has a question, and what it knows is right unless it will be refused.
WalkInv ==
    /\ rpc \in {"before", "beforeOverlay", "start", "walk", "afterOverlay"} =>
          walk.depth \in 1..3 /\ \E n \in Nodes : walk.start = {n}
    /\ rpc \in {"beforeOverlay", "start", "walk", "afterOverlay"} => walk.attempt > 0
    /\ rpc \in {"beforeOverlay", "start"} =>
          walk = [NoWalk EXCEPT !.start = walk.start, !.depth = walk.depth,
                                !.hops = walk.depth, !.attempt = walk.attempt]
    /\ rpc = "walk" => walk.hops \in 0..3
    /\ rpc = "start" /\ Calm => view = Seen
    /\ rpc = "walk" /\ Calm => WalkSound
    /\ rpc = "afterOverlay" /\ ~moved["overlay"] => walk.links = Near[walk.depth][walk.start]
    /\ WalkIsOneState

LEMMA SeenIsThere ==
    ASSUME LinksTypeOK
    PROVE  /\ Seen \subseteq Docs \X Ends
           /\ \A l \in Seen : Hydrates(l[1]) /\ Hydrates(l[2])
  BY DEF LinksTypeOK, Seen, Shown, OwnerLive, Resolves, Link, Hydrates, Row

\* The writer is noticed.
LEMMA WriterIsNoticed ==
    ASSUME WalkTyped, walk.attempt > 0, Project \/ \E e \in KnowledgeEnds : Remove(e) \/ Readd(e)
    PROVE  /\ moved["knowledge"] => moved'["knowledge"]
           /\ moved["overlay"] => moved'["overlay"]
           /\ Calm' => UNCHANGED <<docs, rows, live, epoch>>
<1>1. UNCHANGED <<stores, moved>> \/ UNCHANGED <<docs, rows, live, epoch, moved>>
        \/ Moves("knowledge") \/ Moves("overlay")
  BY DEF Project, Replace, CheckOrder, PlanControl, PlanLive, PlanEpoch, PreClean, Stage, Flip,
         CleanUp, Stop, Remove, Readd
<1>. QED BY <1>1 DEF WalkTyped, Moves, Calm, stores

LEMMA WriterKeepsWalk ==
    ASSUME WalkTyped, WalkInv, Project \/ \E e \in KnowledgeEnds : Remove(e) \/ Readd(e)
    PROVE  WalkInv'
<1>1. UNCHANGED <<rpc, walk, view>>
  BY DEF Project, Replace, CheckOrder, PlanControl, PlanLive, PlanEpoch, PreClean, Stage, Flip,
         CleanUp, Stop, Remove, Readd, reader
<1>2. Near' = Near
  BY <1>1 DEF Near
<1>3. WalkIsOneState'
  BY <1>1, <1>2 DEF WalkInv, WalkIsOneState
<1>4. rpc \in {"start", "walk"} /\ Calm' => Calm /\ UNCHANGED <<docs, rows, live, epoch>>
  BY WriterIsNoticed DEF WalkInv, Calm
<1>5. UNCHANGED <<docs, rows, live, epoch>> => Seen' = Seen
  BY DEF Seen, Shown, OwnerLive, Resolves, LiveEpoch, Link
<1>6. rpc = "walk" /\ Calm' => WalkSound'
  <2> SUFFICES ASSUME rpc = "walk", Calm' PROVE WalkSound'
    OBVIOUS
  <2>1. WalkSound /\ UNCHANGED <<docs, rows, live, epoch>> /\ Seen' = Seen
    BY <1>4, <1>5 DEF WalkInv
  <2>2. Base' = Base /\ OneHop(Base)' = OneHop(Base)
    BY <1>1 DEF Base, OneHop
  <2>3. \A n : Hydrates(n)' <=> Hydrates(n)
    BY <2>1 DEF Hydrates
  <2>4. Shown' = Shown /\ \A r : Resolves(r)' <=> Resolves(r)
    BY <2>1 DEF Shown, OwnerLive, Resolves, LiveEpoch
  <2>. QED BY <1>1, <1>2, <2>1, <2>2, <2>3, <2>4 DEF WalkSound
<1>7. rpc = "afterOverlay" /\ ~moved'["overlay"] => ~moved["overlay"]
  BY WriterIsNoticed DEF WalkInv
<1>. QED BY <1>1, <1>2, <1>3, <1>4, <1>5, <1>6, <1>7 DEF WalkInv

LEMMA AttemptKeepsWalk ==
    ASSUME WalkTyped, WalkInv,
           (\E w \in Walks : StartWalk(w[1], w[2])) \/ BeforeKnowledge \/ BeforeOverlay
    PROVE  WalkInv'
<1>1. ASSUME NEW w \in Walks, StartWalk(w[1], w[2]) PROVE WalkInv'
  <2>1. w[1] \in Nodes /\ w[2] \in 1..3
    BY WalksAreShort DEF Nodes
  <2>2. rpc' = "before" /\ walk'.start = {w[1]} /\ walk'.depth = w[2]
    BY <1>1 DEF StartWalk, NoWalk
  <2>. QED BY <2>1, <2>2 DEF WalkInv, WalkIsOneState
<1>2. CASE BeforeKnowledge
  <2>1. /\ rpc = "before" /\ rpc' = "beforeOverlay" /\ view' = view
        /\ walk' = [NoWalk EXCEPT !.start = walk.start, !.depth = walk.depth,
                                  !.hops = walk.depth, !.attempt = walk.attempt + 1]
    BY <1>2 DEF BeforeKnowledge
  <2>2. walk'.start = walk.start /\ walk'.depth = walk.depth /\ walk'.attempt = walk.attempt + 1
    BY <2>1 DEF NoWalk
  <2>3. walk'.attempt > 0
    BY <2>2 DEF WalkTyped
  <2>. QED BY <2>1, <2>2, <2>3 DEF WalkInv, WalkIsOneState
<1>3. CASE BeforeOverlay
  <2>1. rpc = "beforeOverlay" /\ rpc' = "start" /\ walk' = walk /\ view' = Seen /\ UNCHANGED stores
    BY <1>3 DEF BeforeOverlay, Seen
  <2>2. Seen' = Seen
    BY <2>1 DEF Seen, Shown, OwnerLive, Resolves, LiveEpoch, Link, stores
  <2>. QED BY <2>1, <2>2 DEF WalkInv, WalkIsOneState
<1>. QED BY <1>1, <1>2, <1>3

LEMMA EndKeepsWalk ==
    ASSUME WalkInv, AfterKnowledge \/ AfterOverlay \/ Refuse \/ Read \/ Done
    PROVE  WalkInv'
<1>1. CASE AfterKnowledge
  <2>1. /\ rpc = "walk" /\ walk.hops = 0 /\ rpc' \in {"afterOverlay", "before"}
        /\ rpc' = "afterOverlay" => ~moved["knowledge"]
        /\ UNCHANGED <<walk, moved, view>>
    BY <1>1 DEF AfterKnowledge, Settled
  <2>2. rpc' = "afterOverlay" /\ ~moved["overlay"] => walk.links = Near[walk.depth][walk.start]
    <3>1. SUFFICES ASSUME rpc' = "afterOverlay", ~moved["overlay"]
                   PROVE  walk.links = Near[walk.depth][walk.start]
      OBVIOUS
    <3>2. WalkSound
      BY <2>1, <3>1 DEF WalkInv, Calm
    <3>3. Base \in SUBSET Nodes
      BY <3>2 DEF WalkSound, Base
    <3>4. Near[0][Base] = {}
      BY <3>3, NearUnfolds
    <3>. QED BY <2>1, <3>2, <3>4 DEF WalkSound
  <2>3. Near' = Near
    BY <2>1 DEF Near
  <2>. QED BY <2>1, <2>2, <2>3 DEF WalkInv, WalkIsOneState
<1>2. CASE AfterOverlay
  <2>1. /\ rpc = "afterOverlay" /\ rpc' \in {"answered", "before"}
        /\ rpc' = "answered" => ~moved["overlay"]
        /\ UNCHANGED <<walk, moved, view>>
    BY <1>2 DEF AfterOverlay, Settled
  <2>2. Near' = Near
    BY <2>1 DEF Near
  <2>. QED BY <2>1, <2>2 DEF WalkInv, WalkIsOneState
<1>3. CASE Refuse \/ Read \/ Done
  <2>1. rpc' \in {"refused", "idle", "record", "recheck", "changed", "paged", "page"}
    BY <1>3 DEF Refuse, Read, Done, ReadManifest, ReadRecord, RecheckManifest
  <2>. QED BY <2>1 DEF WalkInv, WalkIsOneState
<1>. QED BY <1>1, <1>2, <1>3

LEMMA StartKeepsWalk ==
    ASSUME LinksTypeOK, WalkInv, FindStart
    PROVE  WalkInv'
<1> DEFINE found == {n \in walk.start : Hydrates(n)}
<1>1. /\ rpc = "start" /\ rpc' = "walk" /\ walk' = [walk EXCEPT !.found = found, !.frontier = found]
      /\ UNCHANGED <<stores, view, moved>>
  BY DEF FindStart
<1>2. /\ walk.start \in SUBSET Nodes /\ (\E n \in Nodes : walk.start = {n})
      /\ walk.depth \in 1..3 /\ walk.attempt > 0
      /\ walk = [NoWalk EXCEPT !.start = walk.start, !.depth = walk.depth,
                               !.hops = walk.depth, !.attempt = walk.attempt]
  BY <1>1 DEF WalkInv
<1>3. /\ walk.next = {} /\ walk.links = {} /\ walk.todo = {} /\ DOMAIN walk.pins = {}
      /\ walk.hops = walk.depth
  BY <1>2 DEF NoWalk
<1>4. /\ walk'.found = found /\ walk'.frontier = found /\ walk'.next = {} /\ walk'.links = {}
      /\ walk'.todo = {} /\ DOMAIN walk'.pins = {} /\ walk'.hops = walk.depth
      /\ walk'.depth = walk.depth /\ walk'.start = walk.start /\ walk'.attempt = walk.attempt
  <2>1. DOMAIN walk = DOMAIN NoWalk
    BY <1>2
  <2>. QED BY <1>1, <1>3, <2>1 DEF NoWalk
<1>5. Near' = Near
  BY <1>1 DEF Near
<1>6. Seen' = Seen /\ \A n : Hydrates(n)' <=> Hydrates(n)
  BY <1>1 DEF Seen, Shown, OwnerLive, Resolves, LiveEpoch, Link, stores, Hydrates
<1>7. ASSUME view = Seen
      PROVE  Near[walk.depth][walk.start] = Near[walk.depth][found]
  <2>1. OneHop(walk.start) = OneHop(found)
    BY <1>7, SeenIsThere DEF OneHop
  <2>2. walk.depth \in 0..3 /\ walk.depth # 0 /\ found \in SUBSET Nodes
    BY <1>2
  <2> HIDE DEF found
  <2>3. /\ Near[walk.depth][walk.start] = OneHop(walk.start) \cup Near[walk.depth - 1][Reached(walk.start)]
        /\ Near[walk.depth][found] = OneHop(found) \cup Near[walk.depth - 1][Reached(found)]
    BY <1>2, <2>2, NearUnfolds
  <2>4. CASE found = walk.start
    BY <2>4
  <2>5. CASE found # walk.start
    <3>1. found = {}
      BY <1>2, <2>5 DEF found
    <3>2. OneHop(found) = {} /\ OneHop(walk.start) = {}
      BY <2>1, <3>1 DEF OneHop
    <3>3. Reached(found) \subseteq found /\ Reached(walk.start) \subseteq walk.start
      BY <3>2 DEF Reached
    <3>4. walk.start \in SUBSET Nodes
      BY <1>2
    <3>. QED BY <2>2, <3>2, <3>3, <3>4, NearOfClosed
  <2>. QED BY <2>4, <2>5
<1>8. ASSUME Calm' PROVE WalkSound'
  <2>1. view = Seen /\ view' = view
    BY <1>1, <1>8 DEF WalkInv, Calm
  <2>2. Base' = found
    BY <1>4 DEF Base
  <2>3. found \in SUBSET Nodes /\ \A n \in found : Hydrates(n)
    BY <1>2
  <2> HIDE DEF found
  <2>4. OneHop(Base)' = {l \in view : l[1] \in found \/ l[2] \in found}
    BY <2>1, <2>2 DEF OneHop
  <2>5. Near'[walk'.depth][walk'.start] = walk'.links \cup Near'[walk'.hops][Base']
    BY <1>4, <1>5, <1>7, <2>1, <2>2
  <2>. QED BY <1>2, <1>4, <1>6, <2>1, <2>2, <2>3, <2>4, <2>5 DEF WalkSound
<1>9. walk'.hops \in 0..3
  BY <1>2, <1>4
<1> HIDE DEF found
<1>. QED BY <1>1, <1>2, <1>4, <1>8, <1>9 DEF WalkInv, WalkIsOneState

LEMMA StateStays ==
    ASSUME UNCHANGED <<stores, view>>
    PROVE  /\ Near' = Near /\ Seen' = Seen /\ Shown' = Shown
           /\ \A n : Hydrates(n)' <=> Hydrates(n)
           /\ \A r : Resolves(r)' <=> Resolves(r)
           /\ \A N : OneHop(N)' = OneHop(N)
<1>1. Near' = Near
  BY DEF Near
<1>2. Shown' = Shown /\ \A r : Resolves(r)' <=> Resolves(r)
  BY DEF Shown, OwnerLive, Resolves, LiveEpoch, stores
<1>. QED BY <1>1, <1>2 DEF Seen, Hydrates, stores, OneHop

\* Steps that stay within a walk.
LEMMA WithinWalk ==
    ASSUME WalkInv, rpc = "walk", UNCHANGED <<rpc, stores, view, moved>>,
           walk'.depth = walk.depth, walk'.start = walk.start, walk'.attempt = walk.attempt,
           walk'.hops \in 0..3, WalkSound => WalkSound'
    PROVE  WalkInv'
  BY DEF WalkInv, WalkIsOneState, Calm

LEMMA RowsKeepWalk ==
    ASSUME WalkTyped, WalkInv, NEW n \in walk.frontier, ReadRows(n)
    PROVE  WalkInv'
<1>1. /\ rpc = "walk" /\ walk.hops > 0 /\ walk.todo = {} /\ walk.hops \in 0..3
      /\ walk' = [walk EXCEPT !.todo = Touching(n), !.frontier = @ \ {n}]
      /\ UNCHANGED <<rpc, stores, view, moved>>
  BY DEF ReadRows, WalkInv
<1>2. /\ walk'.todo = Touching(n) /\ walk'.frontier = walk.frontier \ {n}
      /\ walk'.found = walk.found /\ walk'.next = walk.next /\ walk'.links = walk.links
      /\ walk'.pins = walk.pins /\ walk'.hops = walk.hops /\ walk'.depth = walk.depth
      /\ walk'.start = walk.start /\ walk'.attempt = walk.attempt
  BY <1>1 DEF WalkTyped
<1>3. ASSUME WalkSound PROVE WalkSound'
  <2>1. Base' = Base /\ n \in Base /\ UNCHANGED docs /\ rows' = rows
    BY <1>1, <1>2, <1>3 DEF Base, WalkSound, stores
  <2>2. \A r \in Touching(n) : r \in rows /\ (r.doc \in Base \/ r.end \in Base)
    BY <2>1 DEF Touching
  <2>3. ASSUME NEW l \in OneHop(Base), n \in {l[1], l[2]}
        PROVE  \E r \in Touching(n) : r \in Shown /\ Resolves(r) /\ Link(r) = l
    <3>1. PICK r \in Shown : Resolves(r) /\ Link(r) = l
      BY <1>3 DEF WalkSound, OneHop, Seen
    <3>2. r \in rows /\ l[1] = r.doc /\ l[2] = r.end
      BY <3>1 DEF Shown, Link
    <3>. QED BY <2>3, <3>1, <3>2 DEF Touching
  <2>4. OneHop(Base)' = OneHop(Base)
    BY <1>1, <2>1 DEF OneHop
  <2>5. \A l \in OneHop(Base) :
           \/ l \in walk'.links \/ l[1] \in walk'.frontier \/ l[2] \in walk'.frontier
           \/ \E r \in walk'.todo : r \in Shown /\ Resolves(r) /\ Link(r) = l
    BY <1>1, <1>2, <1>3, <2>3 DEF WalkSound
  <2>. QED BY <1>1, <1>2, <1>3, <2>1, <2>2, <2>4, <2>5, StateStays DEF WalkSound
<1>. QED BY <1>1, <1>2, <1>3, WithinWalk

LEMMA HopKeepsWalk ==
    ASSUME WalkTyped, WalkInv, NextHop
    PROVE  WalkInv'
<1>1. /\ rpc = "walk" /\ walk.hops > 0 /\ walk.todo = {} /\ walk.frontier = {} /\ walk.hops \in 0..3
      /\ walk' = [walk EXCEPT !.hops = IF walk.next = {} THEN 0 ELSE @ - 1,
                              !.frontier = walk.next, !.next = {}]
      /\ UNCHANGED <<rpc, stores, view, moved>>
  BY DEF NextHop, WalkInv
<1>2. /\ walk'.todo = walk.todo /\ walk'.frontier = walk.next
      /\ walk'.found = walk.found /\ walk'.next = {} /\ walk'.links = walk.links
      /\ walk'.pins = walk.pins /\ walk'.depth = walk.depth
      /\ walk'.hops = (IF walk.next = {} THEN 0 ELSE walk.hops - 1)
      /\ walk'.start = walk.start /\ walk'.attempt = walk.attempt
  BY <1>1 DEF WalkTyped
<1>3. walk'.hops \in 0..3
  BY <1>1, <1>2
<1>4. ASSUME WalkSound PROVE WalkSound'
  <2>1. OneHop(Base) = walk.links
    BY <1>1, <1>4 DEF WalkSound
  <2>2. Reached(Base) = walk.found
    <3>1. walk.found = Base \cup walk.next
      BY <1>4 DEF WalkSound, Base
    <3>2. Reached(Base) \subseteq walk.found
      BY <1>4, <2>1, <3>1 DEF WalkSound, Reached
    <3>3. walk.next \subseteq Reached(Base)
      BY <1>4, <2>1 DEF WalkSound, Reached
    <3>. QED BY <3>1, <3>2, <3>3 DEF Reached
  <2>3. Base' = walk.found
    BY <1>2 DEF Base
  <2>4. Base \in SUBSET Nodes /\ walk.found \in SUBSET Nodes
    BY <1>4 DEF WalkSound, Base
  <2>5. Near[walk.depth][walk.start] = walk.links \cup Near[walk.hops - 1][walk.found]
    <3>1. Near[walk.hops][Base] = OneHop(Base) \cup Near[walk.hops - 1][Reached(Base)]
      BY <1>1, <2>4, NearUnfolds
    <3>. QED BY <1>4, <2>1, <2>2, <3>1 DEF WalkSound
  <2>6. Near[walk.depth][walk.start] = walk.links \cup Near[walk'.hops][walk.found]
    <3>1. CASE walk.next = {}
      <4>1. walk.found = Base
        BY <2>4, <3>1 DEF Base
      <4>2. Reached(Base) \subseteq Base
        BY <2>2, <4>1
      <4>3. Near[walk.hops - 1][Base] \subseteq OneHop(Base) /\ Near[0][Base] \subseteq OneHop(Base)
        <5>1. walk.hops - 1 \in 0..3 /\ 0 \in 0..3
          BY <1>1
        <5>. QED BY <2>4, <4>2, <5>1, NearOfClosed
      <4>4. walk'.hops = 0
        BY <1>2, <3>1
      <4>. QED BY <2>1, <2>5, <4>1, <4>3, <4>4
    <3>2. CASE walk.next # {}
      BY <1>2, <2>5, <3>2
    <3>. QED BY <3>1, <3>2
  <2>7. \A l \in OneHop(walk.found) :
           l \in walk.links \/ l[1] \in walk.next \/ l[2] \in walk.next
    BY <2>1, <2>3 DEF OneHop, Base
  <2>8. OneHop(Base)' = OneHop(walk.found)
    BY <1>1, <2>3 DEF OneHop
  <2>9. walk.links \subseteq OneHop(walk.found)
    BY <2>1 DEF OneHop, Base
  <2>10. rows' = rows /\ docs' = docs
    BY <1>1 DEF stores
  <2>. QED BY <1>1, <1>2, <1>4, <2>3, <2>6, <2>7, <2>8, <2>9, <2>10, StateStays DEF WalkSound
<1>. QED BY <1>1, <1>2, <1>3, <1>4, WithinWalk

\* A row is kept just when it is a link of the state the attempt began in.
LEMMA JudgeKeepsWalk ==
    ASSUME LinksTypeOK, WalkTyped, WalkInv, NEW r \in walk.todo, JudgeRow(r)
    PROVE  WalkInv'
<1> DEFINE far  == {r.doc, r.end} \ walk.found
           keep == /\ Pinned(r.doc) = r.gen
                   /\ r.end \in ControlEnds \/ LiveEpoch(r.end) = r.epoch
                   /\ \A n \in far : Hydrates(n)
<1>1. /\ rpc = "walk"
      /\ walk' = [walk EXCEPT
              !.todo = @ \ {r},
              !.pins = [d \in DOMAIN @ \cup {r.doc} |-> Pinned(d)],
              !.found = IF keep THEN @ \cup far ELSE @,
              !.next = IF keep THEN @ \cup far ELSE @,
              !.links = IF keep THEN @ \cup {Link(r)} ELSE @]
      /\ UNCHANGED <<rpc, stores, view, moved>>
  BY DEF JudgeRow
<1>2. /\ walk'.todo = walk.todo \ {r}
      /\ walk'.pins = [d \in DOMAIN walk.pins \cup {r.doc} |-> Pinned(d)]
      /\ walk'.found = (IF keep THEN walk.found \cup far ELSE walk.found)
      /\ walk'.next = (IF keep THEN walk.next \cup far ELSE walk.next)
      /\ walk'.links = (IF keep THEN walk.links \cup {Link(r)} ELSE walk.links)
  <2> HIDE DEF keep, far
  <2>. QED BY <1>1 DEF WalkTyped
<1>3. /\ walk'.frontier = walk.frontier /\ walk'.hops = walk.hops /\ walk'.depth = walk.depth
      /\ walk'.start = walk.start /\ walk'.attempt = walk.attempt
  <2> HIDE DEF keep, far
  <2>. QED BY <1>1 DEF WalkTyped
<1>4. ASSUME WalkSound PROVE WalkSound'
  <2>1. /\ r \in rows /\ r \in Row /\ r.gen # NoGeneration
        /\ r.doc \in Docs /\ r.end \in Ends /\ r.doc \in Nodes /\ r.end \in Nodes
        /\ r.doc \in Base \/ r.end \in Base
    BY <1>4 DEF WalkSound, LinksTypeOK, Row, Generation, NoGeneration, Nodes
  <2>2. \A d : Pinned(d) = IF d \in DOMAIN docs THEN docs[d].gen ELSE NoGeneration
    BY <1>4 DEF WalkSound, Pinned
  <2>3. Pinned(r.doc) = r.gen <=> r \in Shown
    BY <2>1, <2>2 DEF Shown, OwnerLive
  <2>4. r \in Shown => Hydrates(r.doc)
    BY DEF Shown, OwnerLive, Hydrates
  <2>5. r.end \in live \cup ControlEnds <=> Hydrates(r.end)
    BY <2>1, NodesAreDistinct DEF Hydrates, LinksTypeOK
  <2>6. (\A n \in far : Hydrates(n)) <=> Hydrates(r.doc) /\ Hydrates(r.end)
    BY <1>4 DEF WalkSound
  <2>7. keep <=> r \in Shown /\ Resolves(r)
    BY <2>3, <2>4, <2>5, <2>6 DEF Resolves
  <2>8. far \subseteq Nodes /\ far \subseteq {r.doc, r.end} /\ far \cap walk.found = {}
        /\ {r.doc, r.end} \subseteq walk.found \cup far
    BY <2>1
  <2>9. keep => \A n \in far : Hydrates(n)
    OBVIOUS
  <2> HIDE DEF far, keep
  <2>10. keep => Link(r) \in OneHop(Base)
    BY <1>4, <2>1, <2>7 DEF WalkSound, OneHop, Seen, Link
  <2>11. Base' = Base
    BY <1>2, <2>8 DEF Base
  <2>12. OneHop(Base)' = OneHop(Base)
    BY <1>1, <2>11 DEF OneHop
  <2>13. walk'.found \in SUBSET Nodes /\ \A n \in walk'.found : Hydrates(n)
    BY <1>2, <1>4, <2>8, <2>9 DEF WalkSound
  <2>14. walk'.next \subseteq walk'.found /\ walk'.frontier \subseteq Base
    BY <1>2, <1>3, <1>4 DEF WalkSound
  <2>15. walk'.links \subseteq OneHop(Base)
    BY <1>2, <1>4, <2>10 DEF WalkSound
  <2>16. Link(r)[1] = r.doc /\ Link(r)[2] = r.end
    BY DEF Link
  <2>17. \A l \in walk'.links : l[1] \in walk'.found /\ l[2] \in walk'.found
    <3>1. ASSUME keep PROVE Link(r)[1] \in walk'.found /\ Link(r)[2] \in walk'.found
      BY <1>2, <2>8, <2>16, <3>1
    <3>2. \A l \in walk.links : l[1] \in walk'.found /\ l[2] \in walk'.found
      BY <1>2, <1>4 DEF WalkSound
    <3>. QED BY <1>2, <3>1, <3>2
  <2>18. \A n \in walk'.next : \E l \in walk'.links : n \in {l[1], l[2]}
    <3>1. ASSUME keep, NEW n \in far PROVE \E l \in walk'.links : n \in {l[1], l[2]}
      BY <1>2, <2>8, <2>16, <3>1
    <3>2. walk.links \subseteq walk'.links
      BY <1>2
    <3>3. \A n \in walk.next : \E l \in walk'.links : n \in {l[1], l[2]}
      BY <1>4, <3>2 DEF WalkSound
    <3>. QED BY <1>2, <3>1, <3>3
  <2>19. \A s \in walk'.todo : s \in rows /\ (s.doc \in Base \/ s.end \in Base)
    BY <1>2, <1>4 DEF WalkSound
  <2>20. \A d \in DOMAIN walk'.pins :
            walk'.pins[d] = IF d \in DOMAIN docs THEN docs[d].gen ELSE NoGeneration
    BY <1>2, <2>2
  <2>21. \A l \in OneHop(Base) :
            \/ l \in walk'.links \/ l[1] \in walk'.frontier \/ l[2] \in walk'.frontier
            \/ \E s \in walk'.todo : s \in Shown /\ Resolves(s) /\ Link(s) = l
    <3> SUFFICES ASSUME NEW l \in OneHop(Base), NEW s \in walk.todo,
                        s \in Shown, Resolves(s), Link(s) = l
                 PROVE  \/ l \in walk'.links
                        \/ \E t \in walk'.todo : t \in Shown /\ Resolves(t) /\ Link(t) = l
      BY <1>2, <1>3, <1>4 DEF WalkSound
    <3>1. CASE s = r
      BY <1>2, <2>7, <3>1
    <3>2. CASE s # r
      BY <1>2, <3>2
    <3>. QED BY <3>1, <3>2
  <2>22. Near[walk.depth][walk.start] = walk'.links \cup Near[walk.hops][Base]
    <3>1. walk.hops \in 0..3 /\ walk.hops # 0 /\ Base \in SUBSET Nodes
      BY <1>1, <1>4 DEF WalkInv, WalkSound, Base
    <3>2. OneHop(Base) \subseteq Near[walk.hops][Base]
      BY <3>1, NearUnfolds
    <3>3. Near[walk.depth][walk.start] = walk.links \cup Near[walk.hops][Base]
      BY <1>4 DEF WalkSound
    <3>. QED BY <1>2, <2>10, <3>2, <3>3
  <2>23. rows' = rows /\ docs' = docs /\ view' = view /\ (walk.hops = 0 => walk'.todo = {})
    BY <1>1, <1>2, <1>4 DEF stores, WalkSound
  <2>24. view = Seen
    BY <1>4 DEF WalkSound
  <2>25. /\ Near' = Near /\ Seen' = Seen /\ Shown' = Shown
         /\ \A n : Hydrates(n)' <=> Hydrates(n)
         /\ \A s : Resolves(s)' <=> Resolves(s)
    BY <1>1, StateStays
  <2>26. \A s : Link(s)' = Link(s)
    BY DEF Link
  <2>. QED
    <3>1. view' = Seen' /\ Near'[walk'.depth][walk'.start] = walk'.links \cup Near'[walk'.hops][Base']
      BY <1>3, <2>11, <2>22, <2>23, <2>24, <2>25
    <3>2. \A l \in OneHop(Base)' :
            \/ l \in walk'.links \/ l[1] \in walk'.frontier \/ l[2] \in walk'.frontier
            \/ \E s \in walk'.todo : s \in Shown' /\ Resolves(s)' /\ Link(s)' = l
      BY <2>12, <2>21, <2>25, <2>26
    <3>3. \A n \in walk'.found : Hydrates(n)'
      BY <2>13, <2>25
    <3>. QED BY <1>3, <2>11, <2>12, <2>13, <2>14, <2>15, <2>17, <2>18, <2>19, <2>20, <2>23,
                <3>1, <3>2, <3>3 DEF WalkSound
<1>5. walk.hops \in 0..3
  BY <1>1 DEF WalkInv
<1> HIDE DEF keep, far
<1>. QED BY <1>1, <1>3, <1>4, <1>5, WithinWalk

LEMMA InitIsWalk == Init => WalkInv
  BY DEF Init, WalkInv, WalkIsOneState

LEMMA StepKeepsWalk ==
    ASSUME LinksTypeOK, WalkTyped, WalkInv, [Next]_vars
    PROVE  WalkInv'
<1>1. CASE UNCHANGED vars
  <2>1. UNCHANGED <<stores, rpc, walk, view, moved>>
    BY <1>1 DEF vars, reader
  <2>2. Near' = Near /\ Seen' = Seen /\ Shown' = Shown /\ Base' = Base
        /\ OneHop(Base)' = OneHop(Base)
    BY <2>1, StateStays DEF Base, OneHop
  <2>3. docs' = docs /\ rows' = rows
    BY <2>1 DEF stores
  <2>4. WalkSound => WalkSound'
    BY <2>1, <2>2, <2>3, StateStays DEF WalkSound
  <2>. QED BY <2>1, <2>2, <2>4 DEF WalkInv, WalkIsOneState, Calm
<1>2. CASE Project \/ \E e \in KnowledgeEnds : Remove(e) \/ Readd(e)
  BY <1>2, WriterKeepsWalk
<1>3. CASE Walk
  BY <1>3, AttemptKeepsWalk, StartKeepsWalk, RowsKeepWalk, HopKeepsWalk, JudgeKeepsWalk,
     EndKeepsWalk DEF Walk
<1>4. CASE Read \/ Done
  BY <1>4, EndKeepsWalk
<1>. QED BY <1>1, <1>2, <1>3, <1>4 DEF Next

\* What neighbors returns is the neighbourhood in one state of both databases:
\* however its reads fall among flips, cleanups, ends removed and re-added, an
\* attempt that data_version finds undisturbed has followed every link of the
\* state it began in within its depth, and no other.
THEOREM WalksAreOneState == Spec => []WalkIsOneState
<1>1. LinksTypeOK /\ WalkTyped /\ WalkInv /\ [Next]_vars => WalkInv'
  BY StepKeepsWalk
<1>2. WalkInv => WalkIsOneState
  BY DEF WalkInv
<1>3. Spec => [](LinksTypeOK /\ WalkTyped)
  <2>1. WriterInv /\ ReaderInv => LinksTypeOK /\ WalkTyped
    BY TypesHold DEF ReaderInv
  <2>. QED BY <2>1, ReaderInvHolds, PTL
<1>. QED BY <1>1, <1>2, <1>3, InitIsWalk, PTL DEF Spec
=============================================================================
