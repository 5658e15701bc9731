---------------------------- MODULE IndexerProofs ----------------------------
(***************************************************************************)
(* The index certifies what it stores, for every set of files, texts and   *)
(* environments and whatever runs died: a digest its file's nodes, the     *)
(* meta keys the environment of the rows. Until a run dies it loses no     *)
(* reference and keeps the value flow of a first index; a run that         *)
(* extracts everything repairs what dead runs left.                        *)
(***************************************************************************)
EXTENDS Indexer, FiniteSetTheorems, TLAPS

Edge == [from : Files, kind : {"calls", "imports", "flows"}, to : Symbol]
Site == [file : Files, ref : Ref]

\* The steps after classification: the run has something to extract.
Extracting == {"remove", "write", "resolve", "rederive", "backfill", "restore", "prune", "finish"}
Written    == Extracting \ {"remove", "write"}

JobTyped ==
    job \in [force : BOOLEAN, overrideGate : BOOLEAN, schemeGate : BOOLEAN,
             importers : SUBSET Files, changed : SUBSET Files, fresh : BOOLEAN,
             skipped : BOOLEAN, rederive : SUBSET Files, touched : SUBSET Symbol,
             collateral : SUBSET Edge]

MetaTyped == meta \in [version : Nat, rules : Nat, overrides : Nat, scheme : Nat]

\* The disk does not move under a run, so what it decided to extract is there.
ChangedArePresent == pc \in Extracting => job.changed \subseteq Present

TypeInv == IndexTypeOK /\ JobTyped /\ MetaTyped /\ ChangedArePresent

\* Between the removal and the write a changed file has no row at all, and after
\* the write it is certified.
ChangedAreRewritten ==
    /\ pc = "write" => \A f \in job.changed : digests[f] = NoDigest
    /\ pc \in Written => \A f \in job.changed : digests[f] = disk[f]

\* The callers whose records are replayed stay indexed through the run.
RederivedStay ==
    pc \in {"remove", "write", "resolve", "rederive"} =>
        \A f \in job.rederive : f \notin job.changed /\ digests[f] # NoDigest

ParkedAreIndexed == \A p \in parked : digests[p.file] # NoDigest

DigestInv ==
    /\ TypeInv
    /\ ChangedAreRewritten /\ RederivedStay /\ ParkedAreIndexed
    /\ DigestCertifiesNodes

-----------------------------------------------------------------------------
(* Extraction and resolution.                                              *)

\* Extraction mints symbols of its file only, and no caller's end of a hop.
LEMMA MintIsOwn ==
    ASSUME NEW f \in Files, NEW t \in AllTexts
    PROVE  /\ Mint(f, t) \in SUBSET Symbol
           /\ \A s \in Mint(f, t) : s.file = f /\ s.end \notin {"argument", "result"}
<1>1. t.defs \subseteq Names /\ t.ends \subseteq [name : t.defs, end : {"param", "return"}]
  BY TextsAreTexts
<1>. QED BY <1>1 DEF Mint, FileNode, Def, Symbol

LEMMA SitesAreTyped ==
    ASSUME NEW F \in SUBSET Files
    PROVE  /\ Sites(F) \in SUBSET Site
           /\ \A p \in Sites(F) : p.file \in F
  BY DEF Sites, Site

\* A reference binds to nodes only.
LEMMA BindsToNodes ==
    ASSUME NEW f, NEW r, NEW N
    PROVE  Binds(f, r, N) \subseteq N
  BY DEF Binds, Candidates, Defs

LEMMA ResolvedAreEdges ==
    ASSUME NEW P \in SUBSET Site, NEW N \in SUBSET Symbol
    PROVE  /\ ResolvedEdges(P, N) \in SUBSET Edge
           /\ \A e \in ResolvedEdges(P, N) : \E p \in P : e.from = p.file
<1>1. ASSUME NEW e \in ResolvedEdges(P, N)
      PROVE  e \in Edge /\ \E p \in P : e.from = p.file
  <2>1. PICK p \in P : \E s \in Binds(p.file, p.ref, N) :
                          e = [from |-> p.file, kind |-> p.ref.kind, to |-> s]
    BY DEF ResolvedEdges
  <2>2. p.file \in Files /\ p.ref.kind \in {"calls", "imports"}
    BY DEF Site, Ref
  <2>3. Binds(p.file, p.ref, N) \subseteq Symbol
    BY BindsToNodes
  <2>. QED BY <2>1, <2>2, <2>3 DEF Edge
<1>. QED BY <1>1

LEMMA FlowsAreEdges ==
    ASSUME NEW E \in SUBSET Edge, NEW N \in SUBSET Symbol
    PROVE  /\ CallValueFlow(E, N) \in SUBSET Edge
           /\ \A h \in CallValueFlow(E, N) : \E e \in E : h.from = e.from
<1>1. CallValueFlow(E, N) \in SUBSET [from : Files, kind : {"flows"}, to : N]
  BY DEF CallValueFlow
<1>2. ASSUME NEW h \in CallValueFlow(E, N) PROVE \E e \in E : h.from = e.from
  BY DEF CallValueFlow
<1>. QED BY <1>1, <1>2 DEF Edge

LEMMA CallerEndsAreSymbols ==
    ASSUME NEW E \in SUBSET Edge
    PROVE  /\ CallerEnds(E) \in SUBSET Symbol
           /\ \A s \in CallerEnds(E) : /\ s.end \in {"argument", "result"}
                                       /\ \E e \in E : s.file = e.from
<1>1. ASSUME NEW s \in CallerEnds(E)
      PROVE  /\ s \in Symbol /\ s.end \in {"argument", "result"}
             /\ \E e \in E : s.file = e.from
  <2>1. PICK e \in E : s = CallerEnd(e)
    BY DEF CallerEnds
  <2>2. e.from \in Files /\ e.to.name \in Names \cup {FileName}
    BY DEF Edge, Symbol
  <2>. QED BY <2>1, <2>2 DEF CallerEnd, Symbol
<1>. QED BY <1>1

\* A resolver pass over sites P of the nodes N: what it writes is typed, and
\* the nodes it adds are ends of hops, in the files of P.
LEMMA PassIsTyped ==
    ASSUME NEW P \in SUBSET Site, NEW N \in SUBSET Symbol, NEW E \in SUBSET ResolvedEdges(P, N)
    PROVE  /\ E \in SUBSET Edge
           /\ CallValueFlow(E, N) \in SUBSET Edge
           /\ CallerEnds(CallValueFlow(E, N)) \in SUBSET Symbol
           /\ \A s \in CallerEnds(CallValueFlow(E, N)) :
                 s.end \in {"argument", "result"} /\ \E p \in P : s.file = p.file
<1>1. E \in SUBSET Edge /\ \A e \in E : \E p \in P : e.from = p.file
  BY ResolvedAreEdges
<1>2. /\ CallValueFlow(E, N) \in SUBSET Edge
      /\ \A h \in CallValueFlow(E, N) : \E e \in E : h.from = e.from
  BY <1>1, FlowsAreEdges
<1>. QED BY <1>1, <1>2, CallerEndsAreSymbols

-----------------------------------------------------------------------------
(* Every step keeps the tables and the run's memory well typed.             *)

LEMMA PresentAreTexts ==
    ASSUME disk \in [Files -> AllTexts \cup {Absent}], NEW f \in Present
    PROVE  f \in Files /\ disk[f] \in AllTexts
  BY DEF Present

LEMMA ExtractedAreSymbols ==
    ASSUME TypeInv, pc \in Extracting
    PROVE  Extracted \in SUBSET Symbol
<1>1. ASSUME NEW f \in job.changed PROVE Mint(f, disk[f]) \in SUBSET Symbol
  BY <1>1, PresentAreTexts, MintIsOwn DEF TypeInv, IndexTypeOK, ChangedArePresent
<1>. QED BY <1>1 DEF Extracted

\* The parts of the type invariant on the store, for the steps that leave the
\* rest alone.
StoreTyped ==
    /\ nodes \in SUBSET Symbol /\ edges \in SUBSET Edge /\ parked \in SUBSET Site
    /\ digests \in [Files -> AllTexts \cup {NoDigest, Cleared}]
    /\ minted \in [Files -> Environments \cup {NoDigest}]

LEMMA TypeInvParts ==
    TypeInv <=>
        /\ disk \in [Files -> AllTexts \cup {Absent}] /\ env \in Environments
        /\ StoreTyped
        /\ pc \in {"idle", "sweep", "classify"} \cup Extracting
        /\ JobTyped /\ MetaTyped /\ ChangedArePresent
        /\ edits \in 0..MaxEdits /\ crashes \in 0..MaxCrashes
<1>1. JobTyped => job.changed \in SUBSET Files
  BY DEF JobTyped
<1>. QED BY <1>1 DEF TypeInv, IndexTypeOK, StoreTyped, Edge, Site, Extracting

\* The steps of a run that leave the disk, the environment and the bounds alone.
LEMMA RunStepIsTyped ==
    ASSUME TypeInv, UNCHANGED <<world, crashes>>, StoreTyped', JobTyped', MetaTyped',
           pc' \in {"idle", "sweep", "classify"} \cup Extracting,
           pc' \in Extracting => job'.changed \subseteq Present
    PROVE  TypeInv'
<1>1. disk' = disk /\ env' = env /\ edits' = edits /\ crashes' = crashes
  BY DEF world
<1>2. Present' = Present
  BY <1>1 DEF Present
<1>3. ChangedArePresent'
  BY <1>2 DEF ChangedArePresent
<1>4. job'.changed \in SUBSET Files
  BY DEF JobTyped
<1>5. IndexTypeOK'
  BY <1>1, <1>4 DEF TypeInv, IndexTypeOK, StoreTyped, Edge, Site, Extracting
<1>. QED BY <1>3, <1>5 DEF TypeInv

LEMMA NoJobIsTyped ==
    NoJob \in [force : BOOLEAN, overrideGate : BOOLEAN, schemeGate : BOOLEAN,
               importers : SUBSET Files, changed : SUBSET Files, fresh : BOOLEAN,
               skipped : BOOLEAN, rederive : SUBSET Files, touched : SUBSET Symbol,
               collateral : SUBSET Edge]
  BY DEF NoJob

LEMMA RemovedStoreIsTyped ==
    ASSUME StoreTyped, NEW F \in SUBSET Files, RemoveFiles(F)
    PROVE  StoreTyped'
<1>1. nodes' \in SUBSET Symbol /\ edges' \in SUBSET Edge /\ parked' \in SUBSET Site
  BY DEF StoreTyped, RemoveFiles, NodesWithout, EdgesWithout, ParkedWithout
<1>2. digests' \in [Files -> AllTexts \cup {NoDigest, Cleared}]
  BY DEF StoreTyped, RemoveFiles, DigestsWithout
<1>3. minted' \in [Files -> Environments \cup {NoDigest}]
  BY DEF StoreTyped, RemoveFiles
<1>. QED BY <1>1, <1>2, <1>3 DEF StoreTyped

LEMMA KeysAreNat ==
    ASSUME env \in Environments
    PROVE  /\ env.version \in Nat \ {NoKey} /\ env.scheme \in Nat \ {NoKey}
           /\ env.rules \in Nat /\ env.overrides \in Nat
  BY EnvironmentsAreKeyed

\* What a run may hold after classification.
LEMMA ClassifiedIsTyped ==
    ASSUME TypeInv
    PROVE  /\ Seed \in SUBSET Present /\ ForcedCallers \in SUBSET Present
           /\ RederivedCallers \in SUBSET (Present \ (Seed \cup ForcedCallers))
           /\ Defs(Touched) \in SUBSET Symbol /\ Collateral \in SUBSET Edge
<1>1. Seed \in SUBSET Present
  BY DEF Seed
<1>2. Callers \in SUBSET (Present \ Seed)
  BY DEF Callers
<1>3. Defs(Touched) \in SUBSET Symbol /\ Collateral \in SUBSET Edge
  BY TypeInvParts DEF StoreTyped, Defs, Touched, Collateral
<1>. QED BY <1>1, <1>2, <1>3 DEF ForcedCallers, RederivedCallers

LEMMA StepIsTyped ==
    ASSUME TypeInv, Step
    PROVE  TypeInv'
<1> USE TypeInvParts
<1>1. CASE Start
  <2>1. JobTyped'
    <3>1. PICK a \in BOOLEAN, b \in BOOLEAN, c \in BOOLEAN :
             job' = [NoJob EXCEPT !.force = a, !.overrideGate = b, !.schemeGate = c]
      <4>1. /\ (VersionGate \/ RulesGate \/ OverrideGate \/ SchemeGate) \in BOOLEAN
            /\ OverrideGate \in BOOLEAN /\ SchemeGate \in BOOLEAN
        BY DEF OverrideGate, SchemeGate
      <4>. QED BY <1>1, <4>1 DEF Start
    <3>. QED BY <3>1, NoJobIsTyped DEF JobTyped
  <2>2. MetaTyped'
    BY <1>1, KeysAreNat DEF Start, KeysWrittenAtOnce, MetaTyped
  <2>3. StoreTyped'
    BY <1>1 DEF Start, store, StoreTyped
  <2>. QED BY <1>1, <2>1, <2>2, <2>3, RunStepIsTyped DEF Start, Extracting
<1>2. CASE Sweep
  <2>1. Indexed \ Present \in SUBSET Files
    BY DEF Indexed
  <2>2. StoreTyped' /\ MetaTyped'
    BY <1>2, <2>1, RemovedStoreIsTyped DEF Sweep, MetaTyped
  <2>3. Importers(Indexed \ Present) \in SUBSET Files
    BY DEF Importers, StoreTyped, Edge
  <2>4. JobTyped'
    BY <1>2, <2>3 DEF Sweep, JobTyped
  <2>. QED BY <1>2, <2>2, <2>4, RunStepIsTyped DEF Sweep, Extracting
<1>3. CASE Classify
  <2>1. StoreTyped'
    BY <1>3 DEF Classify, store, StoreTyped
  <2>2. MetaTyped'
    BY <1>3, KeysAreNat DEF Classify, MetaTyped
  <2>3. CASE Seed \cup ForcedCallers = {}
    <3>1. job' = NoJob /\ pc' = "idle"
      BY <1>3, <2>3 DEF Classify
    <3>2. JobTyped'
      BY <3>1, NoJobIsTyped DEF JobTyped
    <3>. QED BY <1>3, <2>1, <2>2, <3>1, <3>2, RunStepIsTyped DEF Classify, Extracting
  <2>4. CASE Seed \cup ForcedCallers # {}
    <3>1. /\ job' = [job EXCEPT
                 !.changed = Seed \cup ForcedCallers,
                 !.fresh   = \E f \in Seed \cup ForcedCallers : digests[f] = NoDigest,
                 !.skipped = Present \ (Seed \cup ForcedCallers) # {},
                 !.rederive = RederivedCallers,
                 !.touched = Defs(Touched),
                 !.collateral = Collateral]
          /\ pc' = "remove"
      BY <1>3, <2>4 DEF Classify
    <3>2. Present \in SUBSET Files
      BY DEF Present
    <3>3. JobTyped' /\ job'.changed = Seed \cup ForcedCallers
      BY <3>1, <3>2, ClassifiedIsTyped, ZenonT(40) DEF JobTyped
    <3>4. job'.changed \subseteq Present
      BY <3>3, ClassifiedIsTyped
    <3>. QED BY <1>3, <2>1, <2>2, <3>1, <3>3, <3>4, RunStepIsTyped DEF Classify, Extracting
  <2>. QED BY <2>3, <2>4
<1>4. CASE Remove
  <2>1. job.changed \in SUBSET Files
    BY DEF JobTyped
  <2>2. StoreTyped' /\ MetaTyped' /\ JobTyped' /\ pc' = "write" /\ job' = job
    BY <1>4, <2>1, RemovedStoreIsTyped DEF Remove, MetaTyped, JobTyped
  <2>3. job.changed \subseteq Present
    BY <1>4 DEF Remove, ChangedArePresent, Extracting
  <2>. QED BY <1>4, <2>2, <2>3, RunStepIsTyped DEF Remove, Extracting
<1>5. CASE Write
  <2>1. pc \in Extracting /\ job.changed \subseteq Present
    BY <1>5 DEF Write, ChangedArePresent, Extracting
  <2>2. nodes' \in SUBSET Symbol
    BY <1>5, <2>1, ExtractedAreSymbols DEF Write, StoreTyped
  <2>3. digests' \in [Files -> AllTexts \cup {NoDigest, Cleared}]
    BY <1>5, <2>1, PresentAreTexts DEF Write, StoreTyped
  <2>4. minted' \in [Files -> Environments \cup {NoDigest}]
    BY <1>5 DEF Write, StoreTyped
  <2>5. StoreTyped'
    BY <1>5, <2>2, <2>3, <2>4 DEF Write, StoreTyped
  <2>6. MetaTyped' /\ JobTyped' /\ pc' = "resolve" /\ job' = job
    BY <1>5 DEF Write, MetaTyped, JobTyped
  <2>. QED BY <1>5, <2>1, <2>5, <2>6, RunStepIsTyped DEF Write, Extracting
<1>6. ASSUME NEW P \in SUBSET Site, NEW E, E \subseteq ResolvedEdges(P, nodes), NEW R \in SUBSET Edge,
             WriteEdges(R, CallValueFlow(E, nodes)), parked' \in SUBSET Site,
             UNCHANGED <<digests, minted, world, meta, job, crashes>>,
             pc \in Extracting, pc' \in Extracting
      PROVE  TypeInv'
  <2>1. nodes \in SUBSET Symbol
    BY DEF StoreTyped
  <2>2. CallValueFlow(E, nodes) \in SUBSET Edge
        /\ CallerEnds(CallValueFlow(E, nodes)) \in SUBSET Symbol
    BY <1>6, <2>1, PassIsTyped
  <2>3. StoreTyped'
    BY <1>6, <2>2 DEF WriteEdges, StoreTyped
  <2>4. MetaTyped' /\ JobTyped' /\ job'.changed \subseteq Present
    BY <1>6 DEF MetaTyped, JobTyped, ChangedArePresent
  <2>. QED BY <1>6, <2>3, <2>4, RunStepIsTyped
<1>7. CASE Resolve
  <2>1. Sites(job.changed) \in SUBSET Site
    BY SitesAreTyped DEF JobTyped
  <2>2. ResolvedEdges(Sites(job.changed), nodes) \in SUBSET Edge
    BY <2>1, ResolvedAreEdges DEF StoreTyped
  <2>3. parked' \in SUBSET Site
    BY <1>7, <2>1 DEF Resolve, StoreTyped, Unresolved
  <2>. QED BY <1>6, <1>7, <2>1, <2>2, <2>3 DEF Resolve, Extracting
<1>8. CASE Rederive
  <2> DEFINE P == {p \in Sites(job.rederive) : p.ref.kind = "calls"}
             E == {e \in ResolvedEdges(P, nodes) : e.to \in job.touched \cup Extracted}
  <2>1. P \in SUBSET Site /\ E \subseteq ResolvedEdges(P, nodes)
    BY SitesAreTyped DEF JobTyped
  <2>2. WriteEdges({}, CallValueFlow(E, nodes)) /\ parked' = parked
    BY <1>8 DEF Rederive, Rederived
  <2>3. pc \in Extracting /\ pc' \in Extracting /\ {} \in SUBSET Edge /\ parked \in SUBSET Site
        /\ UNCHANGED <<digests, minted, world, meta, job, crashes>>
    BY <1>8 DEF Rederive, Extracting, StoreTyped
  <2> HIDE DEF P, E
  <2>. QED BY <1>6, <2>1, <2>2, <2>3
<1>9. CASE Backfill
  <2> DEFINE P == IF ~job.force /\ job.skipped THEN BackfillRows ELSE {}
  <2>1. P \in SUBSET Site
    BY DEF BackfillRows, ParkedWithout, StoreTyped
  <2>2. ResolvedEdges(P, nodes) \in SUBSET Edge
    BY <2>1, ResolvedAreEdges DEF StoreTyped
  <2>3. /\ WriteEdges(ResolvedEdges(P, nodes), CallValueFlow(ResolvedEdges(P, nodes), nodes))
        /\ parked' = parked \ (P \ Unresolved(P, nodes))
    BY <1>9 DEF Backfill
  <2>4. pc \in Extracting /\ pc' \in Extracting /\ parked' \in SUBSET Site
        /\ UNCHANGED <<digests, minted, world, meta, job, crashes>>
    BY <1>9, <2>3 DEF Backfill, Extracting, StoreTyped
  <2> HIDE DEF P
  <2>. QED BY <1>6, <2>1, <2>2, <2>3, <2>4
<1>10. CASE Restore
  <2>1. StoreTyped' /\ MetaTyped' /\ JobTyped' /\ job'.changed \subseteq Present
    BY <1>10 DEF Restore, StoreTyped, MetaTyped, JobTyped, ChangedArePresent, Extracting
  <2>. QED BY <1>10, <2>1, RunStepIsTyped DEF Restore, Extracting
<1>11. CASE Prune
  <2>1. StoreTyped' /\ MetaTyped' /\ JobTyped' /\ job'.changed \subseteq Present
    BY <1>11 DEF Prune, LiveEdges, StoreTyped, MetaTyped, JobTyped, ChangedArePresent, Extracting
  <2>. QED BY <1>11, <2>1, RunStepIsTyped DEF Prune, Extracting
<1>12. CASE Finish
  <2>1. StoreTyped' /\ JobTyped'
    BY <1>12, NoJobIsTyped DEF Finish, store, StoreTyped, JobTyped
  <2>2. MetaTyped'
    BY <1>12, KeysAreNat DEF Finish, MetaTyped
  <2>. QED BY <1>12, <2>1, <2>2, RunStepIsTyped DEF Finish, Extracting
<1>. QED
  BY <1>1, <1>2, <1>3, <1>4, <1>5, <1>7, <1>8, <1>9, <1>10, <1>11, <1>12 DEF Step

LEMMA NextIsTyped == TypeInv /\ [Next]_vars => TypeInv'
<1> SUFFICES ASSUME TypeInv, [Next]_vars PROVE TypeInv'
  OBVIOUS
<1> USE TypeInvParts
<1>1. CASE Step
  BY <1>1, StepIsTyped
<1>2. CASE Crash
  <2>1. /\ disk' = disk /\ env' = env /\ edits' = edits /\ meta' = meta
        /\ nodes' = nodes /\ edges' = edges /\ parked' = parked
        /\ digests' = digests /\ minted' = minted /\ pc' = "idle" /\ job' = NoJob
        /\ crashes' \in 0..MaxCrashes
    BY <1>2, BoundsAreNat DEF Crash, world, store
  <2>2. JobTyped' /\ job'.changed = {}
    BY <2>1, NoJobIsTyped DEF JobTyped, NoJob
  <2>3. ChangedArePresent'
    BY <2>2 DEF ChangedArePresent
  <2>. QED BY <2>1, <2>2, <2>3 DEF TypeInv, IndexTypeOK, MetaTyped, StoreTyped, Edge, Site
<1>3. ASSUME NEW f \in Files, NEW t \in Texts[f] \cup {Absent}, Edit(f, t)
      PROVE  TypeInv'
  <2>1. t \in AllTexts \cup {Absent}
    BY DEF AllTexts
  <2>2. disk' \in [Files -> AllTexts \cup {Absent}] /\ edits' \in 0..MaxEdits
    BY <1>3, <2>1, BoundsAreNat DEF Edit
  <2>3. /\ env' = env /\ crashes' = crashes /\ meta' = meta
        /\ nodes' = nodes /\ edges' = edges /\ parked' = parked
        /\ digests' = digests /\ minted' = minted /\ pc' = "idle" /\ job' = job
    BY <1>3 DEF Edit, store
  <2>4. ChangedArePresent'
    BY <2>3 DEF ChangedArePresent, Extracting
  <2>. QED BY <2>2, <2>3, <2>4 DEF TypeInv, IndexTypeOK, MetaTyped, JobTyped, StoreTyped, Edge, Site
<1>4. ASSUME NEW e \in Environments, Upgrade(e)
      PROVE  TypeInv'
  <2>1. /\ disk' = disk /\ env' = e /\ crashes' = crashes /\ meta' = meta
        /\ nodes' = nodes /\ edges' = edges /\ parked' = parked
        /\ digests' = digests /\ minted' = minted /\ pc' = "idle" /\ job' = job
        /\ edits' \in 0..MaxEdits
    BY <1>4, BoundsAreNat DEF Upgrade, store
  <2>2. ChangedArePresent'
    BY <2>1 DEF ChangedArePresent, Extracting
  <2>. QED BY <2>1, <2>2 DEF TypeInv, IndexTypeOK, MetaTyped, JobTyped, StoreTyped, Edge, Site
<1>5. CASE ClearDigests
  <2>1. /\ disk' = disk /\ env' = env /\ crashes' = crashes /\ meta' = meta
        /\ nodes' = nodes /\ edges' = edges /\ parked' = parked
        /\ minted' = minted /\ pc' = "idle" /\ job' = job
        /\ edits' \in 0..MaxEdits
    BY <1>5, BoundsAreNat DEF ClearDigests
  <2>2. digests' \in [Files -> AllTexts \cup {NoDigest, Cleared}]
    BY <1>5 DEF ClearDigests
  <2>3. ChangedArePresent'
    BY <2>1 DEF ChangedArePresent, Extracting
  <2>. QED BY <2>1, <2>2, <2>3
          DEF TypeInv, IndexTypeOK, MetaTyped, JobTyped, StoreTyped, Edge, Site
<1>6. CASE UNCHANGED vars
  <2>1. /\ disk' = disk /\ env' = env /\ crashes' = crashes /\ meta' = meta
        /\ nodes' = nodes /\ edges' = edges /\ parked' = parked /\ digests' = digests
        /\ minted' = minted /\ pc' = pc /\ job' = job /\ edits' = edits
    BY <1>6 DEF vars, store, world
  <2>. QED BY <2>1 DEF TypeInv, IndexTypeOK, MetaTyped, JobTyped, ChangedArePresent, Present
<1>. QED BY <1>1, <1>2, <1>3, <1>4, <1>5, <1>6 DEF Next

LEMMA InitIsTyped == Init => TypeInv
<1> SUFFICES ASSUME Init PROVE TypeInv
  OBVIOUS
<1>1. StoreTyped /\ MetaTyped /\ ChangedArePresent
  BY DEF Init, StoreTyped, MetaTyped, ChangedArePresent, Extracting, NoKey
<1>2. JobTyped
  BY NoJobIsTyped DEF Init, JobTyped
<1>. QED BY <1>1, <1>2, TypeInvParts, BoundsAreNat DEF Init

\* Whatever is edited, upgraded and interrupted, the store, the disk and the
\* bookkeeping of a run hold values of their types, and a run extracts files
\* only.
THEOREM IndexTypeCorrect == Spec => []IndexTypeOK
<1>1. TypeInv => IndexTypeOK
  BY DEF TypeInv
<1>. QED BY <1>1, InitIsTyped, NextIsTyped, PTL DEF Spec

-----------------------------------------------------------------------------
(* A digest certifies the nodes of its file.                                *)

\* remove_file takes the digest with the rows it certifies.
LEMMA RemovalKeepsDigests ==
    ASSUME TypeInv, DigestCertifiesNodes, ParkedAreIndexed,
           NEW F \in SUBSET Files, RemoveFiles(F)
    PROVE  /\ DigestCertifiesNodes' /\ ParkedAreIndexed'
           /\ \A f \in Files : digests'[f] = IF f \in F THEN NoDigest ELSE digests[f]
<1>1. \A f \in Files : digests'[f] = IF f \in F THEN NoDigest ELSE digests[f]
  BY DEF RemoveFiles, DigestsWithout
<1>2. ParkedAreIndexed'
  BY <1>1, TypeInvParts DEF RemoveFiles, ParkedWithout, ParkedAreIndexed, StoreTyped, Site
<1>3. ASSUME NEW f \in Files \ F PROVE Own(f)' = Own(f)
  BY DEF RemoveFiles, NodesWithout, Own
<1>4. \A f \in F : \A s \in nodes' : s.file # f
  BY DEF RemoveFiles, NodesWithout
<1>5. \A f \in Files \ F : \A s \in nodes' : s \in nodes
  BY DEF RemoveFiles, NodesWithout
<1>. QED BY <1>1, <1>2, <1>3, <1>4, <1>5 DEF DigestCertifiesNodes, Certified

\* The ends of hops that a resolver pass adds change no certified text's nodes.
LEMMA PassKeepsDigests ==
    ASSUME DigestCertifiesNodes, digests' = digests, NEW ends, nodes' = nodes \cup ends,
           \A s \in ends : s.end \in {"argument", "result"} /\ digests[s.file] # NoDigest
    PROVE  DigestCertifiesNodes'
<1>1. \A f \in Files : Own(f)' = Own(f)
  BY DEF Own
<1>. QED BY <1>1 DEF DigestCertifiesNodes, Certified

LEMMA WriteCertifies ==
    ASSUME DigestInv, Write
    PROVE  DigestCertifiesNodes' /\ \A f \in job.changed : digests'[f] = disk[f]
<1>1. /\ job.changed \subseteq Present /\ job.changed \in SUBSET Files
      /\ \A f \in job.changed : disk[f] \in AllTexts
  BY TypeInvParts, PresentAreTexts
     DEF DigestInv, Write, ChangedArePresent, Extracting, JobTyped
<1>2. \A f \in job.changed : \A s \in nodes : s.file # f
  BY <1>1 DEF DigestInv, Write, ChangedAreRewritten, DigestCertifiesNodes
<1>3. \A f \in Files : digests'[f] = IF f \in job.changed THEN disk[f] ELSE digests[f]
  BY DEF Write
<1>4. \A g \in job.changed : \A s \in Mint(g, disk[g]) : s.file = g /\ s.end \notin {"argument", "result"}
  BY <1>1, MintIsOwn
<1>5. ASSUME NEW f \in job.changed PROVE Own(f)' = Mint(f, disk[f])
  <2>1. \A s : s \in nodes' /\ s.file = f <=> s \in Mint(f, disk[f])
    BY <1>2, <1>4, <1>5 DEF Write, Extracted
  <2>. QED BY <1>4, <2>1 DEF Own
<1>6. ASSUME NEW f \in Files \ job.changed
      PROVE  /\ Own(f)' = Own(f)
             /\ (\A s \in nodes : s.file # f) => (\A s \in nodes' : s.file # f)
  <2>1. \A s : s \in nodes' /\ s.file = f <=> s \in nodes /\ s.file = f
    BY <1>4, <1>6 DEF Write, Extracted
  <2>. QED BY <2>1 DEF Own
<1>7. \A f \in job.changed : digests'[f] # NoDigest
  BY <1>1, <1>3, AbsentIsNoText
<1>8. ASSUME NEW f \in Files
      PROVE  /\ Certified(f)' => Own(f)' = Mint(f, digests'[f])
             /\ digests'[f] = NoDigest => \A s \in nodes' : s.file # f
  <2>1. CASE f \in job.changed
    BY <1>3, <1>5, <1>7, <2>1
  <2>2. CASE f \notin job.changed
    BY <1>3, <1>6, <2>2 DEF DigestInv, DigestCertifiesNodes, Certified
  <2>. QED BY <2>1, <2>2
<1>. QED BY <1>1, <1>3, <1>8 DEF DigestCertifiesNodes

\* A resolver pass over the sites of indexed files.
LEMMA ResolverPassKeepsDigests ==
    ASSUME DigestInv, NEW P \in SUBSET Site, \A p \in P : digests[p.file] # NoDigest,
           NEW E, E \subseteq ResolvedEdges(P, nodes), NEW R, WriteEdges(R, CallValueFlow(E, nodes)),
           digests' = digests
    PROVE  DigestCertifiesNodes'
<1>1. nodes \in SUBSET Symbol
  BY TypeInvParts DEF DigestInv, StoreTyped
<1>2. \A s \in CallerEnds(CallValueFlow(E, nodes)) :
         s.end \in {"argument", "result"} /\ \E p \in P : s.file = p.file
  <2>1. E \in SUBSET ResolvedEdges(P, nodes)
    OBVIOUS
  <2>. QED BY <1>1, <2>1, PassIsTyped
<1>. QED BY <1>2, PassKeepsDigests DEF DigestInv, WriteEdges

LEMMA NextCertifies == DigestInv /\ [Next]_vars => DigestInv'
<1> SUFFICES ASSUME DigestInv, [Next]_vars PROVE DigestInv'
  OBVIOUS
<1>1. TypeInv /\ TypeInv'
  BY NextIsTyped DEF DigestInv
<1>2. job.changed \in SUBSET Files /\ job.rederive \in SUBSET Files
  BY <1>1, TypeInvParts DEF JobTyped
<1>3. ASSUME UNCHANGED store, pc' \in {"idle", "sweep", "classify"}
      PROVE  DigestInv'
  BY <1>1, <1>3 DEF DigestInv, store, DigestCertifiesNodes, Certified, Own, ParkedAreIndexed,
                    RederivedStay, ChangedAreRewritten, Written, Extracting
<1>4. CASE Sweep
  <2>1. Indexed \ Present \in SUBSET Files /\ pc' = "classify"
    BY <1>4 DEF Sweep, Indexed
  <2>2. DigestCertifiesNodes' /\ ParkedAreIndexed'
    BY <1>1, <1>4, <2>1, RemovalKeepsDigests DEF Sweep, DigestInv
  <2>. QED BY <1>1, <2>1, <2>2
          DEF DigestInv, RederivedStay, ChangedAreRewritten, Written, Extracting
<1>5. CASE Classify
  <2>1. CASE Seed \cup ForcedCallers = {}
    BY <1>3, <1>5, <2>1 DEF Classify
  <2>2. CASE Seed \cup ForcedCallers # {}
    <3>1. /\ job' = [job EXCEPT
                 !.changed = Seed \cup ForcedCallers,
                 !.fresh   = \E f \in Seed \cup ForcedCallers : digests[f] = NoDigest,
                 !.skipped = Present \ (Seed \cup ForcedCallers) # {},
                 !.rederive = RederivedCallers,
                 !.touched = Defs(Touched),
                 !.collateral = Collateral]
          /\ pc' = "remove" /\ UNCHANGED store
      BY <1>5, <2>2 DEF Classify
    <3>2. job'.changed = Seed \cup ForcedCallers /\ job'.rederive = RederivedCallers
      BY <1>1, <3>1, TypeInvParts DEF JobTyped
    <3>3. \A f \in RederivedCallers : f \notin Seed \cup ForcedCallers /\ digests[f] # NoDigest
      <4>1. \A f \in RederivedCallers : f \in Present /\ f \notin Seed \cup ForcedCallers
        BY <1>1, ClassifiedIsTyped
      <4>2. \A f \in Present \ Seed : digests[f] = disk[f]
        BY DEF Seed
      <4>. QED BY <1>1, <4>1, <4>2, TypeInvParts, PresentAreTexts, AbsentIsNoText
    <3>4. RederivedStay'
      BY <3>1, <3>2, <3>3 DEF RederivedStay, store
    <3>5. ChangedAreRewritten'
      BY <3>1 DEF ChangedAreRewritten, Written, Extracting
    <3>6. ParkedAreIndexed' /\ DigestCertifiesNodes'
      BY <3>1 DEF DigestInv, store, ParkedAreIndexed, DigestCertifiesNodes, Certified, Own
    <3>. QED BY <1>1, <3>4, <3>5, <3>6 DEF DigestInv
  <2>. QED BY <2>1, <2>2
<1>6. CASE Remove
  <2>1. /\ DigestCertifiesNodes' /\ ParkedAreIndexed'
        /\ \A f \in Files : digests'[f] = IF f \in job.changed THEN NoDigest ELSE digests[f]
    BY <1>1, <1>2, <1>6, RemovalKeepsDigests DEF Remove, DigestInv
  <2>2. ChangedAreRewritten'
    BY <1>2, <1>6, <2>1 DEF Remove, ChangedAreRewritten, Written
  <2>3. RederivedStay'
    BY <1>2, <1>6, <2>1 DEF Remove, DigestInv, RederivedStay
  <2>. QED BY <1>1, <2>1, <2>2, <2>3 DEF DigestInv
<1>7. CASE Write
  <2>1. DigestCertifiesNodes' /\ \A f \in job.changed : digests'[f] = disk[f]
    BY <1>7, WriteCertifies
  <2>2. \A f \in Files \ job.changed : digests'[f] = digests[f]
    BY <1>7 DEF Write
  <2>3. ChangedAreRewritten'
    BY <1>7, <2>1 DEF Write, world, ChangedAreRewritten
  <2>4. RederivedStay'
    BY <1>2, <1>7, <2>2 DEF Write, DigestInv, RederivedStay
  <2>5. ParkedAreIndexed'
    <3>1. \A f \in job.changed : digests'[f] # NoDigest
      <4>1. job.changed \subseteq Present
        BY <1>1, <1>7 DEF Write, TypeInv, ChangedArePresent, Extracting
      <4>. QED BY <1>1, <2>1, <4>1, TypeInvParts, PresentAreTexts, AbsentIsNoText
    <3>2. \A p \in parked : p.file \in Files
      BY <1>1, TypeInvParts DEF StoreTyped, Site
    <3>. QED BY <1>7, <2>2, <3>1, <3>2 DEF Write, DigestInv, ParkedAreIndexed
  <2>. QED BY <1>1, <2>1, <2>3, <2>4, <2>5 DEF DigestInv
<1>8. ASSUME UNCHANGED <<digests, world, job>>, DigestCertifiesNodes', ParkedAreIndexed',
             pc \in Written, pc' \in Written, pc' = "rederive" => pc \in {"resolve", "rederive"},
             pc' # "resolve"
      PROVE  DigestInv'
  <2>1. ChangedAreRewritten'
    BY <1>8 DEF DigestInv, ChangedAreRewritten, world, Written, Extracting
  <2>2. RederivedStay'
    BY <1>8 DEF DigestInv, RederivedStay, Written, Extracting
  <2>. QED BY <1>1, <1>8, <2>1, <2>2 DEF DigestInv
<1>9. CASE Resolve
  <2>1. Sites(job.changed) \in SUBSET Site /\ \A p \in Sites(job.changed) : p.file \in job.changed
    BY <1>2, SitesAreTyped
  <2>2. \A f \in job.changed : digests[f] # NoDigest
    <3>1. job.changed \subseteq Present /\ \A f \in job.changed : digests[f] = disk[f]
      BY <1>1, <1>9
         DEF Resolve, TypeInv, ChangedArePresent, DigestInv, ChangedAreRewritten, Written, Extracting
    <3>. QED BY <1>1, <3>1, TypeInvParts, PresentAreTexts, AbsentIsNoText
  <2>3. DigestCertifiesNodes'
    BY <1>9, <2>1, <2>2, ResolverPassKeepsDigests DEF Resolve
  <2>4. ParkedAreIndexed'
    BY <1>9, <2>1, <2>2 DEF Resolve, DigestInv, ParkedAreIndexed, Unresolved
  <2>. QED BY <1>8, <1>9, <2>3, <2>4 DEF Resolve, Written, Extracting
<1>10. CASE Rederive
  <2> DEFINE P == {p \in Sites(job.rederive) : p.ref.kind = "calls"}
             E == {e \in ResolvedEdges(P, nodes) : e.to \in job.touched \cup Extracted}
  <2>1. P \in SUBSET Site /\ E \subseteq ResolvedEdges(P, nodes) /\ \A p \in P : p.file \in job.rederive
    BY <1>2, SitesAreTyped
  <2>2. \A p \in P : digests[p.file] # NoDigest
    <3> HIDE DEF P
    <3>. QED BY <1>10, <2>1 DEF Rederive, DigestInv, RederivedStay
  <2>3. WriteEdges({}, CallValueFlow(E, nodes)) /\ digests' = digests /\ parked' = parked
    BY <1>10 DEF Rederive, Rederived
  <2>4. DigestCertifiesNodes'
    <3> HIDE DEF P, E
    <3>. QED BY <2>1, <2>2, <2>3, ResolverPassKeepsDigests
  <2>5. ParkedAreIndexed'
    BY <2>3 DEF DigestInv, ParkedAreIndexed
  <2>. QED BY <1>8, <1>10, <2>4, <2>5 DEF Rederive, Written, Extracting
<1>11. CASE Backfill
  <2> DEFINE P == IF ~job.force /\ job.skipped THEN BackfillRows ELSE {}
  <2>1. P \in SUBSET parked /\ P \in SUBSET Site
    BY <1>1, TypeInvParts DEF BackfillRows, ParkedWithout, StoreTyped
  <2>2. \A p \in P : digests[p.file] # NoDigest
    <3> HIDE DEF P
    <3>. QED BY <2>1 DEF DigestInv, ParkedAreIndexed
  <2>3. /\ WriteEdges(ResolvedEdges(P, nodes), CallValueFlow(ResolvedEdges(P, nodes), nodes))
        /\ parked' = parked \ (P \ Unresolved(P, nodes)) /\ digests' = digests
    BY <1>11 DEF Backfill
  <2>4. DigestCertifiesNodes'
    <3> HIDE DEF P
    <3>. QED BY <2>1, <2>2, <2>3, ResolverPassKeepsDigests
  <2>5. ParkedAreIndexed'
    BY <2>3 DEF DigestInv, ParkedAreIndexed
  <2>. QED BY <1>8, <1>11, <2>4, <2>5 DEF Backfill, Written, Extracting
<1>12. CASE Restore \/ Prune
  <2>1. UNCHANGED <<nodes, parked, digests, world, job>>
    BY <1>12 DEF Restore, Prune
  <2>2. DigestCertifiesNodes' /\ ParkedAreIndexed'
    BY <2>1 DEF DigestInv, ParkedAreIndexed, DigestCertifiesNodes, Certified, Own
  <2>. QED BY <1>8, <1>12, <2>1, <2>2 DEF Restore, Prune, Written, Extracting
<1>13. CASE Start \/ Finish \/ Crash
  BY <1>3, <1>13 DEF Start, Finish, Crash
<1>14. ASSUME NEW f \in Files, NEW t \in Texts[f] \cup {Absent}, Edit(f, t)
       PROVE  DigestInv'
  BY <1>3, <1>14 DEF Edit
<1>15. ASSUME NEW e \in Environments, Upgrade(e)
       PROVE  DigestInv'
  BY <1>3, <1>15 DEF Upgrade
<1>16. CASE ClearDigests
  <2>1. \A f \in Files : /\ digests'[f] \in {NoDigest, Cleared}
                         /\ digests'[f] = NoDigest <=> digests[f] = NoDigest
    BY <1>16, AbsentIsNoText DEF ClearDigests, Indexed
  <2>2. DigestCertifiesNodes' /\ ParkedAreIndexed'
    <3>1. \A p \in parked : p.file \in Files
      BY <1>1, TypeInvParts DEF StoreTyped, Site
    <3>. QED BY <1>16, <2>1, <3>1
            DEF ClearDigests, DigestInv, ParkedAreIndexed, DigestCertifiesNodes, Certified
  <2>. QED BY <1>1, <1>16, <2>2
          DEF ClearDigests, DigestInv, RederivedStay, ChangedAreRewritten, Written, Extracting
<1>17. CASE UNCHANGED vars
  BY <1>1, <1>17 DEF DigestInv, vars, store, world, DigestCertifiesNodes, Certified, Own,
                     ParkedAreIndexed, RederivedStay, ChangedAreRewritten
<1>. QED
  BY <1>4, <1>5, <1>6, <1>7, <1>9, <1>10, <1>11, <1>12, <1>13, <1>14, <1>15, <1>16, <1>17
     DEF Next, Step

LEMMA InitCertifies == Init => DigestInv
<1> SUFFICES ASSUME Init PROVE DigestInv
  OBVIOUS
<1>1. DigestCertifiesNodes /\ ParkedAreIndexed
  BY DEF Init, DigestCertifiesNodes, Certified, ParkedAreIndexed
<1>2. ChangedAreRewritten /\ RederivedStay
  BY DEF Init, ChangedAreRewritten, RederivedStay, Written, Extracting
<1>. QED BY <1>1, <1>2, InitIsTyped DEF DigestInv

\* Whatever runs died between which transactions, the nodes stored for a file
\* with a digest are exactly those of the text the digest certifies, which is
\* the text the next run would skip; a file without a row has no node.
THEOREM DigestsCertify == Spec => []DigestCertifiesNodes
<1>1. DigestInv => DigestCertifiesNodes
  BY DEF DigestInv
<1>. QED BY <1>1, InitCertifies, NextCertifies, PTL DEF Spec

-----------------------------------------------------------------------------
(* The meta keys certify the environment of the rows.                       *)

RowsAreIndexed == \A f \in Files : minted[f] # NoDigest => digests[f] # NoDigest

\* Once deletions are swept, every indexed file is on disk ...
SweptIsPresent == pc \in {"classify"} \cup Extracting => Indexed \subseteq Present

\* ... so a forced run rewrites every file that has rows.
GatesForce    == pc # "idle" => (job.overrideGate \/ job.schemeGate => job.force)
ForcedIsWhole == pc \in Extracting /\ job.force => job.changed = Present

RewrittenRows == pc \in Written => \A f \in job.changed : minted[f] \in {NoDigest, env}

RunInv ==
    /\ DigestInv
    /\ RowsAreIndexed /\ SweptIsPresent /\ GatesForce /\ ForcedIsWhole /\ RewrittenRows

\* A step of a run drops rows or writes rows of its environment.
LEMMA RowsMove ==
    ASSUME TypeInv, Next
    PROVE  \A f \in Files : \/ minted'[f] \in {minted[f], NoDigest}
                            \/ pc = "write" /\ pc' = "resolve" /\ f \in job.changed
                                  /\ minted'[f] = env /\ env' = env
<1> SUFFICES ASSUME NEW f \in Files
             PROVE  \/ minted'[f] \in {minted[f], NoDigest}
                    \/ pc = "write" /\ pc' = "resolve" /\ f \in job.changed
                          /\ minted'[f] = env /\ env' = env
  OBVIOUS
<1>1. CASE Sweep \/ Remove
  BY <1>1 DEF Sweep, Remove, RemoveFiles
<1>2. CASE Write
  BY <1>2 DEF Write, world
<1>3. CASE ~(Sweep \/ Remove \/ Write)
  <2>1. minted' = minted
    BY <1>3 DEF Next, Step, Start, Classify, Resolve, Rederive, Backfill, Restore, Prune, Finish,
                Crash, Edit, Upgrade, ClearDigests, store
  <2>. QED BY <2>1
<1>. QED BY <1>1, <1>2, <1>3

LEMMA NextKeepsRun == RunInv /\ [Next]_vars => RunInv'
<1> SUFFICES ASSUME RunInv, [Next]_vars PROVE RunInv'
  OBVIOUS
<1>1. DigestInv /\ DigestInv' /\ TypeInv /\ TypeInv' /\ JobTyped /\ job.changed \in SUBSET Files
  BY NextCertifies DEF RunInv, DigestInv, TypeInv, JobTyped
<1> USE DEF RunInv
<1>2. ASSUME UNCHANGED <<digests, minted, disk, env>>, pc' # "idle",
             job'.force = job.force, job'.overrideGate = job.overrideGate,
             job'.schemeGate = job.schemeGate, job'.changed = job.changed,
             pc # "idle", pc' \in Extracting => pc \in Extracting,
             pc' \in Written => pc \in Written, pc' = "classify" => pc = "classify"
      PROVE  RunInv'
  <2>1. Present' = Present /\ Indexed' = Indexed
    BY <1>2 DEF Present, Indexed
  <2>. QED BY <1>1, <1>2, <2>1
          DEF RowsAreIndexed, SweptIsPresent, GatesForce, ForcedIsWhole, RewrittenRows
<1>3. ASSUME UNCHANGED minted, pc' = "idle",
             \A f \in Files : digests'[f] = NoDigest <=> digests[f] = NoDigest
      PROVE  RunInv'
  BY <1>1, <1>3 DEF RowsAreIndexed, SweptIsPresent, GatesForce, ForcedIsWhole, RewrittenRows,
                    Written, Extracting
<1>4. CASE Start
  <2>1. PICK a \in BOOLEAN, b \in BOOLEAN, c \in BOOLEAN :
             /\ job' = [NoJob EXCEPT !.force = a, !.overrideGate = b, !.schemeGate = c]
             /\ b \/ c => a
    <3>1. /\ (VersionGate \/ RulesGate \/ OverrideGate \/ SchemeGate) \in BOOLEAN
          /\ OverrideGate \in BOOLEAN /\ SchemeGate \in BOOLEAN
      BY DEF OverrideGate, SchemeGate
    <3>. QED BY <1>4, <3>1 DEF Start
  <2>2. GatesForce'
    BY <2>1 DEF GatesForce, NoJob
  <2>. QED BY <1>1, <1>4, <2>2
          DEF Start, store, world, RowsAreIndexed, SweptIsPresent, ForcedIsWhole, RewrittenRows,
              Written, Extracting
<1>5. CASE Sweep
  <2>1. \A f \in Files :
           /\ digests'[f] = IF f \in Indexed \ Present THEN NoDigest ELSE digests[f]
           /\ minted'[f] = IF f \in Indexed \ Present THEN NoDigest ELSE minted[f]
    BY <1>5 DEF Sweep, RemoveFiles, DigestsWithout
  <2>2. Present' = Present /\ pc' = "classify" /\ pc = "sweep"
    BY <1>5 DEF Sweep, world, Present
  <2>3. SweptIsPresent' /\ RowsAreIndexed'
    BY <2>1, <2>2 DEF SweptIsPresent, RowsAreIndexed, Indexed
  <2>4. GatesForce'
    BY <1>1, <1>5, <2>2 DEF Sweep, GatesForce, JobTyped
  <2>. QED BY <1>1, <2>2, <2>3, <2>4 DEF ForcedIsWhole, RewrittenRows, Written, Extracting
<1>6. CASE Classify
  <2>1. CASE Seed \cup ForcedCallers = {}
    BY <1>3, <1>6, <2>1 DEF Classify, store
  <2>2. CASE Seed \cup ForcedCallers # {}
    <3>1. /\ job' = [job EXCEPT
                 !.changed = Seed \cup ForcedCallers,
                 !.fresh   = \E f \in Seed \cup ForcedCallers : digests[f] = NoDigest,
                 !.skipped = Present \ (Seed \cup ForcedCallers) # {},
                 !.rederive = RederivedCallers,
                 !.touched = Defs(Touched),
                 !.collateral = Collateral]
          /\ pc = "classify" /\ pc' = "remove" /\ UNCHANGED <<store, world>>
      BY <1>6, <2>2 DEF Classify
    <3>2. /\ job'.changed = Seed \cup ForcedCallers /\ job'.force = job.force
          /\ job'.overrideGate = job.overrideGate /\ job'.schemeGate = job.schemeGate
      BY <1>1, <3>1 DEF JobTyped
    <3>3. Present' = Present /\ Indexed' = Indexed /\ UNCHANGED <<digests, minted>>
      BY <3>1 DEF world, store, Present, Indexed
    <3>4. job.force => Seed = Present
      BY DEF Seed
    <3>5. ForcedIsWhole'
      BY <1>1, <3>2, <3>3, <3>4, ClassifiedIsTyped DEF ForcedIsWhole
    <3>6. SweptIsPresent' /\ RowsAreIndexed' /\ GatesForce'
      BY <3>1, <3>2, <3>3 DEF SweptIsPresent, RowsAreIndexed, GatesForce
    <3>. QED BY <1>1, <3>1, <3>5, <3>6 DEF RewrittenRows, Written, Extracting
  <2>. QED BY <2>1, <2>2
<1>7. CASE Remove
  <2>1. \A f \in Files :
           /\ digests'[f] = IF f \in job.changed THEN NoDigest ELSE digests[f]
           /\ minted'[f] = IF f \in job.changed THEN NoDigest ELSE minted[f]
    BY <1>7 DEF Remove, RemoveFiles, DigestsWithout
  <2>2. Present' = Present /\ pc' = "write" /\ pc = "remove" /\ job' = job
    BY <1>7 DEF Remove, world, Present
  <2>3. SweptIsPresent' /\ RowsAreIndexed' /\ GatesForce' /\ ForcedIsWhole'
    BY <2>1, <2>2 DEF SweptIsPresent, RowsAreIndexed, Indexed, GatesForce, ForcedIsWhole, Extracting
  <2>. QED BY <1>1, <2>2, <2>3 DEF RewrittenRows, Written, Extracting
<1>8. CASE Write
  <2>1. \A f \in Files :
           /\ digests'[f] = IF f \in job.changed THEN disk[f] ELSE digests[f]
           /\ minted'[f] = IF f \in job.changed /\ ~disk[f].opaque THEN env ELSE minted[f]
    BY <1>8 DEF Write
  <2>2. Present' = Present /\ pc' = "resolve" /\ pc = "write" /\ job' = job /\ env' = env
    BY <1>8 DEF Write, world, Present
  <2>3. job.changed \subseteq Present /\ \A f \in job.changed : digests'[f] # NoDigest
    <3>1. job.changed \subseteq Present
      BY <1>1, <2>2 DEF TypeInv, ChangedArePresent, Extracting
    <3>. QED BY <1>1, <2>1, <3>1, TypeInvParts, PresentAreTexts, AbsentIsNoText
  <2>4. \A f \in job.changed : minted[f] = NoDigest
    BY <1>1, <2>2 DEF RowsAreIndexed, DigestInv, ChangedAreRewritten
  <2>5. RewrittenRows'
    BY <1>1, <2>1, <2>2, <2>4 DEF RewrittenRows
  <2>6. SweptIsPresent' /\ RowsAreIndexed' /\ GatesForce' /\ ForcedIsWhole'
    BY <2>1, <2>2, <2>3 DEF SweptIsPresent, RowsAreIndexed, Indexed, GatesForce, ForcedIsWhole, Extracting
  <2>. QED BY <1>1, <2>5, <2>6
<1>9. CASE Resolve \/ Rederive \/ Backfill \/ Restore \/ Prune
  <2>1. /\ UNCHANGED <<digests, minted, disk, env, job>>
        /\ pc \in Written /\ pc' \in Written
    BY <1>9 DEF Resolve, Rederive, Backfill, Restore, Prune, world, Written, Extracting
  <2>. QED BY <1>2, <2>1 DEF Written, Extracting
<1>10. CASE Finish \/ Crash
  BY <1>3, <1>10 DEF Finish, Crash, store
<1>11. CASE ClearDigests
  <2>1. \A f \in Files : digests'[f] = NoDigest <=> digests[f] = NoDigest
    BY <1>11, AbsentIsNoText DEF ClearDigests, Indexed
  <2>. QED BY <1>3, <1>11, <2>1 DEF ClearDigests
<1>12. ASSUME NEW f \in Files, NEW t \in Texts[f] \cup {Absent}, Edit(f, t)
       PROVE  RunInv'
  BY <1>3, <1>12 DEF Edit, store
<1>13. ASSUME NEW e \in Environments, Upgrade(e)
       PROVE  RunInv'
  BY <1>3, <1>13 DEF Upgrade, store
<1>14. CASE UNCHANGED vars
  <2>1. UNCHANGED <<digests, minted, disk, env, pc, job>>
    BY <1>14 DEF vars, store, world
  <2>2. Present' = Present /\ Indexed' = Indexed
    BY <2>1 DEF Present, Indexed
  <2>. QED BY <1>1, <2>1, <2>2
          DEF RowsAreIndexed, SweptIsPresent, GatesForce, ForcedIsWhole, RewrittenRows
<1>. QED
  BY <1>4, <1>5, <1>6, <1>7, <1>8, <1>9, <1>10, <1>11, <1>12, <1>13, <1>14 DEF Next, Step

LEMMA InitIsRun == Init => RunInv
<1> SUFFICES ASSUME Init PROVE RunInv
  OBVIOUS
<1>. QED BY InitCertifies
     DEF Init, RunInv, RowsAreIndexed, SweptIsPresent, GatesForce, ForcedIsWhole, RewrittenRows,
         Written, Extracting

\* A run completes by finishing, or with nothing to extract.
LEMMA CompletionSteps ==
    ASSUME TypeInv, [Next]_vars, Completes
    PROVE  /\ Finish \/ (Classify /\ Seed \cup ForcedCallers = {})
           /\ minted' = minted /\ env' = env /\ pc # "idle"
<1>1. ~Crash
  BY TypeInvParts, BoundsAreNat DEF Completes, Crash
<1>2. Finish \/ (Classify /\ Seed \cup ForcedCallers = {})
  BY <1>1 DEF Completes, Next, Step, Start, Sweep, Classify, Remove, Write, Resolve, Rederive,
              Backfill, Restore, Prune, Edit, Upgrade, ClearDigests, vars
<1>. QED BY <1>2 DEF Completes, Finish, Classify, store, world

\* When a forced run completes, every row is of its environment.
LEMMA ForcedRunRewrites ==
    ASSUME RunInv, [Next]_vars, Completes, job.force
    PROVE  \A f \in Files : minted[f] \in {NoDigest, env}
<1>1. TypeInv
  BY DEF RunInv, DigestInv
<1>2. CASE Finish
  <2>1. pc = "finish" /\ pc \in Extracting /\ pc \in Written
    BY <1>2 DEF Finish, Written, Extracting
  <2>2. Indexed \subseteq job.changed
    BY <2>1 DEF RunInv, SweptIsPresent, ForcedIsWhole
  <2>. QED BY <2>1, <2>2 DEF RunInv, RowsAreIndexed, RewrittenRows, Indexed
<1>3. CASE Classify /\ Seed \cup ForcedCallers = {}
  <2>1. Present = {}
    BY <1>3 DEF Seed
  <2>2. Indexed = {}
    BY <1>3, <2>1 DEF RunInv, SweptIsPresent, Classify
  <2>. QED BY <2>2 DEF RunInv, RowsAreIndexed, Indexed
<1>. QED BY <1>1, <1>2, <1>3, CompletionSteps

-----------------------------------------------------------------------------
(* The keys written at once, version and rules: until a first crash.        *)

CurrentUnder(v, r) ==
    \A f \in Files : minted[f] # NoDigest => minted[f].version = v /\ minted[f].rules = r

\* Between runs the keys name the environment of the rows; inside a run they
\* already name the new one, and the rows follow if it does not force.
EarlyKeysAgree ==
    /\ pc # "idle" => meta.version = env.version /\ meta.rules = env.rules
    /\ crashes = 0 =>
          /\ pc = "idle" => CurrentUnder(meta.version, meta.rules)
          /\ pc # "idle" /\ ~job.force => CurrentUnder(env.version, env.rules)

LEMMA CompletedIsCurrent ==
    ASSUME RunInv, EarlyKeysAgree, [Next]_vars, Completes, crashes = 0
    PROVE  CurrentUnder(env.version, env.rules)
  BY ForcedRunRewrites DEF EarlyKeysAgree, Completes, CurrentUnder

LEMMA NextKeepsEarlyKeys == RunInv /\ EarlyKeysAgree /\ [Next]_vars => EarlyKeysAgree'
<1> SUFFICES ASSUME RunInv, EarlyKeysAgree, [Next]_vars PROVE EarlyKeysAgree'
  OBVIOUS
<1>1. TypeInv /\ JobTyped /\ MetaTyped /\ crashes \in Nat
  BY BoundsAreNat, TypeInvParts DEF RunInv, DigestInv
<1>2. CASE Start
  <2>1. /\ meta' = KeysWrittenAtOnce /\ pc = "idle" /\ pc' = "sweep"
        /\ UNCHANGED <<minted, env, crashes>>
        /\ job' = [NoJob EXCEPT !.force = VersionGate \/ RulesGate \/ OverrideGate \/ SchemeGate,
                                !.overrideGate = OverrideGate,
                                !.schemeGate = SchemeGate]
    BY <1>2 DEF Start, store, world
  <2>2. meta'.version = env.version /\ meta'.rules = env.rules
    BY <1>1, <2>1 DEF KeysWrittenAtOnce, MetaTyped
  <2>3. ~job'.force => ~VersionGate /\ ~RulesGate
    BY <2>1 DEF NoJob
  <2>4. ASSUME crashes = 0, ~VersionGate, ~RulesGate
        PROVE  CurrentUnder(env.version, env.rules)
    <3>1. CurrentUnder(meta.version, meta.rules) /\ meta.rules = env.rules
      BY <2>1, <2>4 DEF EarlyKeysAgree, RulesGate
    <3>2. CASE meta.version = env.version
      BY <3>1, <3>2
    <3>3. CASE meta.version = NoKey
      <4>1. \A f \in Files : minted[f] # NoDigest => minted[f].version # NoKey
        BY <1>1, TypeInvParts, EnvironmentsAreKeyed DEF StoreTyped
      <4>. QED BY <3>1, <3>3, <4>1 DEF CurrentUnder
    <3>. QED BY <2>4, <3>2, <3>3 DEF VersionGate
  <2>. QED BY <2>1, <2>2, <2>3, <2>4 DEF EarlyKeysAgree, CurrentUnder
<1>3. ASSUME Completes PROVE EarlyKeysAgree'
  <2>1. UNCHANGED <<minted, env, crashes>> /\ pc # "idle" /\ pc' = "idle"
    BY <1>1, <1>3, CompletionSteps DEF Completes
  <2>2. meta'.version = meta.version /\ meta'.rules = meta.rules
    BY <1>1, <1>3, CompletionSteps DEF Finish, Classify, MetaTyped
  <2>3. meta.version = env.version /\ meta.rules = env.rules
    BY <2>1 DEF EarlyKeysAgree
  <2>4. crashes = 0 => CurrentUnder(env.version, env.rules)
    BY <1>3, CompletedIsCurrent
  <2>. QED BY <2>1, <2>2, <2>3, <2>4 DEF EarlyKeysAgree, CurrentUnder
<1>4. CASE Crash
  BY <1>1, <1>4 DEF Crash, EarlyKeysAgree
<1>5. ASSUME Step, ~Start, ~Completes PROVE EarlyKeysAgree'
  <2>1. pc # "idle" /\ pc' # "idle" /\ UNCHANGED <<meta, env, crashes>>
    BY <1>5 DEF Completes, Step, Sweep, Classify, Remove, Write, Resolve, Rederive, Backfill,
                Restore, Prune, Finish, world
  <2>2. job'.force = job.force
    BY <1>1, <1>5, <2>1 DEF Step, Sweep, Classify, Remove, Write, Resolve, Rederive, Backfill,
                Restore, Prune, Finish, JobTyped
  <2>3. CurrentUnder(env.version, env.rules) => CurrentUnder(env.version, env.rules)'
    BY <1>1, <1>5, <2>1, RowsMove DEF CurrentUnder, Next
  <2>. QED BY <2>1, <2>2, <2>3 DEF EarlyKeysAgree
<1>6. ASSUME UNCHANGED <<meta, minted, crashes, pc>>, pc = "idle" PROVE EarlyKeysAgree'
  BY <1>6 DEF EarlyKeysAgree, CurrentUnder
<1>7. CASE UNCHANGED vars
  BY <1>7 DEF vars, store, world, EarlyKeysAgree, CurrentUnder
<1>8. ASSUME NEW f \in Files, NEW t \in Texts[f] \cup {Absent}, Edit(f, t)
      PROVE  EarlyKeysAgree'
  BY <1>6, <1>8 DEF Edit, store
<1>9. ASSUME NEW e \in Environments, Upgrade(e)
      PROVE  EarlyKeysAgree'
  BY <1>6, <1>9 DEF Upgrade, store
<1>10. CASE ClearDigests
  BY <1>6, <1>10 DEF ClearDigests
<1>. QED BY <1>2, <1>3, <1>4, <1>5, <1>7, <1>8, <1>9, <1>10 DEF Next

\* Until a first crash, a run that completes leaves no row of another binary or
\* rule set: stamping indexed_version and the rules key before the
\* re-extraction is enough, from an empty store and across any upgrades.
THEOREM UpgradesHeal == Spec => CompletedRunIsCurrent
<1>1. Init => EarlyKeysAgree
  BY DEF Init, EarlyKeysAgree, CurrentUnder
<1>2. RunInv /\ EarlyKeysAgree /\ [Next]_vars => (RunInv /\ EarlyKeysAgree)'
  BY NextKeepsRun, NextKeepsEarlyKeys
<1>3. RunInv /\ EarlyKeysAgree /\ [Next]_vars =>
         [Completes /\ crashes = 0 => \A f \in Files : minted'[f] # NoDigest =>
             minted'[f].version = env.version /\ minted'[f].rules = env.rules]_vars
  <2> SUFFICES ASSUME RunInv, EarlyKeysAgree, [Next]_vars, Completes, crashes = 0
               PROVE  CurrentUnder(env.version, env.rules) /\ minted' = minted
    BY DEF CurrentUnder
  <2>. QED BY CompletedIsCurrent, CompletionSteps DEF RunInv, DigestInv
<1>. QED BY <1>1, <1>2, <1>3, InitIsRun, PTL DEF Spec, CompletedRunIsCurrent

-----------------------------------------------------------------------------
(* The keys written last, overrides and scheme: whatever runs died.         *)

\* An override set or id scheme that was replaced is not installed again: the
\* keys are numbered in the order they are installed in.
NoneReturns ==
    \A p \in Upgrades : /\ p[1].overrides <= p[2].overrides
                        /\ p[1].scheme <= p[2].scheme

\* Inside a run that no gate forced, the rows already are of its environment.
UngatedRowsAgree ==
    pc # "idle" => \A f \in Files : minted[f] # NoDigest =>
        /\ ~job.overrideGate => minted[f].overrides = env.overrides
        /\ ~job.schemeGate => minted[f].scheme = env.scheme

\* The keys trail the rows, which trail the environment.
KeysTrail ==
    /\ meta.overrides <= env.overrides /\ meta.scheme <= env.scheme
    /\ \A f \in Files : minted[f] # NoDigest =>
          /\ meta.overrides <= minted[f].overrides /\ minted[f].overrides <= env.overrides
          /\ meta.scheme <= minted[f].scheme /\ minted[f].scheme <= env.scheme

LateKeysAgree == UngatedRowsAgree /\ KeysTrail

LEMMA RowsAreKeyed ==
    ASSUME TypeInv
    PROVE  /\ meta.overrides \in Nat /\ meta.scheme \in Nat
           /\ env.overrides \in Nat /\ env.scheme \in Nat
           /\ \A f \in Files : minted[f] # NoDigest =>
                 minted[f].overrides \in Nat /\ minted[f].scheme \in Nat
  BY TypeInvParts, EnvironmentsAreKeyed DEF MetaTyped, StoreTyped

LEMMA CompletedIsOneScheme ==
    ASSUME RunInv, LateKeysAgree, [Next]_vars, Completes
    PROVE  \A f \in Files : minted[f] # NoDigest =>
              minted[f].overrides = env.overrides /\ minted[f].scheme = env.scheme
<1>1. CASE job.force
  BY <1>1, ForcedRunRewrites
<1>2. CASE ~job.force
  BY <1>2 DEF RunInv, GatesForce, LateKeysAgree, UngatedRowsAgree, Completes
<1>. QED BY <1>1, <1>2

LEMMA NextKeepsLateKeys ==
    NoneReturns /\ RunInv /\ LateKeysAgree /\ [Next]_vars => LateKeysAgree'
<1> SUFFICES ASSUME NoneReturns, RunInv, LateKeysAgree, [Next]_vars PROVE LateKeysAgree'
  OBVIOUS
<1>1. TypeInv /\ TypeInv' /\ JobTyped /\ MetaTyped
  BY NextIsTyped DEF RunInv, DigestInv, TypeInv
<1>2. CASE Start
  <2>1. /\ meta' = KeysWrittenAtOnce /\ UNCHANGED <<minted, env, digests>>
        /\ job' = [NoJob EXCEPT !.force = VersionGate \/ RulesGate \/ OverrideGate \/ SchemeGate,
                                !.overrideGate = OverrideGate,
                                !.schemeGate = SchemeGate]
    BY <1>2 DEF Start, store, world
  <2>2. meta'.overrides = meta.overrides /\ meta'.scheme = meta.scheme
    BY <1>1, <2>1 DEF KeysWrittenAtOnce, MetaTyped
  <2>3. (~job'.overrideGate => ~OverrideGate) /\ (~job'.schemeGate => ~SchemeGate)
    BY <2>1 DEF NoJob
  <2>4. KeysTrail'
    BY <2>1, <2>2 DEF LateKeysAgree, KeysTrail
  <2>5. ASSUME NEW f \in Files, minted[f] # NoDigest
        PROVE  /\ ~OverrideGate => minted[f].overrides = env.overrides
               /\ ~SchemeGate => minted[f].scheme = env.scheme
    <3>1. f \in Indexed
      BY <2>5 DEF RunInv, RowsAreIndexed, Indexed
    <3>. QED BY <1>1, <2>5, <3>1, RowsAreKeyed
            DEF LateKeysAgree, KeysTrail, OverrideGate, SchemeGate
  <2>6. UngatedRowsAgree'
    BY <2>1, <2>3, <2>5 DEF UngatedRowsAgree
  <2>. QED BY <2>4, <2>6 DEF LateKeysAgree
<1>3. ASSUME Completes PROVE LateKeysAgree'
  <2>1. UNCHANGED <<minted, env>> /\ pc' = "idle"
    BY <1>1, <1>3, CompletionSteps DEF Completes
  <2>2. /\ meta'.overrides \in {meta.overrides, env.overrides}
        /\ meta'.scheme \in {meta.scheme, env.scheme}
    BY <1>1, <1>3, CompletionSteps DEF Finish, Classify, MetaTyped
  <2>3. \A f \in Files : minted[f] # NoDigest =>
              minted[f].overrides = env.overrides /\ minted[f].scheme = env.scheme
    BY <1>3, CompletedIsOneScheme
  <2>4. KeysTrail'
    BY <1>1, <2>1, <2>2, <2>3, RowsAreKeyed DEF LateKeysAgree, KeysTrail
  <2>. QED BY <2>1, <2>4 DEF LateKeysAgree, UngatedRowsAgree
<1>4. ASSUME UNCHANGED <<meta, minted, env>>, pc' = "idle" PROVE LateKeysAgree'
  BY <1>4 DEF LateKeysAgree, KeysTrail, UngatedRowsAgree
<1>5. ASSUME Step, ~Start, ~Completes PROVE LateKeysAgree'
  <2>1. pc # "idle" /\ pc' # "idle" /\ UNCHANGED <<meta, env>>
    BY <1>5 DEF Completes, Step, Sweep, Classify, Remove, Write, Resolve, Rederive, Backfill,
                Restore, Prune, Finish, world
  <2>2. job'.overrideGate = job.overrideGate /\ job'.schemeGate = job.schemeGate
    BY <1>1, <1>5, <2>1 DEF Step, Sweep, Classify, Remove, Write, Resolve, Rederive, Backfill,
                Restore, Prune, Finish, JobTyped
  <2>3. \A f \in Files : minted'[f] \in {minted[f], NoDigest, env}
    BY <1>1, <1>5, RowsMove DEF Next
  <2>4. KeysTrail'
    BY <1>1, <2>1, <2>3, RowsAreKeyed DEF LateKeysAgree, KeysTrail
  <2>5. UngatedRowsAgree'
    BY <2>1, <2>2, <2>3 DEF LateKeysAgree, UngatedRowsAgree
  <2>. QED BY <2>4, <2>5 DEF LateKeysAgree
<1>6. ASSUME NEW e \in Environments, Upgrade(e)
      PROVE  LateKeysAgree'
  <2>1. UNCHANGED <<meta, minted, pc>> /\ pc = "idle" /\ env' = e
    BY <1>6 DEF Upgrade, store
  <2>2. env.overrides <= e.overrides /\ env.scheme <= e.scheme
    BY <1>6 DEF Upgrade, NoneReturns
  <2>3. KeysTrail'
    <3>1. e.overrides \in Nat /\ e.scheme \in Nat
      BY EnvironmentsAreKeyed
    <3>. QED BY <1>1, <2>1, <2>2, <3>1, RowsAreKeyed DEF LateKeysAgree, KeysTrail
  <2>. QED BY <2>1, <2>3 DEF LateKeysAgree, UngatedRowsAgree
<1>7. CASE Crash
  BY <1>4, <1>7 DEF Crash, store, world
<1>8. ASSUME NEW f \in Files, NEW t \in Texts[f] \cup {Absent}, Edit(f, t)
      PROVE  LateKeysAgree'
  BY <1>4, <1>8 DEF Edit, store
<1>9. CASE ClearDigests
  BY <1>4, <1>9 DEF ClearDigests
<1>10. CASE UNCHANGED vars
  BY <1>10 DEF vars, store, world, LateKeysAgree, KeysTrail, UngatedRowsAgree
<1>. QED BY <1>2, <1>3, <1>5, <1>6, <1>7, <1>8, <1>9, <1>10 DEF Next

\* The override and scheme keys, written when a run has completed, never
\* certify a mixed store: whatever runs died before it, a run that completes
\* leaves no row of another override set or id scheme, as long as none that
\* was replaced is installed again.
THEOREM LateKeysCertify ==
    ASSUME NoneReturns
    PROVE  Spec => WriteLastKeysCertify
<1>1. Init => LateKeysAgree
  BY InitIsTyped, RowsAreKeyed
     DEF Init, LateKeysAgree, KeysTrail, UngatedRowsAgree, NoKey
<1>2. RunInv /\ LateKeysAgree /\ [Next]_vars => (RunInv /\ LateKeysAgree)'
  BY NoneReturns, NextKeepsRun, NextKeepsLateKeys
<1>3. RunInv /\ LateKeysAgree /\ [Next]_vars =>
         [Completes => \A f \in Files : minted'[f] # NoDigest =>
             minted'[f].overrides = env.overrides /\ minted'[f].scheme = env.scheme]_vars
  BY CompletedIsOneScheme, CompletionSteps DEF RunInv, DigestInv
<1>. QED BY <1>1, <1>2, <1>3, InitIsRun, PTL DEF Spec, WriteLastKeysCertify

-----------------------------------------------------------------------------
(* No relative import is lost, until a first crash.                         *)

\* Extraction skips no text.
NoneIsOpaque == \A t \in AllTexts : ~t.opaque

IsImport(r)     == r.kind = "imports"
ParkedRow(f, r) == [file |-> f, ref |-> r]
ImportEdge(f, g) == [from |-> f, kind |-> "imports", to |-> FileNode(g)]

FileNodesThere == \A f \in Files : digests[f] # NoDigest => FileNode(f) \in nodes

SkippedIsRest == pc \in Extracting /\ ~job.skipped => Present \subseteq job.changed

\* A parked import waits for a file that is not indexed; once the changed files
\* are written, one that no longer does waits for this run's back-fill, which
\* has the new path it needs to look at it.
ParkedUnbound ==
    \A p \in parked : IsImport(p.ref) =>
        /\ FileNode(p.ref.to) \in nodes =>
              pc \in {"resolve", "rederive", "backfill"} /\ p.file \notin job.changed /\ job.fresh
        /\ pc \in {"remove", "write"} /\ p.ref.to \in job.changed /\ p.file \notin job.changed
              => job.fresh

\* An import of a certified text is parked or a live edge, except that a file
\* about to be extracted again owes none, an edge to a file the sweep removed
\* has its source among the importers, and the removal of changed files leaves
\* edges to them until they are written.
ImportsKept ==
    \A f \in Files : Certified(f) /\ (pc \in {"remove", "write", "resolve"} => f \notin job.changed) =>
        \A r \in RefsOf(digests[f]) : IsImport(r) =>
            \/ ParkedRow(f, r) \in parked
            \/ /\ ImportEdge(f, r.to) \in edges
               /\ \/ FileNode(r.to) \in nodes
                  \/ pc = "classify" /\ f \in job.importers
                  \/ pc = "write" /\ r.to \in job.changed

ImportInv == RunInv /\ FileNodesThere /\ SkippedIsRest /\ ParkedUnbound /\ ImportsKept

LEMMA ImportsBind ==
    ASSUME NEW f, NEW r, IsImport(r), NEW N
    PROVE  Binds(f, r, N) = {FileNode(r.to)} \cap N
  BY DEF Binds, IsImport

LEMMA RefsAreRefs ==
    ASSUME NEW t \in AllTexts, NEW r \in RefsOf(t)
    PROVE  r \in Ref /\ (IsImport(r) => r.to \in Files)
<1>1. r \in t.refs /\ t.refs \subseteq Ref
  BY TextsAreTexts DEF RefsOf
<1>. QED BY <1>1 DEF Ref, IsImport

\* Value flow adds no File node.
LEMMA FlowAddsNoFileNode ==
    ASSUME NEW P \in SUBSET Site, NEW N \in SUBSET Symbol, NEW E \in SUBSET ResolvedEdges(P, N),
           NEW g
    PROVE  FileNode(g) \notin CallerEnds(CallValueFlow(E, N))
<1>1. \A s \in CallerEnds(CallValueFlow(E, N)) : s.end \in {"argument", "result"}
  BY PassIsTyped
<1>. QED BY <1>1 DEF FileNode

\* Resolving sites P over the nodes accounts for each import among them.
LEMMA ResolutionAccounts ==
    ASSUME NEW P, NEW N, NEW p \in P, IsImport(p.ref)
    PROVE  /\ FileNode(p.ref.to) \in N <=> p \notin Unresolved(P, N)
           /\ FileNode(p.ref.to) \in N =>
                 ImportEdge(p.file, p.ref.to) \in ResolvedEdges(P, N)
<1>1. Binds(p.file, p.ref, N) = {FileNode(p.ref.to)} \cap N
  BY ImportsBind
<1>2. FileNode(p.ref.to) \in N <=> p \notin Unresolved(P, N)
  BY <1>1 DEF Unresolved
<1>3. ASSUME FileNode(p.ref.to) \in N
      PROVE  ImportEdge(p.file, p.ref.to) \in ResolvedEdges(P, N)
  <2>1. FileNode(p.ref.to) \in Binds(p.file, p.ref, N)
    BY <1>1, <1>3
  <2>2. ImportEdge(p.file, p.ref.to) = [from |-> p.file, kind |-> p.ref.kind, to |-> FileNode(p.ref.to)]
    BY DEF ImportEdge, IsImport
  <2>. QED BY <2>1, <2>2 DEF ResolvedEdges
<1>. QED BY <1>2, <1>3

LEMMA SitesOfText ==
    ASSUME NEW F, NEW f \in F, disk[f] \in AllTexts, NEW r \in RefsOf(disk[f])
    PROVE  ParkedRow(f, r) \in Sites(F)
  BY RefsAreRefs DEF ParkedRow, Sites

\* Removing files spares the rows and the import edges of the others.
LEMMA RemovalSparesImports ==
    ASSUME NEW F, RemoveFiles(F), NEW f, f \notin F, NEW g
    PROVE  /\ \A r : ParkedRow(f, r) \in parked => ParkedRow(f, r) \in parked'
           /\ ImportEdge(f, g) \in edges => ImportEdge(f, g) \in edges'
           /\ FileNode(g) \in nodes /\ g \notin F => FileNode(g) \in nodes'
           /\ nodes' \subseteq nodes /\ parked' \subseteq parked
           /\ FileNode(f) \in nodes => FileNode(f) \in nodes'
           /\ \A p \in parked' : p.file \notin F
  BY DEF RemoveFiles, ParkedWithout, EdgesWithout, NodesWithout, ParkedRow, ImportEdge, FileNode

-----------------------------------------------------------------------------
\* A resolver pass keeps every import that is parked or live.
LEMMA GrowthKeepsImports ==
    ASSUME ImportInv, pc \in {"rederive", "backfill", "restore", "prune", "finish"},
           pc' \in {"backfill", "restore", "prune", "finish"},
           digests' = digests, nodes \subseteq nodes',
           \A f \in Files : \A r : IsImport(r) /\ ParkedRow(f, r) \in parked =>
              ParkedRow(f, r) \in parked' \/ (ImportEdge(f, r.to) \in edges' /\ FileNode(r.to) \in nodes'),
           \A f \in Files : \A r : IsImport(r) /\ ImportEdge(f, r.to) \in edges /\ FileNode(r.to) \in nodes
                                 /\ FileNode(f) \in nodes
              => ImportEdge(f, r.to) \in edges'
    PROVE  ImportsKept'
<1> SUFFICES ASSUME NEW f \in Files, Certified(f), NEW r \in RefsOf(digests[f]), IsImport(r)
             PROVE  \/ ParkedRow(f, r) \in parked'
                    \/ ImportEdge(f, r.to) \in edges' /\ FileNode(r.to) \in nodes'
  BY DEF ImportsKept, Certified
<1>1. \/ ParkedRow(f, r) \in parked
      \/ ImportEdge(f, r.to) \in edges /\ FileNode(r.to) \in nodes
  BY DEF ImportInv, ImportsKept
<1>2. FileNode(f) \in nodes
  BY DEF ImportInv, FileNodesThere, Certified
<1>. QED BY <1>1, <1>2

LEMMA SweepKeepsImports ==
    ASSUME ImportInv, Sweep
    PROVE  FileNodesThere' /\ ParkedUnbound' /\ ImportsKept'
<1> DEFINE deleted == Indexed \ Present
<1>1. /\ pc = "sweep" /\ pc' = "classify" /\ RemoveFiles(deleted)
      /\ job' = [job EXCEPT !.importers = Importers(deleted)]
      /\ deleted \in SUBSET Files /\ TypeInv /\ JobTyped
  BY TypeInvParts DEF Sweep, Indexed, ImportInv, RunInv, DigestInv
<1>2. \A f \in Files : digests'[f] = IF f \in deleted THEN NoDigest ELSE digests[f]
  BY <1>1 DEF RemoveFiles, DigestsWithout
<1>3. FileNodesThere'
  <2> SUFFICES ASSUME NEW f \in Files, digests'[f] # NoDigest PROVE FileNode(f) \in nodes'
    BY DEF FileNodesThere
  <2>1. f \notin deleted /\ FileNode(f) \in nodes
    BY <1>2 DEF ImportInv, FileNodesThere
  <2> HIDE DEF deleted
  <2>. QED BY <1>1, <2>1, RemovalSparesImports
<1>4. ParkedUnbound'
  <2>1. parked' \subseteq parked /\ nodes' \subseteq nodes
    BY <1>1 DEF RemoveFiles, ParkedWithout, NodesWithout
  <2>. QED BY <1>1, <2>1 DEF ImportInv, ParkedUnbound
<1>5. ASSUME NEW f \in Files, Certified(f)', NEW r \in RefsOf(digests'[f]), IsImport(r)
      PROVE  \/ ParkedRow(f, r) \in parked'
             \/ /\ ImportEdge(f, r.to) \in edges'
                /\ FileNode(r.to) \in nodes' \/ f \in Importers(deleted)
  <2>1. f \notin deleted /\ digests'[f] = digests[f] /\ Certified(f)
    BY <1>2, <1>5 DEF Certified
  <2>2. \/ ParkedRow(f, r) \in parked
        \/ ImportEdge(f, r.to) \in edges /\ FileNode(r.to) \in nodes
    BY <1>1, <1>5, <2>1 DEF ImportInv, ImportsKept
  <2>3. CASE ParkedRow(f, r) \in parked
    <3> HIDE DEF deleted
    <3>. QED BY <1>1, <2>1, <2>3, RemovalSparesImports
  <2>4. CASE ImportEdge(f, r.to) \in edges /\ FileNode(r.to) \in nodes /\ r.to \notin deleted
    <3> HIDE DEF deleted
    <3>. QED BY <1>1, <2>1, <2>4, RemovalSparesImports
  <2>5. CASE ImportEdge(f, r.to) \in edges /\ r.to \in deleted
    <3>1. FileNode(f) \in nodes
      BY <2>1 DEF ImportInv, FileNodesThere, Certified
    <3> HIDE DEF deleted
    <3>2. f \in Importers(deleted)
      BY <2>1, <2>5, <3>1 DEF Importers, ImportEdge
    <3>. QED BY <1>1, <2>1, <2>5, <3>2, RemovalSparesImports
  <2>. QED BY <2>2, <2>3, <2>4, <2>5
<1>6. job'.importers = Importers(deleted)
  BY <1>1 DEF JobTyped
<1>7. ImportsKept'
  BY <1>1, <1>5, <1>6 DEF ImportsKept
<1>. QED BY <1>3, <1>4, <1>7

LEMMA ClassifyKeepsImports ==
    ASSUME ImportInv, Classify, Seed \cup ForcedCallers # {}
    PROVE  FileNodesThere' /\ SkippedIsRest' /\ ParkedUnbound' /\ ImportsKept'
<1>1. /\ job' = [job EXCEPT
             !.changed = Seed \cup ForcedCallers,
             !.fresh   = \E f \in Seed \cup ForcedCallers : digests[f] = NoDigest,
             !.skipped = Present \ (Seed \cup ForcedCallers) # {},
             !.rederive = RederivedCallers,
             !.touched = Defs(Touched),
             !.collateral = Collateral]
      /\ pc = "classify" /\ pc' = "remove"
      /\ UNCHANGED <<nodes, edges, parked, digests, disk>>
      /\ TypeInv /\ JobTyped
  BY TypeInvParts DEF Classify, store, world, ImportInv, RunInv, DigestInv
<1>2. /\ job'.changed = Seed \cup ForcedCallers
      /\ job'.fresh <=> \E f \in Seed \cup ForcedCallers : digests[f] = NoDigest
      /\ job'.skipped <=> Present \ (Seed \cup ForcedCallers) # {}
  BY <1>1 DEF JobTyped
<1>3. FileNodesThere'
  BY <1>1 DEF ImportInv, FileNodesThere
<1>4. SkippedIsRest'
  BY <1>1, <1>2 DEF SkippedIsRest, Present
<1>5. ParkedUnbound'
  <2> SUFFICES ASSUME NEW p \in parked, IsImport(p.ref)
               PROVE  /\ FileNode(p.ref.to) \notin nodes
                      /\ p.ref.to \in job'.changed => job'.fresh
    BY <1>1 DEF ParkedUnbound
  <2>1. FileNode(p.ref.to) \notin nodes
    BY <1>1 DEF ImportInv, ParkedUnbound
  <2>2. ASSUME p.ref.to \in job'.changed PROVE job'.fresh
    <3>1. p.ref.to \in Files
      BY <1>1, TypeInvParts DEF StoreTyped, Site, Ref, IsImport
    <3>2. digests[p.ref.to] = NoDigest
      BY <2>1, <3>1 DEF ImportInv, FileNodesThere
    <3>. QED BY <1>2, <2>2, <3>2
  <2>. QED BY <2>1, <2>2
<1>6. ImportsKept'
  <2> SUFFICES ASSUME NEW f \in Files, Certified(f), f \notin job'.changed,
                      NEW r \in RefsOf(digests[f]), IsImport(r)
               PROVE  \/ ParkedRow(f, r) \in parked
                      \/ ImportEdge(f, r.to) \in edges /\ FileNode(r.to) \in nodes
    BY <1>1 DEF ImportsKept, Certified
  <2>1. f \in Present
    BY <1>1 DEF ImportInv, RunInv, SweptIsPresent, Certified, Indexed
  <2>2. f \notin job.importers
    BY <1>2, <2>1 DEF Seed
  <2>. QED BY <1>1, <2>2 DEF ImportInv, ImportsKept
<1>. QED BY <1>3, <1>4, <1>5, <1>6

LEMMA RemoveKeepsImports ==
    ASSUME ImportInv, Remove
    PROVE  FileNodesThere' /\ ParkedUnbound' /\ ImportsKept'
<1>1. /\ pc = "remove" /\ pc' = "write" /\ RemoveFiles(job.changed) /\ job' = job
      /\ TypeInv /\ JobTyped /\ job.changed \in SUBSET Files
  BY TypeInvParts DEF Remove, ImportInv, RunInv, DigestInv, JobTyped
<1>2. \A f \in Files : digests'[f] = IF f \in job.changed THEN NoDigest ELSE digests[f]
  BY <1>1 DEF RemoveFiles, DigestsWithout
<1>3. FileNodesThere'
  <2> SUFFICES ASSUME NEW f \in Files, digests'[f] # NoDigest PROVE FileNode(f) \in nodes'
    BY DEF FileNodesThere
  <2>1. f \notin job.changed /\ FileNode(f) \in nodes
    BY <1>2 DEF ImportInv, FileNodesThere
  <2>. QED BY <1>1, <2>1, RemovalSparesImports
<1>4. ParkedUnbound'
  <2>1. parked' \subseteq parked /\ nodes' \subseteq nodes
    BY <1>1 DEF RemoveFiles, ParkedWithout, NodesWithout
  <2>. QED BY <1>1, <2>1 DEF ImportInv, ParkedUnbound
<1>5. ASSUME NEW f \in Files, Certified(f)', NEW r \in RefsOf(digests'[f]), IsImport(r)
      PROVE  \/ ParkedRow(f, r) \in parked'
             \/ /\ ImportEdge(f, r.to) \in edges'
                /\ FileNode(r.to) \in nodes' \/ r.to \in job.changed
  <2>1. f \notin job.changed /\ digests'[f] = digests[f] /\ Certified(f)
    BY <1>2, <1>5 DEF Certified
  <2>2. \/ ParkedRow(f, r) \in parked
        \/ ImportEdge(f, r.to) \in edges /\ FileNode(r.to) \in nodes
    BY <1>1, <1>5, <2>1 DEF ImportInv, ImportsKept
  <2>. QED BY <1>1, <2>1, <2>2, RemovalSparesImports
<1>6. ImportsKept'
  BY <1>1, <1>5 DEF ImportsKept
<1>. QED BY <1>3, <1>4, <1>6

LEMMA WriteKeepsImports ==
    ASSUME NoneIsOpaque, ImportInv, Write
    PROVE  FileNodesThere' /\ ParkedUnbound' /\ ImportsKept'
<1>1. /\ pc = "write" /\ pc' = "resolve" /\ job' = job /\ UNCHANGED <<edges, parked, disk>>
      /\ nodes' = nodes \cup Extracted
      /\ TypeInv /\ job.changed \in SUBSET Files
  BY TypeInvParts DEF Write, world, ImportInv, RunInv, DigestInv, JobTyped
<1>2. \A f \in Files : digests'[f] = IF f \in job.changed THEN disk[f] ELSE digests[f]
  BY DEF Write
<1>3. \A f \in job.changed : disk[f] \in AllTexts
  BY <1>1, TypeInvParts, PresentAreTexts DEF TypeInv, ChangedArePresent, Extracting
<1>4. \A f \in job.changed : FileNode(f) \in nodes'
  <2>1. \A f \in job.changed : FileNode(f) \in Mint(f, disk[f])
    BY <1>3, NoneIsOpaque DEF NoneIsOpaque, Mint
  <2>. QED BY <1>1, <2>1 DEF Extracted
<1>5. FileNodesThere'
  BY <1>1, <1>2, <1>4 DEF ImportInv, FileNodesThere
<1>6. ASSUME NEW p \in parked, IsImport(p.ref), FileNode(p.ref.to) \in nodes'
      PROVE  p.file \notin job.changed /\ job.fresh
  <2>1. p.file \notin job.changed
    BY <1>1 DEF ImportInv, RunInv, DigestInv, ParkedAreIndexed, ChangedAreRewritten
  <2>2. FileNode(p.ref.to) \in Extracted
    BY <1>1, <1>6 DEF ImportInv, ParkedUnbound
  <2>3. p.ref.to \in job.changed
    <3>1. PICK g \in job.changed : FileNode(p.ref.to) \in Mint(g, disk[g])
      BY <2>2 DEF Extracted
    <3>2. FileNode(p.ref.to).file = g
      BY <1>1, <1>3, <3>1, MintIsOwn
    <3>. QED BY <3>2 DEF FileNode
  <2>. QED BY <1>1, <1>6, <2>1, <2>3 DEF ImportInv, ParkedUnbound
<1>7. ParkedUnbound'
  BY <1>1, <1>6 DEF ParkedUnbound
<1>8. ImportsKept'
  <2> SUFFICES ASSUME NEW f \in Files, Certified(f)', f \notin job.changed,
                      NEW r \in RefsOf(digests'[f]), IsImport(r)
               PROVE  \/ ParkedRow(f, r) \in parked
                      \/ ImportEdge(f, r.to) \in edges /\ FileNode(r.to) \in nodes'
    BY <1>1 DEF ImportsKept
  <2>1. digests'[f] = digests[f] /\ Certified(f)
    BY <1>2 DEF Certified
  <2>2. \/ ParkedRow(f, r) \in parked
        \/ /\ ImportEdge(f, r.to) \in edges
           /\ FileNode(r.to) \in nodes \/ r.to \in job.changed
    BY <1>1, <2>1 DEF ImportInv, ImportsKept
  <2>. QED BY <1>1, <1>4, <2>2
<1>. QED BY <1>5, <1>7, <1>8

LEMMA ResolveKeepsImports ==
    ASSUME ImportInv, Resolve
    PROVE  FileNodesThere' /\ ParkedUnbound' /\ ImportsKept'
<1> DEFINE P == Sites(job.changed)
           N == nodes
           E == ResolvedEdges(P, N)
<1>1. /\ pc = "resolve" /\ pc' = "rederive" /\ job' = job /\ UNCHANGED <<digests, disk>>
      /\ edges' = edges \cup E \cup CallValueFlow(E, N)
      /\ nodes' = N \cup CallerEnds(CallValueFlow(E, N))
      /\ parked' = parked \cup Unresolved(P, N)
      /\ TypeInv /\ job.changed \in SUBSET Files
  BY TypeInvParts DEF Resolve, WriteEdges, world, ImportInv, RunInv, DigestInv, JobTyped
<1>2. /\ P \in SUBSET Site /\ N \in SUBSET Symbol /\ E \in SUBSET ResolvedEdges(P, N)
      /\ \A p \in P : p.file \in job.changed
  BY <1>1, TypeInvParts, SitesAreTyped DEF StoreTyped
<1>3. \A f \in job.changed : disk[f] \in AllTexts /\ digests[f] = disk[f]
  BY <1>1, TypeInvParts, PresentAreTexts
     DEF TypeInv, ChangedArePresent, ImportInv, RunInv, DigestInv, ChangedAreRewritten, Written,
         Extracting
<1>4. \A f \in job.changed : \A r \in RefsOf(disk[f]) : ParkedRow(f, r) \in P
  BY <1>3, SitesOfText
<1> HIDE DEF P, E
<1>5. \A g : FileNode(g) \in nodes' <=> FileNode(g) \in nodes
  BY <1>1, <1>2, FlowAddsNoFileNode
<1>6. FileNodesThere'
  BY <1>1, <1>5 DEF ImportInv, FileNodesThere
<1>7. \A p \in P : IsImport(p.ref) =>
         /\ FileNode(p.ref.to) \in N <=> p \notin Unresolved(P, N)
         /\ FileNode(p.ref.to) \in N => ImportEdge(p.file, p.ref.to) \in E
  BY ResolutionAccounts DEF E
<1>8. ParkedUnbound'
  <2> SUFFICES ASSUME NEW p \in parked', IsImport(p.ref), FileNode(p.ref.to) \in nodes
               PROVE  p.file \notin job.changed /\ job.fresh
    BY <1>1, <1>5 DEF ParkedUnbound
  <2>1. CASE p \in parked
    BY <1>1, <2>1 DEF ImportInv, ParkedUnbound
  <2>2. CASE p \in Unresolved(P, N)
    BY <1>7, <2>2 DEF Unresolved
  <2>. QED BY <1>1, <2>1, <2>2
<1>9. ImportsKept'
  <2> SUFFICES ASSUME NEW f \in Files, Certified(f), NEW r \in RefsOf(digests[f]), IsImport(r)
               PROVE  \/ ParkedRow(f, r) \in parked'
                      \/ ImportEdge(f, r.to) \in edges' /\ FileNode(r.to) \in nodes'
    BY <1>1 DEF ImportsKept, Certified
  <2>1. CASE f \in job.changed
    <3>1. ParkedRow(f, r) \in P
      BY <1>3, <1>4, <2>1
    <3>2. ParkedRow(f, r).ref = r /\ ParkedRow(f, r).file = f
      BY DEF ParkedRow
    <3>. QED BY <1>1, <1>5, <1>7, <3>1, <3>2
  <2>2. CASE f \notin job.changed
    <3>1. \/ ParkedRow(f, r) \in parked
          \/ ImportEdge(f, r.to) \in edges /\ FileNode(r.to) \in nodes
      BY <1>1, <2>2 DEF ImportInv, ImportsKept
    <3>. QED BY <1>1, <3>1
  <2>. QED BY <2>1, <2>2
<1>. QED BY <1>6, <1>8, <1>9

LEMMA RederiveKeepsImports ==
    ASSUME ImportInv, Rederive
    PROVE  FileNodesThere' /\ ParkedUnbound' /\ ImportsKept'
<1> DEFINE P == {p \in Sites(job.rederive) : p.ref.kind = "calls"}
           N == nodes
           E == {e \in ResolvedEdges(P, N) : e.to \in job.touched \cup Extracted}
<1>1. /\ pc = "rederive" /\ pc' = "backfill" /\ job' = job /\ UNCHANGED <<digests, parked>>
      /\ edges' = edges \cup CallValueFlow(E, N)
      /\ nodes' = N \cup CallerEnds(CallValueFlow(E, N))
      /\ TypeInv /\ job.rederive \in SUBSET Files
  BY TypeInvParts DEF Rederive, Rederived, WriteEdges, ImportInv, RunInv, DigestInv, JobTyped
<1>2. P \in SUBSET Site /\ N \in SUBSET Symbol /\ E \in SUBSET ResolvedEdges(P, N)
  BY <1>1, TypeInvParts, SitesAreTyped DEF StoreTyped
<1> HIDE DEF P, E
<1>3. \A g : FileNode(g) \in nodes' <=> FileNode(g) \in nodes
  BY <1>1, <1>2, FlowAddsNoFileNode
<1>4. FileNodesThere'
  BY <1>1, <1>3 DEF ImportInv, FileNodesThere
<1>5. ParkedUnbound'
  BY <1>1, <1>3 DEF ImportInv, ParkedUnbound
<1>6. ImportsKept'
  BY <1>1, GrowthKeepsImports
<1>. QED BY <1>4, <1>5, <1>6

LEMMA BackfillKeepsImports ==
    ASSUME ImportInv, Backfill
    PROVE  FileNodesThere' /\ ParkedUnbound' /\ ImportsKept'
<1> DEFINE P == IF ~job.force /\ job.skipped THEN BackfillRows ELSE {}
           N == nodes
           E == ResolvedEdges(P, N)
<1>1. /\ pc = "backfill" /\ pc' = "restore" /\ job' = job /\ digests' = digests
      /\ edges' = edges \cup E \cup CallValueFlow(E, N)
      /\ nodes' = N \cup CallerEnds(CallValueFlow(E, N))
      /\ parked' = parked \ (P \ Unresolved(P, N))
      /\ TypeInv
  BY DEF Backfill, WriteEdges, ImportInv, RunInv, DigestInv
<1>2. P \in SUBSET Site /\ N \in SUBSET Symbol /\ E \in SUBSET ResolvedEdges(P, N)
  BY <1>1, TypeInvParts DEF StoreTyped, BackfillRows, ParkedWithout
<1>3. ASSUME NEW p \in parked, IsImport(p.ref), p.file \notin job.changed, job.fresh
      PROVE  p \in P
  <2>1. p.file \in Indexed
    BY <1>1, TypeInvParts
       DEF ImportInv, RunInv, DigestInv, ParkedAreIndexed, Indexed, StoreTyped, Site
  <2>2. p.file \in Present \ job.changed
    BY <1>1, <1>3, <2>1 DEF ImportInv, RunInv, SweptIsPresent, Extracting
  <2>3. ~job.force /\ job.skipped
    BY <1>1, <2>2 DEF ImportInv, RunInv, ForcedIsWhole, SkippedIsRest, Extracting
  <2>4. p \in BackfillRows
    BY <1>3 DEF BackfillRows, ParkedWithout, IsImport
  <2>. QED BY <2>3, <2>4
<1> HIDE DEF P, E
<1>4. \A g : FileNode(g) \in nodes' <=> FileNode(g) \in nodes
  BY <1>1, <1>2, FlowAddsNoFileNode
<1>5. \A p \in P : IsImport(p.ref) =>
         /\ FileNode(p.ref.to) \in N <=> p \notin Unresolved(P, N)
         /\ FileNode(p.ref.to) \in N => ImportEdge(p.file, p.ref.to) \in E
  BY ResolutionAccounts DEF E
<1>6. FileNodesThere'
  BY <1>1, <1>4 DEF ImportInv, FileNodesThere
<1>7. ParkedUnbound'
  <2> SUFFICES ASSUME NEW p \in parked', IsImport(p.ref), FileNode(p.ref.to) \in nodes
               PROVE  FALSE
    BY <1>1, <1>4 DEF ParkedUnbound
  <2>1. p \in parked /\ p \notin P \ Unresolved(P, N)
    BY <1>1
  <2>2. p.file \notin job.changed /\ job.fresh
    BY <2>1 DEF ImportInv, ParkedUnbound
  <2>. QED BY <1>3, <1>5, <2>1, <2>2
<1>8. ImportsKept'
  <2>1. ASSUME NEW f \in Files, NEW r, IsImport(r), ParkedRow(f, r) \in parked,
               ParkedRow(f, r) \notin parked'
        PROVE  ImportEdge(f, r.to) \in edges' /\ FileNode(r.to) \in nodes'
    <3>1. ParkedRow(f, r).ref = r /\ ParkedRow(f, r).file = f
      BY DEF ParkedRow
    <3>2. ParkedRow(f, r) \in P /\ ParkedRow(f, r) \notin Unresolved(P, N)
      BY <1>1, <2>1
    <3>. QED BY <1>1, <1>4, <1>5, <2>1, <3>1, <3>2
  <2>. QED BY <1>1, <2>1, GrowthKeepsImports
<1>. QED BY <1>6, <1>7, <1>8

LEMMA NextKeepsImports ==
    ASSUME NoneIsOpaque, ImportInv, [Next]_vars, crashes' = 0
    PROVE  ImportInv'
<1>1. RunInv /\ RunInv' /\ TypeInv /\ JobTyped /\ JobTyped'
  BY NextKeepsRun, TypeInvParts DEF ImportInv, RunInv, DigestInv, TypeInv
<1> SUFFICES FileNodesThere' /\ SkippedIsRest' /\ ParkedUnbound' /\ ImportsKept'
  BY <1>1 DEF ImportInv
<1>2. ASSUME UNCHANGED <<disk, job>>, pc' \in Extracting => pc \in Extracting
      PROVE  SkippedIsRest'
  <2>1. Present' = Present
    BY <1>2 DEF Present
  <2>. QED BY <1>2, <2>1 DEF ImportInv, SkippedIsRest
\* Between two runs, and up to the sweep, imports are owed as they are stored.
<1>3. ASSUME UNCHANGED <<nodes, edges, parked>>, pc' \in {"idle", "sweep"},
             \A f \in Files : /\ digests'[f] = NoDigest <=> digests[f] = NoDigest
                              /\ Certified(f)' => digests'[f] = digests[f],
             \A f \in Files : Certified(f)' => pc \notin {"remove", "write", "resolve"},
             pc \notin {"remove", "write", "resolve", "rederive", "backfill"},
             pc = "classify" => job.importers \cap Present = {}
      PROVE  FileNodesThere' /\ SkippedIsRest' /\ ParkedUnbound' /\ ImportsKept'
  <2>1. FileNodesThere'
    BY <1>3 DEF ImportInv, FileNodesThere
  <2>2. SkippedIsRest'
    BY <1>3 DEF SkippedIsRest, Extracting
  <2>3. ParkedUnbound'
    BY <1>3 DEF ImportInv, ParkedUnbound
  <2>4. ImportsKept'
    <3> SUFFICES ASSUME NEW f \in Files, Certified(f)', NEW r \in RefsOf(digests'[f]), IsImport(r)
                 PROVE  \/ ParkedRow(f, r) \in parked
                        \/ ImportEdge(f, r.to) \in edges /\ FileNode(r.to) \in nodes
      BY <1>3 DEF ImportsKept
    <3>1. digests'[f] = digests[f] /\ Certified(f)
      BY <1>3 DEF Certified
    <3>2. ~(pc = "classify" /\ f \in job.importers)
      BY <1>1, <1>3, <3>1 DEF RunInv, SweptIsPresent, Certified, Indexed
    <3>. QED BY <1>3, <3>1, <3>2 DEF ImportInv, ImportsKept
  <2>. QED BY <2>1, <2>2, <2>3, <2>4
<1>4. CASE Start
  BY <1>3, <1>4 DEF Start, store, Certified
<1>5. CASE Sweep
  <2>1. SkippedIsRest'
    BY <1>5 DEF Sweep, SkippedIsRest, Extracting
  <2>. QED BY <1>5, <2>1, SweepKeepsImports
<1>6. CASE Classify
  <2>1. CASE Seed \cup ForcedCallers = {}
    <3>1. job.importers \cap Present = {}
      BY <2>1 DEF Seed
    <3>. QED BY <1>3, <1>6, <2>1, <3>1 DEF Classify, store, Certified
  <2>. QED BY <1>6, <2>1, ClassifyKeepsImports
<1>7. CASE Remove
  BY <1>2, <1>7, RemoveKeepsImports DEF Remove, world, Extracting
<1>8. CASE Write
  BY <1>2, <1>8, WriteKeepsImports DEF Write, world, Extracting
<1>9. CASE Resolve
  BY <1>2, <1>9, ResolveKeepsImports DEF Resolve, world, Extracting
<1>10. CASE Rederive
  BY <1>2, <1>10, RederiveKeepsImports DEF Rederive, world, Extracting
<1>11. CASE Backfill
  BY <1>2, <1>11, BackfillKeepsImports DEF Backfill, world, Extracting
<1>12. CASE Restore \/ Prune
  <2>1. /\ pc \in {"restore", "prune"} /\ pc' \in {"prune", "finish"}
        /\ UNCHANGED <<nodes, parked, digests, job, disk>>
    BY <1>12 DEF Restore, Prune, world
  <2>2. \A f \in Files : \A r : IsImport(r) /\ ImportEdge(f, r.to) \in edges
              /\ FileNode(r.to) \in nodes /\ FileNode(f) \in nodes
            => ImportEdge(f, r.to) \in edges'
    BY <1>12 DEF Restore, Prune, LiveEdges, ImportEdge
  <2>3. ImportsKept'
    BY <2>1, <2>2, GrowthKeepsImports
  <2>. QED BY <1>2, <2>1, <2>3 DEF ImportInv, FileNodesThere, ParkedUnbound, Extracting
<1>13. CASE Finish
  BY <1>3, <1>13 DEF Finish, store, Certified
<1>14. CASE Crash
  BY <1>1, <1>14, TypeInvParts, BoundsAreNat DEF Crash
<1>15. ASSUME NEW f \in Files, NEW t \in Texts[f] \cup {Absent}, Edit(f, t)
       PROVE  FileNodesThere' /\ SkippedIsRest' /\ ParkedUnbound' /\ ImportsKept'
  BY <1>3, <1>15 DEF Edit, store, Certified
<1>16. ASSUME NEW e \in Environments, Upgrade(e)
       PROVE  FileNodesThere' /\ SkippedIsRest' /\ ParkedUnbound' /\ ImportsKept'
  BY <1>3, <1>16 DEF Upgrade, store, Certified
<1>17. CASE ClearDigests
  <2>1. \A f \in Files : /\ digests'[f] = NoDigest <=> digests[f] = NoDigest
                         /\ ~Certified(f)'
    BY <1>17, AbsentIsNoText DEF ClearDigests, Indexed, Certified
  <2>. QED BY <1>3, <1>17, <2>1 DEF ClearDigests
<1>18. CASE UNCHANGED vars
  <2>1. Present' = Present
    BY <1>18 DEF vars, world, Present
  <2>. QED BY <1>18, <2>1 DEF vars, store, world, ImportInv, FileNodesThere, SkippedIsRest,
                              ParkedUnbound, ImportsKept, Certified
<1>. QED BY <1>4, <1>5, <1>6, <1>7, <1>8, <1>9, <1>10, <1>11, <1>12, <1>13, <1>14, <1>15, <1>16,
            <1>17, <1>18 DEF Next, Step

LEMMA InitIsImports == Init => ImportInv
<1> SUFFICES ASSUME Init PROVE ImportInv
  OBVIOUS
<1>. QED BY InitIsRun
     DEF Init, ImportInv, FileNodesThere, SkippedIsRest, ParkedUnbound, ImportsKept, Certified,
         Extracting

\* Where a run completes, the invariant says what the property asks.
LEMMA CompletedAccounts ==
    ASSUME ImportInv, ImportInv', [Next]_vars, Completes
    PROVE  /\ AllAccounted({"imports"}, LiveEdges(edges, nodes))'
           /\ \A p \in parked' : p.ref.kind = "imports" => FileNode(p.ref.to) \notin nodes'
<1>1. pc' = "idle"
  BY DEF Completes
<1>2. \A p \in parked' : p.ref.kind = "imports" => FileNode(p.ref.to) \notin nodes'
  BY <1>1 DEF ImportInv, ParkedUnbound, IsImport
<1>3. ASSUME NEW f \in Files, Certified(f)', NEW r \in RefsOf(digests'[f]), r.kind \in {"imports"}
      PROVE  Accounted(f, r, LiveEdges(edges, nodes))'
  <2>1. \/ ParkedRow(f, r) \in parked'
        \/ ImportEdge(f, r.to) \in edges' /\ FileNode(r.to) \in nodes'
    BY <1>1, <1>3 DEF ImportInv, ImportsKept, IsImport
  <2>2. FileNode(f) \in nodes'
    BY <1>3 DEF ImportInv, FileNodesThere, Certified
  <2>3. ASSUME ImportEdge(f, r.to) \in edges', FileNode(r.to) \in nodes'
        PROVE  ImportEdge(f, r.to) \in LiveEdges(edges, nodes)'
    BY <2>2, <2>3 DEF LiveEdges, ImportEdge
  <2>4. /\ ImportEdge(f, r.to).from = f /\ ImportEdge(f, r.to).kind = r.kind
        /\ ImportEdge(f, r.to).to = FileNode(r.to)
    BY <1>3 DEF ImportEdge
  <2>. QED BY <1>3, <2>1, <2>3, <2>4 DEF Accounted, ParkedRow
<1>4. AllAccounted({"imports"}, LiveEdges(edges, nodes))'
  BY <1>3 DEF AllAccounted
<1>. QED BY <1>2, <1>4

\* A crash is not forgotten.
LEMMA CrashesStay ==
    ASSUME TypeInv, [Next]_vars, crashes' = 0
    PROVE  crashes = 0
<1>1. crashes \in Nat
  BY TypeInvParts, BoundsAreNat
<1>2. crashes' \in {crashes, crashes + 1}
  BY DEF Next, Step, Start, Sweep, Classify, Remove, Write, Resolve, Rederive, Backfill, Restore,
         Prune, Finish, Crash, Edit, Upgrade, ClearDigests, vars
<1>. QED BY <1>1, <1>2

\* Whatever is edited, deleted, restored, upgraded or forced between runs, over
\* texts that extraction reads, no run before the first that dies loses a
\* relative import: each is an edge to an indexed file or parked, and parked only
\* while its target is not indexed.
THEOREM NoImportIsLost ==
    ASSUME NoneIsOpaque
    PROVE  Spec => ImportsAccounted
<1> DEFINE Inv == RunInv /\ (crashes = 0 => ImportInv)
<1>1. Inv /\ [Next]_vars => Inv'
  <2> SUFFICES ASSUME Inv, [Next]_vars, crashes' = 0 PROVE ImportInv'
    BY NextKeepsRun
  <2>. QED BY NoneIsOpaque, CrashesStay, NextKeepsImports DEF RunInv, DigestInv
<1>2. Inv /\ Inv' /\ [Next]_vars =>
         [Completes /\ crashes = 0 =>
             /\ AllAccounted({"imports"}, LiveEdges(edges, nodes))'
             /\ \A p \in parked' : p.ref.kind = "imports" => FileNode(p.ref.to) \notin nodes']_vars
  <2> SUFFICES ASSUME Inv, Inv', [Next]_vars, Completes, crashes = 0
               PROVE  /\ AllAccounted({"imports"}, LiveEdges(edges, nodes))'
                      /\ \A p \in parked' : p.ref.kind = "imports" => FileNode(p.ref.to) \notin nodes'
    OBVIOUS
  <2>1. ImportInv /\ ImportInv'
    BY DEF Completes
  <2>. QED BY <2>1, CompletedAccounts
<1>3. Init => Inv
  BY InitIsRun, InitIsImports
<1> HIDE DEF Inv
<1>. QED BY <1>1, <1>2, <1>3, PTL DEF Spec, ImportsAccounted
-----------------------------------------------------------------------------
(* No reference is lost, until a first crash.                              *)

\* A file that may be deleted is imported by every other whose text calls a name
\* that it may define.
CallersImport ==
    \A f \in Files : \A t \in Texts[f] : \A r \in RefsOf(t) :
        ~IsImport(r) =>
            \A g \in Deletable \ {f} :
                (\E u \in Texts[g] : r.to \in u.defs) => [kind |-> "imports", to |-> g] \in RefsOf(t)

CallEdge(f, s) == [from |-> f, kind |-> "calls", to |-> s]

\* The files hold texts of theirs, and the definitions stored are of such texts.
OwnTexts ==
    /\ \A f \in Files : /\ disk[f] \in Texts[f] \cup {Absent}
                        /\ digests[f] \in Texts[f] \cup {NoDigest, Cleared}
    /\ \A s \in Defs(nodes) : \E u \in Texts[s.file] : s.name \in u.defs

\* Only a file that may be deleted is indexed and gone.
GoneIsDeletable == \A f \in Indexed \ Present : f \in Deletable

\* The definition a call is bound to, through the steps of a run: while a removed
\* callee is not minted again its caller will be extracted again, and what is about
\* to be removed and left behind a caller is about to be minted again.
Standing(f, s) ==
    /\ \/ s \in nodes
       \/ pc = "classify" /\ f \in job.importers
       \/ pc = "write" /\ s \in Extracted
    /\ pc = "remove" /\ s.file \in job.changed => s \in Extracted

\* A call of a certified text is parked or bound to a definition of its name, except
\* that a file about to be extracted again owes none.
CallsKept ==
    \A f \in Files : Certified(f) /\ (pc \in {"remove", "write", "resolve"} => f \notin job.changed) =>
        \A r \in RefsOf(digests[f]) : ~IsImport(r) =>
            \/ ParkedRow(f, r) \in parked
            \/ \E s \in Defs(Symbol) : s.name = r.to /\ CallEdge(f, s) \in edges /\ Standing(f, s)

CallInv == ImportInv /\ OwnTexts /\ GoneIsDeletable /\ CallsKept

\* What a pass binds a call to is a definition of that name among the nodes.
LEMMA CallsBind ==
    ASSUME NEW f, NEW r, ~IsImport(r), NEW N, NEW s \in Binds(f, r, N)
    PROVE  s \in Defs(N) /\ s.name = r.to
  BY DEF Binds, Candidates, IsImport

LEMMA DefsAreIn ==
    ASSUME NEW N, NEW M, N \subseteq M
    PROVE  Defs(N) \subseteq Defs(M) /\ Defs(N) \subseteq N
  BY DEF Defs

\* Resolving sites P over the nodes accounts for each call among them.
LEMMA ResolutionAccountsCalls ==
    ASSUME NEW P \in SUBSET Site, NEW N, NEW p \in P, ~IsImport(p.ref), p \notin Unresolved(P, N)
    PROVE  \E s \in Defs(N) : s.name = p.ref.to /\ CallEdge(p.file, s) \in ResolvedEdges(P, N)
<1>1. PICK s \in Binds(p.file, p.ref, N) : TRUE
  BY DEF Unresolved
<1>2. s \in Defs(N) /\ s.name = p.ref.to
  BY CallsBind
<1>3. p.ref.kind = "calls"
  BY DEF Site, Ref, IsImport
<1>4. CallEdge(p.file, s) = [from |-> p.file, kind |-> p.ref.kind, to |-> s]
  BY <1>3 DEF CallEdge
<1>5. CallEdge(p.file, s) \in ResolvedEdges(P, N)
  BY <1>1, <1>4 DEF ResolvedEdges
<1>. QED BY <1>2, <1>5

\* The definitions extraction mints are of the texts that are on disk.
LEMMA MintedDefs ==
    ASSUME NEW f \in Files, NEW t \in AllTexts, NEW s \in Defs(Mint(f, t))
    PROVE  s.file = f /\ s.name \in t.defs
<1>1. s \in Mint(f, t) /\ s.end = "itself" /\ s.name # FileName
  BY DEF Defs
<1>2. s.file = f
  BY <1>1, MintIsOwn
<1>3. t.ends \subseteq [name : t.defs, end : {"param", "return"}]
  BY TextsAreTexts
<1>. QED BY <1>1, <1>2, <1>3 DEF Mint, FileNode, Def

\* Removing files spares the calls of the others, and the definitions too.
LEMMA RemovalSparesCalls ==
    ASSUME NEW F, RemoveFiles(F), NEW f, f \notin F, NEW s
    PROVE  /\ CallEdge(f, s) \in edges /\ s.end = "itself" => CallEdge(f, s) \in edges'
           /\ s \in nodes /\ s.file \notin F => s \in nodes'
  BY DEF RemoveFiles, EdgesWithout, NodesWithout, CallEdge

-----------------------------------------------------------------------------
\* The texts of the files, and of what is stored.
LEMMA PassAddsNoDefs ==
    ASSUME NEW P \in SUBSET Site, NEW N \in SUBSET Symbol, NEW E \in SUBSET ResolvedEdges(P, N)
    PROVE  Defs(N \cup CallerEnds(CallValueFlow(E, N))) = Defs(N)
<1>1. \A s \in CallerEnds(CallValueFlow(E, N)) : s.end \in {"argument", "result"}
  BY PassIsTyped
<1>. QED BY <1>1 DEF Defs

LEMMA NextKeepsTexts ==
    ASSUME RunInv, OwnTexts, GoneIsDeletable, [Next]_vars
    PROVE  OwnTexts' /\ GoneIsDeletable'
<1>1. TypeInv /\ JobTyped /\ disk \in [Files -> AllTexts \cup {Absent}]
      /\ digests \in [Files -> AllTexts \cup {NoDigest, Cleared}] /\ StoreTyped
  BY TypeInvParts DEF RunInv, DigestInv, StoreTyped
<1>2. ASSUME disk' = disk, Defs(nodes') \subseteq Defs(nodes),
             \A f \in Files : \/ digests'[f] \in {digests[f], NoDigest}
                              \/ digests'[f] = Cleared /\ digests[f] # NoDigest
      PROVE  OwnTexts' /\ GoneIsDeletable'
  <2>1. OwnTexts'
    BY <1>2 DEF OwnTexts
  <2>2. GoneIsDeletable'
    BY <1>2 DEF GoneIsDeletable, Indexed, Present
  <2>. QED BY <2>1, <2>2
<1>3. CASE Start \/ Classify \/ Restore \/ Prune \/ Finish \/ Crash
           \/ (\E e \in Environments : Upgrade(e)) \/ UNCHANGED vars
  <2>1. UNCHANGED <<disk, nodes, digests>>
    BY <1>3 DEF Start, Classify, Restore, Prune, Finish, Crash, Upgrade, vars, store, world
  <2>. QED BY <1>2, <2>1
<1>4. ASSUME NEW F, RemoveFiles(F), UNCHANGED world
      PROVE  OwnTexts' /\ GoneIsDeletable'
  <2>1. nodes' \subseteq nodes /\ disk' = disk
    BY <1>4 DEF RemoveFiles, NodesWithout, world
  <2>2. \A f \in Files : digests'[f] \in {digests[f], NoDigest}
    BY <1>4 DEF RemoveFiles, DigestsWithout
  <2>. QED BY <1>2, <2>1, <2>2, DefsAreIn
<1>5. CASE Sweep \/ Remove
  BY <1>4, <1>5 DEF Sweep, Remove
<1>6. CASE Write
  <2>1. /\ disk' = disk /\ nodes' = nodes \cup Extracted
        /\ job.changed \subseteq Present /\ job.changed \in SUBSET Files
    BY <1>1, <1>6 DEF Write, world, TypeInv, ChangedArePresent, Extracting, JobTyped
  <2>2. \A f \in Files : digests'[f] = IF f \in job.changed THEN disk[f] ELSE digests[f]
    BY <1>6 DEF Write
  <2>3. \A f \in job.changed : disk[f] \in Texts[f] /\ disk[f] \in AllTexts /\ disk[f] # Absent
    BY <1>1, <2>1 DEF Present, OwnTexts
  <2>4. ASSUME NEW s \in Defs(nodes')
        PROVE  \E u \in Texts[s.file] : s.name \in u.defs
    <3>1. s \in Defs(nodes) \/ s \in Defs(Extracted)
      BY <2>1 DEF Defs
    <3>2. CASE s \in Defs(Extracted)
      <4>1. PICK f \in job.changed : s \in Defs(Mint(f, disk[f]))
        BY <3>2 DEF Extracted, Defs
      <4>2. s.file = f /\ s.name \in disk[f].defs
        BY <2>1, <2>3, <4>1, MintedDefs
      <4>. QED BY <2>3, <4>2
    <3>. QED BY <3>1, <3>2 DEF OwnTexts
  <2>5. OwnTexts'
    BY <2>1, <2>2, <2>3, <2>4 DEF OwnTexts
  <2>6. GoneIsDeletable'
    BY <2>1, <2>2 DEF GoneIsDeletable, Indexed, Present
  <2>. QED BY <2>5, <2>6
<1>7. ASSUME NEW P \in SUBSET Site, NEW E \in SUBSET ResolvedEdges(P, nodes),
             nodes' = nodes \cup CallerEnds(CallValueFlow(E, nodes)), UNCHANGED <<disk, digests>>
      PROVE  OwnTexts' /\ GoneIsDeletable'
  <2>1. Defs(nodes') = Defs(nodes)
    BY <1>1, <1>7, PassAddsNoDefs DEF StoreTyped
  <2>. QED BY <1>2, <1>7, <2>1
<1>8. CASE Resolve
  <2>1. Sites(job.changed) \in SUBSET Site
    BY <1>1, SitesAreTyped DEF JobTyped
  <2>. QED BY <1>7, <1>8, <2>1 DEF Resolve, WriteEdges, world
<1>9. CASE Rederive
  <2> DEFINE P == {p \in Sites(job.rederive) : p.ref.kind = "calls"}
             E == {e \in ResolvedEdges(P, nodes) : e.to \in job.touched \cup Extracted}
  <2>1. P \in SUBSET Site /\ E \in SUBSET ResolvedEdges(P, nodes)
    BY <1>1, SitesAreTyped DEF JobTyped
  <2>2. nodes' = nodes \cup CallerEnds(CallValueFlow(E, nodes)) /\ UNCHANGED <<disk, digests>>
    BY <1>9 DEF Rederive, Rederived, WriteEdges, world
  <2> HIDE DEF P, E
  <2>. QED BY <1>7, <2>1, <2>2
<1>10. CASE Backfill
  <2> DEFINE P == IF ~job.force /\ job.skipped THEN BackfillRows ELSE {}
  <2>1. P \in SUBSET Site
    BY <1>1 DEF BackfillRows, ParkedWithout, StoreTyped
  <2>2. /\ nodes' = nodes \cup CallerEnds(CallValueFlow(ResolvedEdges(P, nodes), nodes))
        /\ UNCHANGED <<disk, digests>>
    BY <1>10 DEF Backfill, WriteEdges, world
  <2> HIDE DEF P
  <2>. QED BY <1>7, <2>1, <2>2
<1>11. ASSUME NEW f \in Files, NEW t \in Texts[f] \cup {Absent}, Edit(f, t)
       PROVE  OwnTexts' /\ GoneIsDeletable'
  <2>1. /\ UNCHANGED <<nodes, digests>>
        /\ \A g \in Files : disk'[g] = IF g = f THEN t ELSE disk[g]
    BY <1>1, <1>11 DEF Edit, store
  <2>2. OwnTexts'
    BY <2>1 DEF OwnTexts
  <2>3. GoneIsDeletable'
    BY <1>11, <2>1 DEF GoneIsDeletable, Indexed, Present, Edit
  <2>. QED BY <2>2, <2>3
<1>12. CASE ClearDigests
  <2>1. /\ UNCHANGED <<disk, nodes>>
        /\ \A f \in Files : digests'[f] = IF f \in Indexed THEN Cleared ELSE NoDigest
    BY <1>12 DEF ClearDigests
  <2>. QED BY <1>2, <2>1 DEF Indexed
<1>. QED BY <1>3, <1>5, <1>6, <1>8, <1>9, <1>10, <1>11, <1>12 DEF Next, Step
-----------------------------------------------------------------------------
(* Every step keeps the calls.                                             *)

\* What the steps of these proofs need of the invariant besides the calls.
CallsFrame ==
    /\ ImportInv /\ TypeInv /\ JobTyped /\ StoreTyped
    /\ disk \in [Files -> AllTexts \cup {Absent}]

LEMMA CallInvParts == CallInv => CallsFrame
  BY TypeInvParts DEF CallInv, CallsFrame, ImportInv, RunInv, DigestInv, TypeInv

\* What an unchanged caller is owed before a step.
LEMMA CallIsOwed ==
    ASSUME CallInv, NEW f \in Files, Certified(f),
           pc \in {"remove", "write", "resolve"} => f \notin job.changed,
           NEW r \in RefsOf(digests[f]), ~IsImport(r)
    PROVE  \/ ParkedRow(f, r) \in parked
           \/ \E s \in Defs(Symbol) : s.name = r.to /\ CallEdge(f, s) \in edges /\ Standing(f, s)
  BY DEF CallInv, CallsKept

\* A removed definition that a remaining file calls is in a file that it imports.
LEMMA CalleeIsImported ==
    ASSUME CallersImport, CallInv, pc = "sweep", NEW f \in Files, Certified(f), f \in Present,
           NEW r \in RefsOf(digests[f]), ~IsImport(r),
           NEW s \in Defs(nodes), s.name = r.to, s.file \in Indexed \ Present
    PROVE  f \in Importers(Indexed \ Present)
<1> DEFINE g == s.file
           i == [kind |-> "imports", to |-> g]
<1>1. g \in Files /\ g \in Deletable \ {f}
  BY DEF CallInv, GoneIsDeletable, Indexed
<1>2. digests[f] \in Texts[f]
  BY DEF CallInv, OwnTexts, Certified
<1>3. \E u \in Texts[g] : r.to \in u.defs
  BY DEF CallInv, OwnTexts
<1>4. i \in RefsOf(digests[f])
  BY <1>1, <1>2, <1>3 DEF CallersImport
<1>5. IsImport(i) /\ i.to = g
  BY DEF IsImport
<1>6. FileNode(g) \in nodes /\ FileNode(f) \in nodes
  BY <1>1 DEF CallInv, ImportInv, FileNodesThere, Indexed, Certified
<1>7. ParkedRow(f, i) \notin parked
  <2>1. ParkedRow(f, i).ref = i
    BY DEF ParkedRow
  <2>. QED BY <1>5, <1>6, <2>1 DEF CallInv, ImportInv, ParkedUnbound
<1> HIDE DEF i
<1>8. ImportEdge(f, g) \in edges
  BY <1>4, <1>5, <1>7 DEF CallInv, ImportInv, ImportsKept
<1>. QED BY <1>6, <1>8 DEF Importers, ImportEdge

LEMMA SweepKeepsCalls ==
    ASSUME CallersImport, CallInv, Sweep
    PROVE  CallsKept'
<1> DEFINE deleted == Indexed \ Present
<1>1. /\ pc = "sweep" /\ pc' = "classify" /\ RemoveFiles(deleted)
      /\ job' = [job EXCEPT !.importers = Importers(deleted)]
      /\ deleted \in SUBSET Files /\ JobTyped
  BY CallInvParts DEF CallsFrame, Sweep, Indexed
<1>2. \A f \in Files : digests'[f] = IF f \in deleted THEN NoDigest ELSE digests[f]
  BY <1>1 DEF RemoveFiles, DigestsWithout
<1>3. job'.importers = Importers(deleted)
  BY <1>1 DEF JobTyped
<1> SUFFICES ASSUME NEW f \in Files, Certified(f)', NEW r \in RefsOf(digests'[f]), ~IsImport(r)
             PROVE  \/ ParkedRow(f, r) \in parked'
                    \/ \E s \in Defs(Symbol) : s.name = r.to /\ CallEdge(f, s) \in edges' /\ Standing(f, s)'
  BY DEF CallsKept
<1>4. f \notin deleted /\ digests'[f] = digests[f] /\ Certified(f)
  BY <1>2 DEF Certified
<1>5. f \in Present
  BY <1>4 DEF Indexed, Certified
<1>6. CASE ParkedRow(f, r) \in parked
  <2> HIDE DEF deleted
  <2>. QED BY <1>1, <1>4, <1>6, RemovalSparesImports
<1>7. ASSUME NEW s \in Defs(Symbol), s.name = r.to, CallEdge(f, s) \in edges, Standing(f, s)
      PROVE  CallEdge(f, s) \in edges' /\ Standing(f, s)'
  <2>1. s \in nodes /\ s \in Defs(nodes) /\ s.end = "itself"
    BY <1>1, <1>7 DEF Standing, Defs
  <2>2. CallEdge(f, s) \in edges' /\ (s.file \notin deleted => s \in nodes')
    <3> HIDE DEF deleted
    <3>. QED BY <1>1, <1>4, <1>7, <2>1, RemovalSparesCalls
  <2>3. s.file \in deleted => f \in Importers(deleted)
    BY <1>1, <1>4, <1>5, <1>7, <2>1, CallersImport, CalleeIsImported
  <2>. QED BY <1>1, <1>3, <2>2, <2>3 DEF Standing
<1>8. \/ ParkedRow(f, r) \in parked
      \/ \E s \in Defs(Symbol) : s.name = r.to /\ CallEdge(f, s) \in edges /\ Standing(f, s)
  BY <1>1, <1>4, CallIsOwed
<1>. QED BY <1>6, <1>7, <1>8

\* Classification finds that every callee of a file left alone is minted again.
LEMMA CalleeIsReminted ==
    ASSUME CallInv, pc = "classify", NEW f \in Present, f \notin Seed \cup ForcedCallers,
           NEW s \in Defs(nodes), CallEdge(f, s) \in edges, s.file \in Seed \cup ForcedCallers
    PROVE  s \in UNION {Mint(g, disk[g]) : g \in Seed \cup ForcedCallers}
<1>1. s \in nodes /\ s.end = "itself" /\ CallsFrame
  BY CallInvParts DEF Defs
<1>2. CASE s.file \in Seed
  <2>1. ~job.force
    BY DEF Seed
  <2>2. s \in Touched
    BY <1>1, <1>2 DEF Touched
  <2>3. f \in Callers
    BY <2>1, <2>2 DEF Callers, CallEdge
  <2>4. ReplayIsExact
    BY <2>3 DEF ForcedCallers
  <2>5. s \in Defs(Touched)
    BY <2>2 DEF Defs
  <2>6. s \in UNION {Mint(g, disk[g]) : g \in Seed}
    BY <2>4, <2>5 DEF ReplayIsExact, Defs
  <2>. QED BY <2>6
<1>3. CASE s.file \notin Seed
  <2> DEFINE g == s.file
  <2>1. g \in ForcedCallers /\ g \in Present
    BY <1>3, ClassifiedIsTyped, <1>1 DEF CallsFrame
  <2>2. digests[g] = disk[g] /\ g \in Files /\ disk[g] \in AllTexts
    BY <1>1, <1>3, <2>1, PresentAreTexts DEF Seed, CallsFrame
  <2>3. Certified(g)
    BY <2>2, AbsentIsNoText DEF Certified
  <2>4. Own(g) = Mint(g, digests[g])
    BY <1>1, <2>2, <2>3 DEF CallsFrame, ImportInv, RunInv, DigestInv, DigestCertifiesNodes
  <2>5. s \in Own(g)
    BY <1>1 DEF Own
  <2>6. s \in Mint(g, disk[g])
    BY <2>2, <2>4, <2>5
  <2>. QED BY <2>1, <2>6
<1>. QED BY <1>2, <1>3

LEMMA ClassifyKeepsCalls ==
    ASSUME CallInv, Classify, Seed \cup ForcedCallers # {}
    PROVE  CallsKept'
<1>1. /\ job' = [job EXCEPT
             !.changed = Seed \cup ForcedCallers,
             !.fresh   = \E f \in Seed \cup ForcedCallers : digests[f] = NoDigest,
             !.skipped = Present \ (Seed \cup ForcedCallers) # {},
             !.rederive = RederivedCallers,
             !.touched = Defs(Touched),
             !.collateral = Collateral]
      /\ pc = "classify" /\ pc' = "remove"
      /\ UNCHANGED <<nodes, edges, parked, digests, disk>>
      /\ JobTyped /\ CallsFrame
  BY CallInvParts DEF Classify, store, world, CallsFrame
<1>2. job'.changed = Seed \cup ForcedCallers
  BY <1>1 DEF JobTyped
<1>3. Extracted' = UNION {Mint(g, disk[g]) : g \in Seed \cup ForcedCallers}
  BY <1>1, <1>2 DEF Extracted
<1> SUFFICES ASSUME NEW f \in Files, Certified(f), f \notin Seed \cup ForcedCallers,
                    NEW r \in RefsOf(digests[f]), ~IsImport(r)
             PROVE  \/ ParkedRow(f, r) \in parked
                    \/ \E s \in Defs(Symbol) : s.name = r.to /\ CallEdge(f, s) \in edges /\ Standing(f, s)'
  BY <1>1, <1>2 DEF CallsKept, Certified
<1>4. f \in Present
  BY <1>1 DEF CallsFrame, ImportInv, RunInv, SweptIsPresent, Certified, Indexed
<1>5. f \notin job.importers
  BY <1>4 DEF Seed
<1>6. ASSUME NEW s \in Defs(Symbol), CallEdge(f, s) \in edges, Standing(f, s)
      PROVE  Standing(f, s)'
  <2>1. s \in nodes /\ s \in Defs(nodes)
    BY <1>1, <1>5, <1>6 DEF Standing, Defs
  <2>2. s.file \in Seed \cup ForcedCallers => s \in Extracted'
    BY <1>1, <1>3, <1>4, <1>6, <2>1, CalleeIsReminted
  <2>. QED BY <1>1, <1>2, <2>1, <2>2 DEF Standing
<1>7. \/ ParkedRow(f, r) \in parked
      \/ \E s \in Defs(Symbol) : s.name = r.to /\ CallEdge(f, s) \in edges /\ Standing(f, s)
  BY <1>1, CallIsOwed
<1>. QED BY <1>6, <1>7

LEMMA RemoveKeepsCalls ==
    ASSUME CallInv, Remove
    PROVE  CallsKept'
<1>1. /\ pc = "remove" /\ pc' = "write" /\ RemoveFiles(job.changed) /\ job' = job
      /\ disk' = disk
  BY DEF Remove, world
<1>2. \A f \in Files : digests'[f] = IF f \in job.changed THEN NoDigest ELSE digests[f]
  BY <1>1 DEF RemoveFiles, DigestsWithout
<1>3. Extracted' = Extracted
  BY <1>1 DEF Extracted
<1> SUFFICES ASSUME NEW f \in Files, Certified(f)', NEW r \in RefsOf(digests'[f]), ~IsImport(r)
             PROVE  \/ ParkedRow(f, r) \in parked'
                    \/ \E s \in Defs(Symbol) : s.name = r.to /\ CallEdge(f, s) \in edges' /\ Standing(f, s)'
  BY DEF CallsKept
<1>4. f \notin job.changed /\ digests'[f] = digests[f] /\ Certified(f)
  BY <1>2 DEF Certified
<1>5. ParkedRow(f, r) \in parked => ParkedRow(f, r) \in parked'
  BY <1>1, <1>4, RemovalSparesImports
<1>6. ASSUME NEW s \in Defs(Symbol), CallEdge(f, s) \in edges, Standing(f, s)
      PROVE  CallEdge(f, s) \in edges' /\ Standing(f, s)'
  <2>1. s \in nodes /\ (s.file \in job.changed => s \in Extracted) /\ s.end = "itself"
    BY <1>1, <1>6 DEF Standing, Defs
  <2>2. CallEdge(f, s) \in edges' /\ (s.file \notin job.changed => s \in nodes')
    BY <1>1, <1>4, <1>6, <2>1, RemovalSparesCalls
  <2>. QED BY <1>1, <1>3, <2>1, <2>2 DEF Standing
<1>7. \/ ParkedRow(f, r) \in parked
      \/ \E s \in Defs(Symbol) : s.name = r.to /\ CallEdge(f, s) \in edges /\ Standing(f, s)
  BY <1>4, CallIsOwed
<1>. QED BY <1>5, <1>6, <1>7

LEMMA WriteKeepsCalls ==
    ASSUME CallInv, Write
    PROVE  CallsKept'
<1>1. /\ pc = "write" /\ pc' = "resolve" /\ job' = job /\ UNCHANGED <<edges, parked>>
      /\ nodes' = nodes \cup Extracted
  BY DEF Write
<1>2. \A f \in Files : digests'[f] = IF f \in job.changed THEN disk[f] ELSE digests[f]
  BY DEF Write
<1> SUFFICES ASSUME NEW f \in Files, Certified(f)', f \notin job.changed,
                    NEW r \in RefsOf(digests'[f]), ~IsImport(r)
             PROVE  \/ ParkedRow(f, r) \in parked
                    \/ \E s \in Defs(Symbol) : s.name = r.to /\ CallEdge(f, s) \in edges /\ Standing(f, s)'
  BY <1>1 DEF CallsKept
<1>3. digests'[f] = digests[f] /\ Certified(f)
  BY <1>2 DEF Certified
<1>4. \A s : Standing(f, s) => Standing(f, s)'
  BY <1>1 DEF Standing
<1>5. \/ ParkedRow(f, r) \in parked
      \/ \E s \in Defs(Symbol) : s.name = r.to /\ CallEdge(f, s) \in edges /\ Standing(f, s)
  BY <1>3, CallIsOwed
<1>. QED BY <1>4, <1>5

\* After the write, a step that keeps the nodes keeps the calls that are live, and
\* those whose rows it leaves parked or binds.
LEMMA GrowthKeepsCalls ==
    ASSUME CallInv, pc \in Written, pc' \in Written \ {"resolve"}, digests' = digests, job' = job,
           nodes \subseteq nodes',
           \A f \in Files : \A s \in nodes : CallEdge(f, s) \in edges /\ FileNode(f) \in nodes
              => CallEdge(f, s) \in edges',
           \A f \in Files : \A r \in RefsOf(digests[f]) :
              /\ Certified(f) /\ ~IsImport(r)
              /\ ParkedRow(f, r) \in parked \/ (pc = "resolve" /\ f \in job.changed)
              => \/ ParkedRow(f, r) \in parked'
                 \/ \E s \in Defs(nodes) : s.name = r.to /\ CallEdge(f, s) \in edges'
    PROVE  CallsKept'
<1> SUFFICES ASSUME NEW f \in Files, Certified(f), NEW r \in RefsOf(digests[f]), ~IsImport(r)
             PROVE  \/ ParkedRow(f, r) \in parked'
                    \/ \E s \in Defs(Symbol) : s.name = r.to /\ CallEdge(f, s) \in edges' /\ Standing(f, s)'
  BY DEF CallsKept, Certified
<1>1. \A s \in nodes : Standing(f, s)'
  BY DEF Standing, Written, Extracting
<1>2. Defs(nodes) \subseteq Defs(Symbol) /\ Defs(nodes) \subseteq nodes
  BY CallInvParts DEF CallsFrame, StoreTyped, Defs
<1>3. CASE ParkedRow(f, r) \in parked \/ (pc = "resolve" /\ f \in job.changed)
  BY <1>1, <1>2, <1>3
<1>4. CASE ~(ParkedRow(f, r) \in parked \/ (pc = "resolve" /\ f \in job.changed))
  <2>1. \E s \in Defs(Symbol) : s.name = r.to /\ CallEdge(f, s) \in edges /\ Standing(f, s)
    BY <1>4, CallIsOwed DEF Written, Extracting
  <2>2. PICK s \in Defs(Symbol) : s.name = r.to /\ CallEdge(f, s) \in edges /\ Standing(f, s)
    BY <2>1
  <2>3. s \in nodes
    BY <2>2 DEF Standing, Written, Extracting
  <2>4. FileNode(f) \in nodes
    BY DEF CallInv, ImportInv, FileNodesThere, Certified
  <2>. QED BY <1>1, <2>2, <2>3, <2>4
<1>. QED BY <1>3, <1>4

LEMMA ResolveKeepsCalls ==
    ASSUME CallInv, Resolve
    PROVE  CallsKept'
<1> DEFINE P == Sites(job.changed)
           E == ResolvedEdges(P, nodes)
<1>1. /\ pc = "resolve" /\ pc' = "rederive" /\ job' = job /\ digests' = digests
      /\ edges' = edges \cup E \cup CallValueFlow(E, nodes)
      /\ nodes' = nodes \cup CallerEnds(CallValueFlow(E, nodes))
      /\ parked' = parked \cup Unresolved(P, nodes)
      /\ job.changed \in SUBSET Files /\ CallsFrame
  BY CallInvParts DEF Resolve, WriteEdges, CallsFrame, JobTyped
<1>2. P \in SUBSET Site
  BY <1>1, SitesAreTyped
<1>3. \A f \in job.changed : disk[f] \in AllTexts /\ digests[f] = disk[f]
  BY <1>1, PresentAreTexts
     DEF CallsFrame, TypeInv, ChangedArePresent, ImportInv, RunInv, DigestInv, ChangedAreRewritten,
         Written, Extracting
<1>4. \A f \in job.changed : \A r \in RefsOf(disk[f]) : ParkedRow(f, r) \in P
  BY <1>3, SitesOfText
<1> HIDE DEF P
<1>5. ASSUME NEW f \in Files, NEW r \in RefsOf(digests[f]), ~IsImport(r),
             ParkedRow(f, r) \in parked \/ f \in job.changed
      PROVE  \/ ParkedRow(f, r) \in parked'
             \/ \E s \in Defs(nodes) : s.name = r.to /\ CallEdge(f, s) \in edges'
  <2>1. CASE ParkedRow(f, r) \in parked \/ ParkedRow(f, r) \in Unresolved(P, nodes)
    BY <1>1, <2>1
  <2>2. CASE f \in job.changed /\ ParkedRow(f, r) \notin Unresolved(P, nodes)
    <3>1. ParkedRow(f, r) \in P
      BY <1>3, <1>4, <2>2
    <3>2. ParkedRow(f, r).ref = r /\ ParkedRow(f, r).file = f
      BY DEF ParkedRow
    <3>3. \E s \in Defs(nodes) : s.name = r.to /\ CallEdge(f, s) \in E
      BY <1>2, <1>5, <2>2, <3>1, <3>2, ResolutionAccountsCalls
    <3>. QED BY <1>1, <3>3
  <2>. QED BY <1>5, <2>1, <2>2
<1>. QED BY <1>1, <1>5, GrowthKeepsCalls DEF Written, Extracting

LEMMA BackfillKeepsCalls ==
    ASSUME CallInv, Backfill
    PROVE  CallsKept'
<1> DEFINE P == IF ~job.force /\ job.skipped THEN BackfillRows ELSE {}
           E == ResolvedEdges(P, nodes)
<1>1. /\ pc = "backfill" /\ pc' = "restore" /\ job' = job /\ digests' = digests
      /\ edges' = edges \cup E \cup CallValueFlow(E, nodes)
      /\ nodes' = nodes \cup CallerEnds(CallValueFlow(E, nodes))
      /\ parked' = parked \ (P \ Unresolved(P, nodes))
      /\ CallsFrame
  BY CallInvParts DEF Backfill, WriteEdges
<1>2. P \in SUBSET Site
  BY <1>1 DEF CallsFrame, StoreTyped, BackfillRows, ParkedWithout
<1> HIDE DEF P
<1>3. ASSUME NEW f \in Files, NEW r, ~IsImport(r), ParkedRow(f, r) \in parked,
             ParkedRow(f, r) \notin parked'
      PROVE  \E s \in Defs(nodes) : s.name = r.to /\ CallEdge(f, s) \in edges'
  <2>1. ParkedRow(f, r).ref = r /\ ParkedRow(f, r).file = f
    BY DEF ParkedRow
  <2>2. ParkedRow(f, r) \in P /\ ParkedRow(f, r) \notin Unresolved(P, nodes)
    BY <1>1, <1>3
  <2>3. \E s \in Defs(nodes) : s.name = r.to /\ CallEdge(f, s) \in E
    BY <1>2, <1>3, <2>1, <2>2, ResolutionAccountsCalls
  <2>. QED BY <1>1, <2>3
<1>. QED BY <1>1, <1>3, GrowthKeepsCalls DEF Written, Extracting

LEMMA NextKeepsCalls ==
    ASSUME NoneIsOpaque, CallersImport, CallInv, [Next]_vars, crashes' = 0
    PROVE  CallInv'
<1>1. /\ ImportInv /\ ImportInv' /\ OwnTexts' /\ GoneIsDeletable' /\ CallsFrame
  BY NoneIsOpaque, NextKeepsImports, NextKeepsTexts, CallInvParts DEF CallInv, ImportInv
<1> SUFFICES CallsKept'
  BY <1>1 DEF CallInv
\* Between two runs, and up to the sweep, calls are owed as they are stored.
<1>2. ASSUME UNCHANGED <<nodes, edges, parked>>, pc' \in {"idle", "sweep"},
             \A f \in Files : Certified(f)' => /\ digests'[f] = digests[f]
                                               /\ pc \notin {"remove", "write", "resolve"},
             pc = "classify" => job.importers \cap Present = {}
      PROVE  CallsKept'
  <2> SUFFICES ASSUME NEW f \in Files, Certified(f)', NEW r \in RefsOf(digests'[f]), ~IsImport(r)
               PROVE  \/ ParkedRow(f, r) \in parked
                      \/ \E s \in Defs(Symbol) : s.name = r.to /\ CallEdge(f, s) \in edges /\ Standing(f, s)'
    BY <1>2 DEF CallsKept
  <2>1. digests'[f] = digests[f] /\ Certified(f) /\ pc \notin {"remove", "write", "resolve"}
    BY <1>2 DEF Certified
  <2>2. ~(pc = "classify" /\ f \in job.importers)
    BY <1>1, <1>2, <2>1 DEF ImportInv, RunInv, SweptIsPresent, Certified, Indexed
  <2>3. \A s : Standing(f, s) => Standing(f, s)'
    BY <1>2, <2>1, <2>2 DEF Standing
  <2>4. \/ ParkedRow(f, r) \in parked
        \/ \E s \in Defs(Symbol) : s.name = r.to /\ CallEdge(f, s) \in edges /\ Standing(f, s)
    BY <2>1, CallIsOwed
  <2>. QED BY <2>3, <2>4
<1>3. CASE Start
  BY <1>2, <1>3 DEF Start, store, Certified
<1>4. CASE Sweep
  BY <1>4, CallersImport, SweepKeepsCalls
<1>5. CASE Classify
  <2>1. CASE Seed \cup ForcedCallers = {}
    <3>1. job.importers \cap Present = {}
      BY <2>1 DEF Seed
    <3>. QED BY <1>2, <1>5, <2>1, <3>1 DEF Classify, store, Certified
  <2>. QED BY <1>5, <2>1, ClassifyKeepsCalls
<1>6. CASE Remove
  BY <1>6, RemoveKeepsCalls
<1>7. CASE Write
  BY <1>7, WriteKeepsCalls
<1>8. CASE Resolve
  BY <1>8, ResolveKeepsCalls
<1>9. CASE Rederive \/ Restore \/ Prune
  <2>1. /\ pc \in Written \ {"resolve"} /\ pc' \in Written \ {"resolve"}
        /\ UNCHANGED <<digests, job, parked>> /\ nodes \subseteq nodes'
    BY <1>9 DEF Rederive, Restore, Prune, WriteEdges, Written, Extracting
  <2>2. \A f \in Files : \A s \in nodes : CallEdge(f, s) \in edges /\ FileNode(f) \in nodes
              => CallEdge(f, s) \in edges'
    BY <1>9 DEF Rederive, Restore, Prune, WriteEdges, LiveEdges, CallEdge
  <2>. QED BY <2>1, <2>2, GrowthKeepsCalls
<1>10. CASE Backfill
  BY <1>10, BackfillKeepsCalls
<1>11. CASE Finish
  BY <1>2, <1>11 DEF Finish, store, Certified
<1>12. CASE Crash
  BY <1>1, <1>12, TypeInvParts, BoundsAreNat DEF Crash, CallsFrame
<1>13. ASSUME NEW f \in Files, NEW t \in Texts[f] \cup {Absent}, Edit(f, t)
       PROVE  CallsKept'
  BY <1>2, <1>13 DEF Edit, store, Certified
<1>14. ASSUME NEW e \in Environments, Upgrade(e)
       PROVE  CallsKept'
  BY <1>2, <1>14 DEF Upgrade, store, Certified
<1>15. CASE ClearDigests
  <2>1. \A f \in Files : ~Certified(f)'
    BY <1>15, AbsentIsNoText DEF ClearDigests, Indexed, Certified
  <2>. QED BY <1>2, <1>15, <2>1 DEF ClearDigests
<1>16. CASE UNCHANGED vars
  <2>1. Extracted' = Extracted
    BY <1>16 DEF vars, world, Extracted
  <2>2. \A f, s : Standing(f, s)' <=> Standing(f, s)
    BY <1>16, <2>1 DEF vars, store, Standing
  <2>3. CallsKept
    BY DEF CallInv
  <2>. QED BY <1>16, <2>2, <2>3 DEF vars, store, CallsKept, Certified
<1>. QED BY <1>3, <1>4, <1>5, <1>6, <1>7, <1>8, <1>9, <1>10, <1>11, <1>12, <1>13, <1>14, <1>15,
            <1>16 DEF Next, Step

LEMMA InitIsCalls == Init => CallInv
<1> SUFFICES ASSUME Init PROVE CallInv
  OBVIOUS
<1>1. OwnTexts /\ GoneIsDeletable /\ CallsKept
  BY DEF Init, OwnTexts, GoneIsDeletable, CallsKept, Defs, Indexed, Certified
<1>. QED BY <1>1, InitIsImports DEF CallInv

\* Where a run completes, every reference is accounted for.
LEMMA CompletedAccountsAll ==
    ASSUME CallInv', Completes
    PROVE  AllAccounted({"imports", "calls"}, edges)'
<1>1. pc' = "idle"
  BY DEF Completes
<1> SUFFICES ASSUME NEW f \in Files, Certified(f)', NEW r \in RefsOf(digests'[f]),
                    r.kind \in {"imports", "calls"}
             PROVE  Accounted(f, r, edges)'
  BY DEF AllAccounted
<1>2. CASE IsImport(r)
  <2>1. ParkedRow(f, r) \in parked' \/ ImportEdge(f, r.to) \in edges'
    BY <1>1, <1>2 DEF CallInv, ImportInv, ImportsKept
  <2>2. /\ ImportEdge(f, r.to).from = f /\ ImportEdge(f, r.to).kind = r.kind
        /\ ImportEdge(f, r.to).to = FileNode(r.to)
    BY <1>2 DEF ImportEdge, IsImport
  <2>. QED BY <1>2, <2>1, <2>2 DEF Accounted, ParkedRow, IsImport
<1>3. CASE ~IsImport(r)
  <2>1. \/ ParkedRow(f, r) \in parked'
        \/ \E s \in Defs(Symbol) : s.name = r.to /\ CallEdge(f, s) \in edges'
    BY <1>1, <1>3 DEF CallInv, CallsKept
  <2>2. ASSUME NEW s, s.name = r.to, CallEdge(f, s) \in edges'
        PROVE  Accounted(f, r, edges)'
    <3>1. CallEdge(f, s).from = f /\ CallEdge(f, s).kind = r.kind /\ CallEdge(f, s).to = s
      BY <1>3 DEF CallEdge, IsImport
    <3>. QED BY <1>3, <2>2, <3>1 DEF Accounted, IsImport
  <2>. QED BY <2>1, <2>2 DEF Accounted, ParkedRow
<1>. QED BY <1>2, <1>3

\* Where each file that may be deleted is imported by those that may call into it,
\* no run before the first that dies loses a reference at all: whatever is edited,
\* deleted, restored, upgraded or forced between runs, each call and import of a file
\* that the next run would skip is an edge or parked.
THEOREM NoReferenceIsLost ==
    ASSUME NoneIsOpaque, CallersImport
    PROVE  Spec => RefsAccounted
<1> DEFINE Inv == RunInv /\ (crashes = 0 => CallInv)
<1>1. Inv /\ [Next]_vars => Inv'
  <2> SUFFICES ASSUME Inv, [Next]_vars, crashes' = 0 PROVE CallInv'
    BY NextKeepsRun
  <2>. QED BY NoneIsOpaque, CallersImport, CrashesStay, NextKeepsCalls DEF RunInv, DigestInv
<1>2. Inv' /\ [Next]_vars =>
         [Completes /\ crashes = 0 => AllAccounted({"imports", "calls"}, edges)']_vars
  <2> SUFFICES ASSUME Inv', [Next]_vars, Completes, crashes = 0
               PROVE  AllAccounted({"imports", "calls"}, edges)'
    OBVIOUS
  <2>1. CallInv'
    BY DEF Completes
  <2>. QED BY <2>1, CompletedAccountsAll
<1>3. Init => Inv
  BY InitIsRun, InitIsCalls
<1> HIDE DEF Inv
<1>. QED BY <1>1, <1>2, <1>3, PTL DEF Spec, RefsAccounted
-----------------------------------------------------------------------------
(* A run that extracts everything repairs the index, whatever died.         *)

\* The edges are of indexed files; the hops to restore are of indexed files that
\* the run leaves alone.
RowsOfIndexed ==
    /\ \A e \in edges : digests[e.from] # NoDigest
    /\ pc \in Extracting =>
          \A e \in job.collateral : digests[e.from] # NoDigest /\ e.from \notin job.changed

NoneIsSkipped == pc \in Extracting /\ job.changed = Present => ~job.skipped

\* What a first index of the disk holds.
FirstNodes == UNION {Mint(f, disk[f]) : f \in Present}
FirstFound == ResolvedEdges(Sites(Present), FirstNodes)
FirstFlow  == CallValueFlow(FirstFound, FirstNodes)

FirstIndex ==
    /\ nodes = FirstNodes \cup CallerEnds(FirstFlow)
    /\ edges = FirstFound \cup FirstFlow
    /\ parked = Unresolved(Sites(Present), FirstNodes)

\* A run that extracts every file removes every row, and goes on as a first index.
WholeRun ==
    job.changed = Present =>
        /\ pc \in {"write", "resolve"} => edges = {} /\ parked = {}
        /\ pc = "write" => nodes = {}
        /\ pc = "resolve" => nodes = FirstNodes
        /\ pc \in Written \ {"resolve"} => FirstIndex

WholeInv == RunInv /\ RowsOfIndexed /\ NoneIsSkipped /\ WholeRun

LEMMA WholeParts ==
    ASSUME WholeInv
    PROVE  /\ TypeInv /\ JobTyped /\ StoreTyped /\ job.changed \in SUBSET Files
           /\ disk \in [Files -> AllTexts \cup {Absent}]
  BY TypeInvParts DEF WholeInv, RunInv, DigestInv, JobTyped

\* An index with a reference has the File node of its source, so the prune takes
\* nothing of a first index.
LEMMA FirstIsLive ==
    ASSUME disk \in [Files -> AllTexts \cup {Absent}]
    PROVE  /\ FirstNodes \in SUBSET Symbol
           /\ \A e \in FirstFound \cup FirstFlow : FileNode(e.from) \in FirstNodes /\ e.to \in FirstNodes
<1>1. FirstNodes \in SUBSET Symbol
  BY PresentAreTexts, MintIsOwn DEF FirstNodes
<1>2. Present \in SUBSET Files
  BY DEF Present
<1>3. ASSUME NEW p \in Sites(Present) PROVE FileNode(p.file) \in FirstNodes
  <2>1. p.file \in Present /\ p.ref \in RefsOf(disk[p.file])
    BY DEF Sites
  <2>2. ~disk[p.file].opaque
    BY <2>1 DEF RefsOf
  <2>3. FileNode(p.file) \in Mint(p.file, disk[p.file])
    BY <2>2 DEF Mint
  <2>. QED BY <2>1, <2>3 DEF FirstNodes
<1>4. Sites(Present) \in SUBSET Site
  BY <1>2, SitesAreTyped
<1>5. ASSUME NEW e \in FirstFound PROVE FileNode(e.from) \in FirstNodes /\ e.to \in FirstNodes
  <2>1. \E p \in Sites(Present) : e.from = p.file
    BY <1>1, <1>4, ResolvedAreEdges DEF FirstFound
  <2>2. e.to \in FirstNodes
    <3>1. PICK p \in Sites(Present) :
             \E s \in Binds(p.file, p.ref, FirstNodes) :
                e = [from |-> p.file, kind |-> p.ref.kind, to |-> s]
      BY DEF FirstFound, ResolvedEdges
    <3>. QED BY <3>1, BindsToNodes
  <2>. QED BY <1>3, <2>1, <2>2
<1>6. FirstFound \in SUBSET Edge
  BY <1>1, <1>4, ResolvedAreEdges DEF FirstFound
<1>7. ASSUME NEW h \in FirstFlow PROVE FileNode(h.from) \in FirstNodes /\ h.to \in FirstNodes
  <2>1. \E e \in FirstFound : h.from = e.from
    BY <1>1, <1>6, FlowsAreEdges DEF FirstFlow
  <2>2. h.to \in FirstNodes
    BY DEF FirstFlow, CallValueFlow
  <2>. QED BY <1>5, <2>1, <2>2
<1>. QED BY <1>1, <1>5, <1>7

LEMMA FirstIsOfDisk ==
    ASSUME disk' = disk
    PROVE  /\ Present' = Present /\ FirstNodes' = FirstNodes
           /\ FirstFound' = FirstFound /\ FirstFlow' = FirstFlow
           /\ \A F : Sites(F)' = Sites(F)
<1>1. Present' = Present
  BY DEF Present
<1>2. \A F : Sites(F)' = Sites(F)
  BY DEF Sites
<1>3. FirstNodes' = FirstNodes
  BY <1>1 DEF FirstNodes
<1>4. FirstFound' = FirstFound
  BY <1>1, <1>2, <1>3 DEF FirstFound
<1>. QED BY <1>1, <1>2, <1>3, <1>4 DEF FirstFlow

\* The rest of the disk, the rows of the run's first steps and those that it adds.
LEMMA NextKeepsRowsOfIndexed ==
    ASSUME WholeInv, [Next]_vars
    PROVE  RowsOfIndexed'
<1>1. /\ TypeInv /\ JobTyped /\ StoreTyped /\ job.changed \in SUBSET Files /\ RowsOfIndexed
      /\ DigestInv /\ RunInv
  BY WholeParts DEF WholeInv, RunInv
<1>2. ASSUME edges' \subseteq edges,
             \A f \in Files : digests'[f] = NoDigest <=> digests[f] = NoDigest,
             job' = job, pc' \in Extracting => pc \in Extracting
      PROVE  RowsOfIndexed'
  <2>1. \A e \in edges \cup job.collateral : e.from \in Files
    BY <1>1 DEF StoreTyped, JobTyped, Edge
  <2>. QED BY <1>1, <1>2, <2>1 DEF RowsOfIndexed
<1>3. ASSUME NEW F, RemoveFiles(F),
             pc' \in Extracting => /\ pc \in Extracting /\ job' = job
                                   /\ \A e \in job.collateral : e.from \notin F
      PROVE  RowsOfIndexed'
  <2>1. \A e \in edges' : e \in edges /\ e.from \notin F
    BY <1>3 DEF RemoveFiles, EdgesWithout
  <2>2. \A f \in Files : f \notin F => digests'[f] = digests[f]
    BY <1>3 DEF RemoveFiles, DigestsWithout
  <2>3. \A e \in edges \cup job.collateral : e.from \in Files
    BY <1>1 DEF StoreTyped, JobTyped, Edge
  <2>. QED BY <1>1, <1>3, <2>1, <2>2, <2>3 DEF RowsOfIndexed
<1>4. CASE Sweep
  BY <1>3, <1>4 DEF Sweep, Extracting
<1>5. CASE Remove
  BY <1>1, <1>3, <1>5 DEF Remove, RowsOfIndexed, Extracting
<1>6. ASSUME pc' \notin Extracting, edges' = edges,
             \A f \in Files : digests'[f] = NoDigest <=> digests[f] = NoDigest
      PROVE  RowsOfIndexed'
  <2>1. \A e \in edges : e.from \in Files
    BY <1>1 DEF StoreTyped, Edge
  <2>. QED BY <1>1, <1>6, <2>1 DEF RowsOfIndexed
<1>7. CASE Start \/ Finish \/ Crash
  BY <1>6, <1>7 DEF Start, Finish, Crash, store, Extracting
<1>8. CASE Classify
  <2>1. CASE Seed \cup ForcedCallers = {}
    BY <1>6, <1>8, <2>1 DEF Classify, store, Extracting
  <2>2. CASE Seed \cup ForcedCallers # {}
    <3>1. /\ job' = [job EXCEPT
                 !.changed = Seed \cup ForcedCallers,
                 !.fresh   = \E f \in Seed \cup ForcedCallers : digests[f] = NoDigest,
                 !.skipped = Present \ (Seed \cup ForcedCallers) # {},
                 !.rederive = RederivedCallers,
                 !.touched = Defs(Touched),
                 !.collateral = Collateral]
          /\ UNCHANGED <<edges, digests>>
      BY <1>8, <2>2 DEF Classify, store
    <3>2. job'.changed = Seed \cup ForcedCallers /\ job'.collateral = Collateral
      BY <1>1, <3>1 DEF JobTyped
    <3>3. \A e \in Collateral : e \in edges /\ e.from \notin Seed \cup ForcedCallers
      BY DEF Collateral
    <3>. QED BY <1>1, <3>1, <3>2, <3>3 DEF RowsOfIndexed
  <2>. QED BY <2>1, <2>2
<1>9. CASE Write
  <2>1. \A f \in Files : digests'[f] = IF f \in job.changed THEN disk[f] ELSE digests[f]
    BY <1>9 DEF Write
  <2>2. pc = "write" /\ job' = job /\ edges' = edges /\ job.changed \subseteq Present
    BY <1>1, <1>9 DEF Write, TypeInv, ChangedArePresent, Extracting
  <2>3. \A f \in job.changed : disk[f] # NoDigest
    BY <1>1, <2>2, PresentAreTexts, TypeInvParts, AbsentIsNoText
  <2>4. \A e \in edges \cup job.collateral : e.from \in Files
    BY <1>1 DEF StoreTyped, JobTyped, Edge
  <2>. QED BY <1>1, <2>1, <2>2, <2>3, <2>4 DEF RowsOfIndexed, Extracting
<1>10. ASSUME NEW P \in SUBSET Site, NEW E \in SUBSET ResolvedEdges(P, nodes), NEW R,
              R \subseteq E, WriteEdges(R, CallValueFlow(E, nodes)),
              \A p \in P : digests[p.file] # NoDigest,
              UNCHANGED <<digests, job>>, pc \in Extracting
       PROVE  RowsOfIndexed'
  <2>1. E \in SUBSET Edge /\ \A e \in E : \E p \in P : e.from = p.file
    BY <1>1, <1>10, ResolvedAreEdges DEF StoreTyped
  <2>2. \A h \in CallValueFlow(E, nodes) : \E e \in E : h.from = e.from
    BY <1>1, <2>1, FlowsAreEdges DEF StoreTyped
  <2>3. \A e \in edges' : e \in edges \/ digests[e.from] # NoDigest
    BY <1>10, <2>1, <2>2 DEF WriteEdges
  <2>. QED BY <1>1, <1>10, <2>3 DEF RowsOfIndexed
<1>11. CASE Resolve
  <2>1. /\ Sites(job.changed) \in SUBSET Site
        /\ \A p \in Sites(job.changed) : p.file \in job.changed
    BY <1>1, SitesAreTyped
  <2>2. \A f \in job.changed : digests[f] # NoDigest
    <3>1. \A f \in job.changed : digests[f] = disk[f] /\ f \in Present
      BY <1>1, <1>11
         DEF Resolve, TypeInv, ChangedArePresent, DigestInv, ChangedAreRewritten, Written, Extracting
    <3>. QED BY <1>1, <3>1, PresentAreTexts, TypeInvParts, AbsentIsNoText
  <2>. QED BY <1>10, <1>11, <2>1, <2>2 DEF Resolve, Extracting
<1>12. CASE Rederive
  <2> DEFINE P == {p \in Sites(job.rederive) : p.ref.kind = "calls"}
             E == {e \in ResolvedEdges(P, nodes) : e.to \in job.touched \cup Extracted}
  <2>1. P \in SUBSET Site /\ E \in SUBSET ResolvedEdges(P, nodes) /\ \A p \in P : p.file \in job.rederive
    BY <1>1, SitesAreTyped DEF JobTyped
  <2>2. \A f \in job.rederive : digests[f] # NoDigest
    BY <1>1, <1>12 DEF Rederive, DigestInv, RederivedStay
  <2>3. WriteEdges({}, CallValueFlow(E, nodes)) /\ UNCHANGED <<digests, job>> /\ pc \in Extracting
    BY <1>12 DEF Rederive, Rederived, Extracting
  <2> HIDE DEF P, E
  <2>. QED BY <1>10, <2>1, <2>2, <2>3
<1>13. CASE Backfill
  <2> DEFINE P == IF ~job.force /\ job.skipped THEN BackfillRows ELSE {}
             E == ResolvedEdges(P, nodes)
  <2>1. P \in SUBSET Site /\ P \subseteq parked
    BY <1>1 DEF BackfillRows, ParkedWithout, StoreTyped
  <2>2. \A p \in P : digests[p.file] # NoDigest
    BY <1>1, <2>1 DEF DigestInv, ParkedAreIndexed
  <2>3. WriteEdges(E, CallValueFlow(E, nodes)) /\ UNCHANGED <<digests, job>> /\ pc \in Extracting
    BY <1>13 DEF Backfill, Extracting
  <2>4. E \in SUBSET ResolvedEdges(P, nodes)
    OBVIOUS
  <2> HIDE DEF P, E
  <2>. QED BY <1>10, <2>1, <2>2, <2>3, <2>4
<1>14. CASE Restore
  <2>1. \A e \in edges' : e \in edges \/ e \in job.collateral
    BY <1>14 DEF Restore
  <2>. QED BY <1>1, <1>14, <2>1 DEF Restore, RowsOfIndexed, Extracting
<1>15. CASE Prune
  <2>1. edges' \subseteq edges
    BY <1>15 DEF Prune, LiveEdges
  <2>. QED BY <1>2, <1>15, <2>1 DEF Prune, Extracting
<1>16. ASSUME NEW f \in Files, NEW t \in Texts[f] \cup {Absent}, Edit(f, t)
       PROVE  RowsOfIndexed'
  BY <1>6, <1>16 DEF Edit, store, Extracting
<1>17. ASSUME NEW e \in Environments, Upgrade(e)
       PROVE  RowsOfIndexed'
  BY <1>6, <1>17 DEF Upgrade, store, Extracting
<1>18. CASE ClearDigests
  <2>1. \A f \in Files : digests'[f] = NoDigest <=> digests[f] = NoDigest
    BY <1>18, AbsentIsNoText DEF ClearDigests, Indexed
  <2>. QED BY <1>6, <1>18, <2>1 DEF ClearDigests, Extracting
<1>19. CASE UNCHANGED vars
  BY <1>1, <1>19 DEF vars, store, RowsOfIndexed
<1>. QED BY <1>4, <1>5, <1>7, <1>8, <1>9, <1>11, <1>12, <1>13, <1>14, <1>15, <1>16, <1>17, <1>18,
            <1>19 DEF Next, Step

LEMMA NothingFlowsFromNothing ==
    ASSUME NEW N
    PROVE  /\ ResolvedEdges({}, N) = {} /\ CallValueFlow({}, N) = {} /\ CallerEnds({}) = {}
           /\ Unresolved({}, N) = {} /\ Sites({}) = {}
  BY DEF ResolvedEdges, CallValueFlow, CallerEnds, Unresolved, Sites

\* The steps of a run that extracts every file, from its removal to its end.
LEMMA RemovalEmptiesTheStore ==
    ASSUME WholeInv, Remove, job.changed = Present
    PROVE  nodes' = {} /\ edges' = {} /\ parked' = {}
<1>1. /\ RemoveFiles(Present) /\ Indexed \subseteq Present /\ StoreTyped
      /\ \A e \in edges : digests[e.from] # NoDigest
      /\ \A p \in parked : digests[p.file] # NoDigest
      /\ \A f \in Files : digests[f] = NoDigest => \A s \in nodes : s.file # f
  BY WholeParts
     DEF Remove, WholeInv, RunInv, SweptIsPresent, Extracting, RowsOfIndexed, DigestInv,
         ParkedAreIndexed, DigestCertifiesNodes
<1>2. \A e \in edges : e.from \in Present
  BY <1>1 DEF StoreTyped, Edge, Indexed
<1>3. \A p \in parked : p.file \in Present
  BY <1>1 DEF StoreTyped, Site, Indexed
<1>4. \A s \in nodes : s.file \in Present
  BY <1>1 DEF StoreTyped, Symbol, Indexed
<1>. QED BY <1>1, <1>2, <1>3, <1>4 DEF RemoveFiles, NodesWithout, EdgesWithout, ParkedWithout

LEMMA WriteMintsTheFirst ==
    ASSUME WholeInv, Write, job.changed = Present
    PROVE  nodes' = FirstNodes /\ edges' = {} /\ parked' = {}
<1>1. Extracted = FirstNodes
  BY DEF Extracted, FirstNodes
<1>2. nodes = {} /\ edges = {} /\ parked = {}
  BY DEF Write, WholeInv, WholeRun
<1>. QED BY <1>1, <1>2 DEF Write

LEMMA ResolutionIsFirst ==
    ASSUME WholeInv, Resolve, job.changed = Present
    PROVE  /\ nodes' = FirstNodes \cup CallerEnds(FirstFlow)
           /\ edges' = FirstFound \cup FirstFlow
           /\ parked' = Unresolved(Sites(Present), FirstNodes)
<1>1. nodes = FirstNodes /\ edges = {} /\ parked = {}
  BY DEF Resolve, WholeInv, WholeRun
<1>. QED BY <1>1 DEF Resolve, WriteEdges, FirstFound, FirstFlow

LEMMA NothingIsLeftToRederive ==
    ASSUME WholeInv, pc \in {"rederive", "restore"}, job.changed = Present
    PROVE  /\ pc = "rederive" => job.rederive = {}
           /\ job.collateral = {}
<1>1. Indexed \subseteq Present
  BY DEF WholeInv, RunInv, SweptIsPresent, Extracting
<1>2. JobTyped
  BY WholeParts
<1>3. ASSUME pc = "rederive", NEW f \in job.rederive PROVE FALSE
  <2>1. f \in Indexed /\ f \notin job.changed
    BY <1>2, <1>3 DEF WholeInv, RunInv, DigestInv, RederivedStay, Indexed, JobTyped
  <2>. QED BY <1>1, <2>1
<1>4. ASSUME NEW e \in job.collateral PROVE FALSE
  <2>1. digests[e.from] # NoDigest /\ e.from \notin job.changed
    BY DEF WholeInv, RowsOfIndexed, Extracting
  <2>2. e.from \in Files
    BY <1>2 DEF JobTyped, Edge
  <2>. QED BY <1>1, <2>1, <2>2 DEF Indexed
<1>. QED BY <1>3, <1>4

\* From its resolution on, such a run leaves the store alone.
LEMMA FirstStays ==
    ASSUME WholeInv, Rederive \/ Backfill \/ Restore \/ Prune, job.changed = Present
    PROVE  nodes' = nodes /\ edges' = edges /\ parked' = parked /\ FirstIndex
<1>1. FirstIndex
  BY DEF WholeInv, WholeRun, Rederive, Backfill, Restore, Prune, Written, Extracting
<1>2. CASE Rederive
  <2>1. job.rederive = {}
    BY <1>2, NothingIsLeftToRederive DEF Rederive
  <2>2. {p \in Sites(job.rederive) : p.ref.kind = "calls"} = {}
    BY <2>1, NothingFlowsFromNothing
  <2>3. {e \in ResolvedEdges({}, nodes) : e.to \in job.touched \cup Extracted} = {}
    BY NothingFlowsFromNothing
  <2>4. Rederived = {}
    BY <2>2, <2>3, NothingFlowsFromNothing DEF Rederived
  <2>. QED BY <1>1, <1>2, <2>4, NothingFlowsFromNothing DEF Rederive, WriteEdges
<1>3. CASE Backfill
  <2>1. ~job.skipped
    BY <1>3 DEF WholeInv, NoneIsSkipped, Backfill, Extracting
  <2>. QED BY <1>1, <1>3, <2>1, NothingFlowsFromNothing DEF Backfill, WriteEdges
<1>4. CASE Restore
  <2>1. job.collateral = {}
    BY <1>4, NothingIsLeftToRederive DEF Restore
  <2>. QED BY <1>1, <1>4, <2>1 DEF Restore
<1>5. CASE Prune
  <2>1. \A e \in edges : FileNode(e.from) \in nodes /\ e.to \in nodes
    <3>1. disk \in [Files -> AllTexts \cup {Absent}]
      BY WholeParts
    <3>. QED BY <1>1, <3>1, FirstIsLive DEF FirstIndex
  <2>. QED BY <1>1, <1>5, <2>1 DEF Prune, LiveEdges
<1>. QED BY <1>2, <1>3, <1>4, <1>5

LEMMA NextKeepsWhole == WholeInv /\ [Next]_vars => WholeInv'
<1> SUFFICES ASSUME WholeInv, [Next]_vars PROVE WholeInv'
  OBVIOUS
<1>1. RunInv' /\ RowsOfIndexed' /\ JobTyped /\ StoreTyped
  BY NextKeepsRun, NextKeepsRowsOfIndexed, WholeParts DEF WholeInv
<1> SUFFICES NoneIsSkipped' /\ WholeRun'
  BY <1>1 DEF WholeInv
<1>2. ASSUME pc' \notin Extracting
      PROVE  NoneIsSkipped' /\ WholeRun'
  BY <1>2 DEF NoneIsSkipped, WholeRun, Written, Extracting
<1>3. CASE Start \/ Sweep \/ Finish \/ Crash \/ ClearDigests
  BY <1>2, <1>3 DEF Start, Sweep, Finish, Crash, ClearDigests, Extracting
<1>4. ASSUME NEW f \in Files, NEW t \in Texts[f] \cup {Absent}, Edit(f, t)
      PROVE  NoneIsSkipped' /\ WholeRun'
  BY <1>2, <1>4 DEF Edit, Extracting
<1>5. ASSUME NEW e \in Environments, Upgrade(e)
      PROVE  NoneIsSkipped' /\ WholeRun'
  BY <1>2, <1>5 DEF Upgrade, Extracting
<1>6. CASE Classify
  <2>1. CASE Seed \cup ForcedCallers = {}
    BY <1>2, <1>6, <2>1 DEF Classify, Extracting
  <2>2. CASE Seed \cup ForcedCallers # {}
    <3>1. /\ job' = [job EXCEPT
                 !.changed = Seed \cup ForcedCallers,
                 !.fresh   = \E f \in Seed \cup ForcedCallers : digests[f] = NoDigest,
                 !.skipped = Present \ (Seed \cup ForcedCallers) # {},
                 !.rederive = RederivedCallers,
                 !.touched = Defs(Touched),
                 !.collateral = Collateral]
          /\ pc' = "remove" /\ disk' = disk
      BY <1>6, <2>2 DEF Classify, world
    <3>2. /\ job'.changed = Seed \cup ForcedCallers
          /\ job'.skipped <=> Present \ (Seed \cup ForcedCallers) # {}
      BY <1>1, <3>1 DEF JobTyped
    <3>3. Present' = Present
      BY <3>1 DEF Present
    <3>. QED BY <3>1, <3>2, <3>3 DEF NoneIsSkipped, WholeRun, Written, Extracting
  <2>. QED BY <2>1, <2>2
<1>7. CASE Remove \/ Write \/ Resolve \/ Rederive \/ Backfill \/ Restore \/ Prune
  <2>1. job' = job /\ disk' = disk /\ pc \in Extracting
    BY <1>7 DEF Remove, Write, Resolve, Rederive, Backfill, Restore, Prune, world, Extracting
  <2>2. /\ Present' = Present /\ FirstNodes' = FirstNodes
        /\ FirstFound' = FirstFound /\ FirstFlow' = FirstFlow /\ Sites(Present)' = Sites(Present)
    BY <2>1, FirstIsOfDisk
  <2>3. NoneIsSkipped'
    BY <2>1, <2>2 DEF WholeInv, NoneIsSkipped
  <2> SUFFICES ASSUME job.changed = Present PROVE WholeRun'
    BY <2>1, <2>2, <2>3 DEF WholeRun
  <2>4. CASE Remove
    BY <2>4, RemovalEmptiesTheStore DEF Remove, WholeRun, Written, Extracting
  <2>5. CASE Write
    BY <2>2, <2>5, WriteMintsTheFirst DEF Write, WholeRun, Written, Extracting
  <2>6. CASE Resolve
    <3>1. FirstIndex'
      BY <2>2, <2>6, ResolutionIsFirst DEF FirstIndex
    <3>. QED BY <2>6, <3>1 DEF Resolve, WholeRun
  <2>7. CASE Rederive \/ Backfill \/ Restore \/ Prune
    <3>1. FirstIndex'
      BY <2>2, <2>7, FirstStays DEF FirstIndex
    <3>2. pc' \notin {"write", "resolve"}
      BY <2>7 DEF Rederive, Backfill, Restore, Prune
    <3>. QED BY <3>1, <3>2 DEF WholeRun
  <2>. QED BY <1>7, <2>4, <2>5, <2>6, <2>7
<1>8. CASE UNCHANGED vars
  <2>1. UNCHANGED <<nodes, edges, parked, pc, job, disk>>
    BY <1>8 DEF vars, store, world
  <2>2. /\ Present' = Present /\ FirstNodes' = FirstNodes
        /\ FirstFound' = FirstFound /\ FirstFlow' = FirstFlow /\ Sites(Present)' = Sites(Present)
    BY <2>1, FirstIsOfDisk
  <2>3. FirstIndex' <=> FirstIndex
    BY <2>1, <2>2 DEF FirstIndex
  <2>. QED BY <2>1, <2>2, <2>3 DEF WholeInv, NoneIsSkipped, WholeRun
<1>. QED BY <1>3, <1>4, <1>5, <1>6, <1>7, <1>8 DEF Next, Step

LEMMA InitIsWhole == Init => WholeInv
<1> SUFFICES ASSUME Init PROVE WholeInv
  OBVIOUS
<1>. QED BY InitIsRun
     DEF Init, WholeInv, RowsOfIndexed, NoneIsSkipped, WholeRun, Written, Extracting

LEMMA CompletedWholeIsFirst ==
    ASSUME WholeInv, [Next]_vars, Completes, pc = "finish", job.changed = Present
    PROVE  /\ nodes' = FirstNodes \cup CallerEnds(FirstFlow)
           /\ edges' = FirstFound \cup FirstFlow
           /\ parked' = Unresolved(Sites(Present), FirstNodes)
<1>1. FirstIndex
  BY DEF WholeInv, WholeRun, Written, Extracting
<1>2. Finish
  BY WholeParts, CompletionSteps DEF Classify
<1>. QED BY <1>1, <1>2 DEF Finish, store, FirstIndex

\* Whatever was edited, forced and upgraded, and whichever runs died between which
\* transactions, a run that extracts every file leaves exactly the nodes, the edges,
\* the value flow and the parked references of a first index of the disk.
THEOREM ForceRepairs == Spec => WholeRunRepairs
<1>1. WholeInv /\ [Next]_vars =>
         [Completes /\ pc = "finish" /\ job.changed = Present =>
             LET all   == UNION {Mint(f, disk[f]) : f \in Present}
                 found == ResolvedEdges(Sites(Present), all)
                 flow  == CallValueFlow(found, all)
             IN /\ nodes' = all \cup CallerEnds(flow)
                /\ edges' = found \cup flow
                /\ parked' = Unresolved(Sites(Present), all)]_vars
  BY CompletedWholeIsFirst DEF FirstNodes, FirstFound, FirstFlow
<1>. QED BY <1>1, InitIsWhole, NextKeepsWhole, PTL DEF Spec, WholeRunRepairs
-----------------------------------------------------------------------------
(* The value flow of an incremental run is that of a first index.           *)

\* A name is defined by the texts of one file only, and a definition that stays
\* keeps its parameter.
OneDefiner ==
    \A f, g \in Files : f # g =>
        \A t \in Texts[f], u \in Texts[g] : t.defs \cap u.defs = {}
ParamsStay ==
    \A f \in Files : \A t, u \in Texts[f] : \A n \in t.defs \cap u.defs :
        [name |-> n, end |-> "param"] \in t.ends => [name |-> n, end |-> "param"] \in u.ends

Endpoints         == {"param", "return"}
EndOf(s, r)       == [s EXCEPT !.end = r]
Hop(f, s, r)      == [from |-> f, kind |-> "flows", to |-> EndOf(s, r)]
ValueEnd(f, n, r) == [file |-> f, name |-> n, end |-> IF r = "param" THEN "argument" ELSE "result"]
CallOf(n)         == [kind |-> "calls", to |-> n]

\* A call goes to a definition, a hop to an endpoint of one; only hops are captured.
EdgeForms ==
    /\ \A e \in edges \cup job.collateral :
          /\ e.kind = "calls" => e.to \in Defs(Symbol)
          /\ e.kind = "flows" => \E s \in Defs(Symbol), r \in Endpoints : e.to = EndOf(s, r)
    /\ \A e \in job.collateral : e.kind = "flows"

\* An endpoint is stored with its definition, and is of a text of its file.
EndIsOwn(s, r) == s \in nodes /\ \E u \in Texts[s.file] : [name |-> s.name, end |-> r] \in u.ends
OwnEnds == \A s \in Defs(Symbol), r \in Endpoints : EndOf(s, r) \in nodes => EndIsOwn(s, r)

\* The calls and the parked rows of a certified text are references of it.
RowsAreRefs ==
    \A f \in Files : Certified(f) /\ (pc \in {"remove", "write", "resolve"} => f \notin job.changed) =>
        /\ \A s \in Defs(Symbol) : CallEdge(f, s) \in edges => CallOf(s.name) \in RefsOf(digests[f])
        /\ \A p \in parked : p.file = f => p.ref \in RefsOf(digests[f])

\* What a parked call names is not there; once the changed files are written, it may
\* be in one of them until the back-fill has looked, unless the call's record is
\* replayed: what an exact replay or an unchanged text mints was there before.
CallsUnbound ==
    \A p \in parked : ~IsImport(p.ref) =>
        /\ \A s \in Defs(nodes) : s.name = p.ref.to =>
              /\ pc \in {"resolve", "rederive", "backfill"}
              /\ p.file \notin job.changed /\ p.file \notin job.rederive
              /\ s.file \in job.changed
        /\ pc \in {"remove", "write"} /\ p.file \in job.rederive =>
              \A s \in Defs(Extracted) : s.name # p.ref.to

\* What a run leaves alone has not changed.
RestAreCurrent ==
    pc \in Extracting =>
        \A f \in Files : digests[f] # NoDigest /\ f \notin job.changed => digests[f] = disk[f]

TouchedAreChanged == pc \in Extracting => \A s \in job.touched : s.file \in job.changed

\* Until it is resolved, a changed file has no reference and no caller's end.
FreshAreBare ==
    pc = "resolve" =>
        /\ \A e \in edges : e.from \notin job.changed
        /\ \A p \in parked : p.file \notin job.changed
        /\ \A s \in nodes : s.file \in job.changed => s.end \notin {"argument", "result"}

RefsInv ==
    /\ CallInv /\ WholeInv
    /\ EdgeForms /\ OwnEnds /\ RowsAreRefs /\ CallsUnbound
    /\ RestAreCurrent /\ TouchedAreChanged /\ FreshAreBare

-----------------------------------------------------------------------------
(* Hops and their ends.                                                     *)

LEMMA DefsAreSymbols ==
    ASSUME NEW s \in Defs(Symbol)
    PROVE  /\ s \in Symbol /\ s.end = "itself" /\ s.file \in Files /\ s.name \in Names \cup {FileName}
           /\ s.name # FileName /\ s = [file |-> s.file, name |-> s.name, end |-> "itself"]
  BY DEF Defs, Symbol

LEMMA EndsAreSymbols ==
    ASSUME NEW s \in Defs(Symbol), NEW r \in Endpoints
    PROVE  /\ EndOf(s, r) \in Symbol /\ EndOf(s, r).file = s.file
           /\ EndOf(s, r).name = s.name /\ EndOf(s, r).end = r
           /\ EndOf(s, r) = [file |-> s.file, name |-> s.name, end |-> r]
<1>1. s \in Symbol
  BY DefsAreSymbols
<1>2. EndOf(s, r) = [file |-> s.file, name |-> s.name, end |-> r]
  BY <1>1 DEF EndOf, Symbol
<1>3. s.file \in Files /\ s.name \in Names \cup {FileName}
  BY DefsAreSymbols
<1>. QED BY <1>2, <1>3 DEF Endpoints, Symbol

LEMMA EndsDetermine ==
    ASSUME NEW s \in Defs(Symbol), NEW t \in Defs(Symbol), NEW r \in Endpoints, NEW q \in Endpoints,
           EndOf(s, r) = EndOf(t, q)
    PROVE  s = t /\ r = q
<1>1. s.file = t.file /\ s.name = t.name /\ r = q
  BY EndsAreSymbols
<1>. QED BY <1>1, DefsAreSymbols

LEMMA HopsDetermine ==
    ASSUME NEW s \in Defs(Symbol), NEW t \in Defs(Symbol), NEW r \in Endpoints, NEW q \in Endpoints,
           NEW f, NEW g, Hop(f, s, r) = Hop(g, t, q)
    PROVE  f = g /\ s = t /\ r = q
<1>1. f = g /\ EndOf(s, r) = EndOf(t, q)
  BY DEF Hop
<1>. QED BY <1>1, EndsDetermine

LEMMA CallerEndOfHop ==
    ASSUME NEW s \in Defs(Symbol), NEW r \in Endpoints, NEW f
    PROVE  CallerEnd(Hop(f, s, r)) = ValueEnd(f, s.name, r)
<1>1. /\ Hop(f, s, r).from = f /\ Hop(f, s, r).to.name = s.name /\ Hop(f, s, r).to.end = r
  BY EndsAreSymbols DEF Hop
<1>. QED BY <1>1 DEF CallerEnd, ValueEnd

FormedCalls(E) == \A e \in E : e.kind = "calls" => e.to \in Defs(Symbol)

\* The hops of a set of call edges.
LEMMA FlowIsHops ==
    ASSUME NEW E \in SUBSET Edge, FormedCalls(E), NEW N, NEW h \in CallValueFlow(E, N)
    PROVE  \E f \in Files, s \in Defs(Symbol), r \in Endpoints :
               h = Hop(f, s, r) /\ CallEdge(f, s) \in E /\ EndOf(s, r) \in N
<1>1. h \in [from : Files, kind : {"flows"}, to : N]
  BY DEF CallValueFlow
<1>2. \E c \in E, r \in Endpoints :
         c.kind = "calls" /\ h = [from |-> c.from, kind |-> "flows", to |-> [c.to EXCEPT !.end = r]]
  BY DEF CallValueFlow, Endpoints
<1>3. PICK c \in E, r \in Endpoints :
         c.kind = "calls" /\ h = [from |-> c.from, kind |-> "flows", to |-> [c.to EXCEPT !.end = r]]
  BY <1>2
<1>4. c.to \in Defs(Symbol) /\ c.from \in Files
  BY <1>3 DEF FormedCalls, Edge
<1>5. h = Hop(c.from, c.to, r)
  BY <1>3 DEF Hop, EndOf
<1>6. c = CallEdge(c.from, c.to)
  BY <1>3 DEF CallEdge, Edge
<1>7. EndOf(c.to, r) \in N
  <2>1. h.to \in N
    BY <1>1
  <2>. QED BY <1>5, <2>1 DEF Hop
<1>. QED BY <1>4, <1>5, <1>6, <1>7

LEMMA HopsAreFlow ==
    ASSUME NEW E, NEW N, NEW f \in Files, NEW s, NEW r \in Endpoints,
           CallEdge(f, s) \in E, EndOf(s, r) \in N
    PROVE  Hop(f, s, r) \in CallValueFlow(E, N)
<1>1. CallEdge(f, s).kind = "calls" /\ CallEdge(f, s).from = f /\ CallEdge(f, s).to = s
  BY DEF CallEdge
<1>2. Hop(f, s, r) \in [from : Files, kind : {"flows"}, to : N]
  BY DEF Hop
<1> DEFINE A       == {c \in E : c.kind = "calls"}
           H(e, q) == [from |-> e.from, kind |-> "flows", to |-> [e.to EXCEPT !.end = q]]
<1>3. Hop(f, s, r) = H(CallEdge(f, s), r)
  BY <1>1 DEF Hop, EndOf
<1>4. CallEdge(f, s) \in A /\ r \in {"param", "return"}
  BY <1>1 DEF Endpoints
<1>5. Hop(f, s, r) \in {H(e, q) : e \in A, q \in {"param", "return"}}
  <2> HIDE DEF A, H
  <2>. QED BY <1>3, <1>4, SMT
<1>. QED BY <1>2, <1>5 DEF CallValueFlow

\* A resolver pass over P: its calls go to definitions named as in P.
LEMMA ResolvedCalls ==
    ASSUME NEW P \in SUBSET Site, NEW N \in SUBSET Symbol, NEW e \in ResolvedEdges(P, N)
    PROVE  /\ e.kind # "flows"
           /\ e.kind = "calls" =>
                 /\ e.to \in Defs(N) /\ e.to \in Defs(Symbol)
                 /\ \E p \in P : /\ ~IsImport(p.ref) /\ e = CallEdge(p.file, e.to)
                                 /\ e.to \in Binds(p.file, p.ref, N)
                                 /\ p.ref = CallOf(e.to.name)
<1>1. PICK p \in P : \E s \in Binds(p.file, p.ref, N) :
                        e = [from |-> p.file, kind |-> p.ref.kind, to |-> s]
  BY DEF ResolvedEdges
<1>2. PICK s \in Binds(p.file, p.ref, N) : e = [from |-> p.file, kind |-> p.ref.kind, to |-> s]
  BY <1>1
<1>3. p.ref \in Ref /\ p.ref.kind \in {"calls", "imports"}
  BY DEF Site, Ref
<1>4. e.kind = p.ref.kind /\ e.to = s
  BY <1>2
<1>5. ASSUME e.kind = "calls"
      PROVE  /\ e.to \in Defs(N) /\ e.to \in Defs(Symbol) /\ ~IsImport(p.ref)
             /\ e = CallEdge(p.file, e.to) /\ p.ref = CallOf(e.to.name)
  <2>1. ~IsImport(p.ref)
    BY <1>4, <1>5 DEF IsImport
  <2>2. s \in Defs(N) /\ s.name = p.ref.to
    BY <2>1, CallsBind
  <2>3. s \in Defs(Symbol)
    BY <2>2, DefsAreIn
  <2>4. p.ref = CallOf(p.ref.to)
    BY <1>3, <1>4, <1>5 DEF Ref, CallOf
  <2>. QED BY <1>2, <1>4, <1>5, <2>1, <2>2, <2>3, <2>4 DEF CallEdge
<1>. QED BY <1>3, <1>4, <1>5, <1>2

LEMMA PassIsFormed ==
    ASSUME NEW P \in SUBSET Site, NEW N \in SUBSET Symbol, NEW E \in SUBSET ResolvedEdges(P, N)
    PROVE  E \in SUBSET Edge /\ FormedCalls(E)
  BY ResolvedAreEdges, ResolvedCalls DEF FormedCalls

\* At most one stored definition has a name, so it is what every call of it binds.
LEMMA DefinitionIsUnique ==
    ASSUME OneDefiner, OwnTexts, StoreTyped, NEW s \in Defs(nodes), NEW t \in Defs(nodes), s.name = t.name
    PROVE  s = t
<1>1. s \in Defs(Symbol) /\ t \in Defs(Symbol)
  BY DefsAreIn DEF StoreTyped
<1>2. s.file \in Files /\ t.file \in Files
  BY <1>1, DefsAreSymbols
<1>3. PICK u \in Texts[s.file], v \in Texts[t.file] : s.name \in u.defs /\ s.name \in v.defs
  BY DEF OwnTexts
<1>4. s.file = t.file
  BY <1>2, <1>3 DEF OneDefiner
<1>. QED BY <1>1, <1>4, DefsAreSymbols

LEMMA CallBindsIt ==
    ASSUME OneDefiner, OwnTexts, StoreTyped, NEW f, NEW s \in Defs(nodes), NEW r, ~IsImport(r), r.to = s.name
    PROVE  Binds(f, r, nodes) = {s}
<1>1. {t \in Defs(nodes) : t.name = r.to} = {s}
  BY DefinitionIsUnique
<1>2. Candidates(f, r.to, nodes) = {s}
  BY <1>1 DEF Candidates
<1>3. Cardinality({s}) = 1
  BY FS_Singleton
<1>. QED BY <1>2, <1>3 DEF Binds, IsImport

-----------------------------------------------------------------------------
(* Every step keeps the references' part.                                   *)

LEMMA RefsParts ==
    ASSUME RefsInv
    PROVE  /\ TypeInv /\ JobTyped /\ StoreTyped /\ job.changed \in SUBSET Files
           /\ disk \in [Files -> AllTexts \cup {Absent}]
           /\ RunInv /\ DigestInv /\ ImportInv /\ OwnTexts /\ DigestCertifiesNodes
  BY WholeParts DEF RefsInv, WholeInv, RunInv, DigestInv, CallInv

\* What classification leaves in the run's memory.
Classified ==
    /\ pc = "classify" /\ pc' = "remove"
    /\ UNCHANGED <<nodes, edges, parked, digests, disk>>
    /\ job'.changed = Seed \cup ForcedCallers
    /\ job'.rederive = RederivedCallers
    /\ job'.touched = Defs(Touched)
    /\ job'.collateral = Collateral

LEMMA ClassifyClassifies ==
    ASSUME RefsInv, Classify, Seed \cup ForcedCallers # {}
    PROVE  Classified
<1>1. /\ job' = [job EXCEPT
             !.changed = Seed \cup ForcedCallers,
             !.fresh   = \E f \in Seed \cup ForcedCallers : digests[f] = NoDigest,
             !.skipped = Present \ (Seed \cup ForcedCallers) # {},
             !.rederive = RederivedCallers,
             !.touched = Defs(Touched),
             !.collateral = Collateral]
      /\ pc = "classify" /\ pc' = "remove"
      /\ UNCHANGED <<nodes, edges, parked, digests, disk>>
      /\ JobTyped
  BY RefsParts DEF Classify, store, world
<1>. QED BY <1>1 DEF JobTyped, Classified

\* A file left alone holds the text on disk, and its importers are not among those
\* that the sweep found.
LEMMA RestIsCurrent ==
    ASSUME RefsInv, pc = "classify", NEW f \in Files, digests[f] # NoDigest, f \notin Seed
    PROVE  /\ f \in Present /\ digests[f] = disk[f] /\ Certified(f)
           /\ f \notin job.importers /\ ~job.force /\ disk[f] \in AllTexts
<1>1. f \in Present
  BY RefsParts DEF RunInv, SweptIsPresent, Indexed
<1>2. disk[f] \in AllTexts
  BY <1>1, RefsParts, PresentAreTexts
<1>. QED BY <1>1, <1>2, AbsentIsNoText DEF Seed, Certified

\* Extraction of an unchanged text mints what is stored.
LEMMA CertifiedMintsItsNodes ==
    ASSUME RefsInv, NEW g \in Files, Certified(g), digests[g] = disk[g]
    PROVE  \A s \in Symbol : s.file = g /\ s.end \notin {"argument", "result"} =>
              (s \in nodes <=> s \in Mint(g, disk[g]))
<1>1. Own(g) = Mint(g, disk[g])
  BY RefsParts DEF DigestCertifiesNodes
<1>. QED BY <1>1 DEF Own

\* If any caller's record is to be replayed, no definition is minted that was not
\* there before.
LEMMA ReplayMintsNoDefs ==
    ASSUME RefsInv, pc = "classify", RederivedCallers # {},
           NEW s \in Defs(UNION {Mint(g, disk[g]) : g \in Seed \cup ForcedCallers})
    PROVE  s \in Defs(nodes)
<1>1. ReplayIsExact
  BY DEF RederivedCallers, ForcedCallers
<1>2. PICK g \in Seed \cup ForcedCallers : s \in Mint(g, disk[g])
  BY DEF Defs
<1>3. s.name # FileName /\ s.end = "itself"
  BY DEF Defs
<1>4. CASE g \in Seed
  <2>1. s \in Defs(UNION {Mint(h, disk[h]) : h \in Seed})
    BY <1>2, <1>3, <1>4 DEF Defs
  <2>2. s \in Defs(Touched)
    BY <1>1, <2>1 DEF ReplayIsExact
  <2>. QED BY <2>2 DEF Defs, Touched
<1>5. CASE g \in ForcedCallers \ Seed
  <2>1. g \in Present /\ g \in Files
    BY <1>5, RefsParts, ClassifiedIsTyped DEF Present
  <2>2. digests[g] = disk[g] /\ disk[g] \in AllTexts
    BY <1>5, <2>1, RefsParts, PresentAreTexts DEF Seed
  <2>3. Certified(g)
    BY <2>2, AbsentIsNoText DEF Certified
  <2>4. s \in Symbol /\ s.file = g
    BY <1>2, <2>1, <2>2, MintIsOwn
  <2>5. s \in nodes
    BY <1>2, <1>3, <2>1, <2>2, <2>3, <2>4, CertifiedMintsItsNodes
  <2>. QED BY <1>3, <2>5 DEF Defs
<1>. QED BY <1>2, <1>4, <1>5

\* A pass over sites P: the references it writes and the nodes that it adds.
PassOver(P, E, R) ==
    /\ P \in SUBSET Site /\ E \in SUBSET ResolvedEdges(P, nodes) /\ R \subseteq E
    /\ edges' = edges \cup R \cup CallValueFlow(E, nodes)
    /\ nodes' = nodes \cup CallerEnds(CallValueFlow(E, nodes))
    /\ UNCHANGED <<digests, disk, job>>

LEMMA PassEdges ==
    ASSUME StoreTyped, NEW P, NEW E, NEW R, PassOver(P, E, R), NEW e \in edges', e \notin edges
    PROVE  \/ e.kind # "flows" /\ e \in R
              /\ (e.kind = "calls" =>
                    /\ e.to \in Defs(nodes) /\ e.to \in Defs(Symbol)
                    /\ \E p \in P : /\ ~IsImport(p.ref) /\ e = CallEdge(p.file, e.to)
                                    /\ p.ref = CallOf(e.to.name))
           \/ \E f \in Files, s \in Defs(Symbol), r \in Endpoints :
                 /\ e = Hop(f, s, r) /\ CallEdge(f, s) \in E /\ EndOf(s, r) \in nodes
                 /\ ValueEnd(f, s.name, r) \in nodes'
<1>1. nodes \in SUBSET Symbol
  BY DEF StoreTyped
<1>2. CASE e \in R
  BY <1>1, <1>2, ResolvedCalls DEF PassOver
<1>3. CASE e \in CallValueFlow(E, nodes)
  <2>1. E \in SUBSET Edge /\ FormedCalls(E)
    BY <1>1, PassIsFormed DEF PassOver
  <2>2. PICK f \in Files, s \in Defs(Symbol), r \in Endpoints :
            e = Hop(f, s, r) /\ CallEdge(f, s) \in E /\ EndOf(s, r) \in nodes
    BY <1>3, <2>1, FlowIsHops
  <2>3. e.kind = "flows"
    BY <2>2 DEF Hop
  <2>4. CallerEnd(e) \in CallerEnds(CallValueFlow(E, nodes))
    BY <1>3, <2>3 DEF CallerEnds
  <2>5. ValueEnd(f, s.name, r) \in nodes'
    BY <2>2, <2>4, CallerEndOfHop DEF PassOver
  <2>. QED BY <2>2, <2>5
<1>. QED BY <1>2, <1>3 DEF PassOver

LEMMA PassNodes ==
    ASSUME StoreTyped, NEW P, NEW E, NEW R, PassOver(P, E, R)
    PROVE  /\ Defs(nodes') = Defs(nodes)
           /\ \A s \in nodes' : s \in nodes \/ (s.end \in {"argument", "result"} /\ \E p \in P : s.file = p.file)
           /\ \A s \in Defs(Symbol), r \in Endpoints : EndOf(s, r) \in nodes' <=> EndOf(s, r) \in nodes
           /\ nodes \subseteq nodes' /\ edges \subseteq edges'
<1>1. nodes \in SUBSET Symbol /\ P \in SUBSET Site /\ E \in SUBSET ResolvedEdges(P, nodes)
      /\ nodes' = nodes \cup CallerEnds(CallValueFlow(E, nodes))
  BY DEF StoreTyped, PassOver
<1>2. Defs(nodes') = Defs(nodes)
  BY <1>1, PassAddsNoDefs
<1>3. \A s \in nodes' : s \in nodes \/ (s.end \in {"argument", "result"} /\ \E p \in P : s.file = p.file)
  <2>1. \A s \in CallerEnds(CallValueFlow(E, nodes)) :
           s.end \in {"argument", "result"} /\ \E p \in P : s.file = p.file
    BY <1>1, PassIsTyped
  <2>. QED BY <1>1, <2>1
<1>4. ASSUME NEW s \in Defs(Symbol), NEW r \in Endpoints
      PROVE  EndOf(s, r) \in nodes' <=> EndOf(s, r) \in nodes
  <2>1. EndOf(s, r).end \notin {"argument", "result"}
    BY EndsAreSymbols DEF Endpoints
  <2>. QED BY <1>1, <1>3, <2>1
<1>. QED BY <1>1, <1>2, <1>3, <1>4 DEF PassOver

LEMMA ResolvePasses ==
    ASSUME RefsInv, Resolve
    PROVE  LET P == Sites(job.changed)
           IN /\ PassOver(P, ResolvedEdges(P, nodes), ResolvedEdges(P, nodes))
              /\ \A p \in P : p.file \in job.changed
              /\ parked' = parked \cup Unresolved(P, nodes)
              /\ pc = "resolve" /\ pc' = "rederive"
<1>1. Sites(job.changed) \in SUBSET Site /\ \A p \in Sites(job.changed) : p.file \in job.changed
  BY RefsParts, SitesAreTyped
<1>. QED BY <1>1 DEF Resolve, WriteEdges, PassOver, world

ReplayedSites == {p \in Sites(job.rederive) : p.ref.kind = "calls"}
ReplayedEdges == {e \in ResolvedEdges(ReplayedSites, nodes) : e.to \in job.touched \cup Extracted}

LEMMA RederivePasses ==
    ASSUME RefsInv, Rederive
    PROVE  /\ PassOver(ReplayedSites, ReplayedEdges, {})
           /\ \A p \in ReplayedSites : p.file \in job.rederive
           /\ parked' = parked /\ pc = "rederive" /\ pc' = "backfill"
<1>1. /\ Sites(job.rederive) \in SUBSET Site
      /\ \A p \in Sites(job.rederive) : p.file \in job.rederive
  BY RefsParts, SitesAreTyped DEF JobTyped
<1>. QED BY <1>1 DEF Rederive, Rederived, WriteEdges, PassOver, ReplayedSites, ReplayedEdges, world

BackfilledRows == IF ~job.force /\ job.skipped THEN BackfillRows ELSE {}

LEMMA BackfillPasses ==
    ASSUME RefsInv, Backfill
    PROVE  LET P == BackfilledRows
           IN /\ PassOver(P, ResolvedEdges(P, nodes), ResolvedEdges(P, nodes))
              /\ P \subseteq parked /\ \A p \in P : p.file \notin job.changed
              /\ parked' = parked \ (P \ Unresolved(P, nodes))
              /\ pc = "backfill" /\ pc' = "restore"
<1>1. BackfilledRows \subseteq parked /\ \A p \in BackfilledRows : p.file \notin job.changed
  BY DEF BackfilledRows, BackfillRows, ParkedWithout
<1>2. BackfilledRows \in SUBSET Site
  BY <1>1, RefsParts DEF StoreTyped
<1>3. /\ WriteEdges(ResolvedEdges(BackfilledRows, nodes),
                    CallValueFlow(ResolvedEdges(BackfilledRows, nodes), nodes))
      /\ parked' = parked \ (BackfilledRows \ Unresolved(BackfilledRows, nodes))
      /\ UNCHANGED <<digests, disk, job>> /\ pc = "backfill" /\ pc' = "restore"
  BY DEF Backfill, BackfilledRows, world
<1>. QED BY <1>1, <1>2, <1>3 DEF WriteEdges, PassOver

\* The steps that move files out of the store.
LEMMA Removals ==
    ASSUME RefsInv, Sweep \/ Remove
    PROVE  \E F \in SUBSET Files :
              /\ RemoveFiles(F) /\ disk' = disk
              /\ Sweep => F = Indexed \ Present /\ pc = "sweep" /\ pc' = "classify"
              /\ Remove => F = job.changed /\ job' = job /\ pc = "remove" /\ pc' = "write"
<1>1. Indexed \ Present \in SUBSET Files /\ job.changed \in SUBSET Files
  BY RefsParts DEF Indexed
<1>2. CASE Sweep /\ ~Remove
  BY <1>1, <1>2 DEF Sweep, world
<1>3. CASE Remove /\ ~Sweep
  BY <1>1, <1>3 DEF Remove, world
<1>4. ~(Sweep /\ Remove)
  BY DEF Sweep, Remove
<1>. QED BY <1>2, <1>3, <1>4

LEMMA RemovalIsOfFiles ==
    ASSUME NEW F, RemoveFiles(F)
    PROVE  /\ edges' \subseteq edges /\ nodes' \subseteq nodes /\ parked' \subseteq parked
           /\ \A e \in edges' : e.from \notin F
           /\ \A p \in parked' : p.file \notin F
           /\ \A s \in nodes' : s.file \notin F
           /\ \A s \in nodes : s.file \notin F => s \in nodes'
           /\ \A f \in Files : digests'[f] = IF f \in F THEN NoDigest ELSE digests[f]
  BY DEF RemoveFiles, NodesWithout, EdgesWithout, ParkedWithout, DigestsWithout

LEMMA NextKeepsForms ==
    ASSUME RefsInv, [Next]_vars
    PROVE  EdgeForms'
<1>1. JobTyped /\ StoreTyped
  BY RefsParts
<1>2. ASSUME edges' \subseteq edges \cup job.collateral,
             job'.collateral \subseteq job.collateral
      PROVE  EdgeForms'
  BY <1>2 DEF RefsInv, EdgeForms
<1>3. ASSUME edges' \subseteq edges, job'.collateral = {}
      PROVE  EdgeForms'
  BY <1>3 DEF RefsInv, EdgeForms
<1>4. CASE Start
  <2>1. job'.collateral = {} /\ edges' = edges
    BY <1>4 DEF Start, NoJob, store
  <2>. QED BY <1>3, <2>1
<1>5. CASE Finish \/ Crash
  BY <1>3, <1>5 DEF Finish, Crash, NoJob, store
<1>6. CASE Sweep
  <2>1. edges' \subseteq edges /\ job'.collateral = job.collateral
    BY <1>1, <1>6 DEF Sweep, RemoveFiles, EdgesWithout, JobTyped
  <2>. QED BY <1>2, <2>1
<1>7. CASE Remove
  <2>1. edges' \subseteq edges /\ job' = job
    BY <1>7 DEF Remove, RemoveFiles, EdgesWithout
  <2>. QED BY <1>2, <2>1
<1>8. CASE Classify
  <2>1. CASE Seed \cup ForcedCallers = {}
    BY <1>3, <1>8, <2>1 DEF Classify, NoJob, store
  <2>2. CASE Seed \cup ForcedCallers # {}
    <3>1. edges' = edges /\ job'.collateral = Collateral
      BY <1>8, <2>2, ClassifyClassifies DEF Classified
    <3>2. \A e \in Collateral : e \in edges /\ e.kind = "flows"
      BY DEF Collateral
    <3>. QED BY <3>1, <3>2 DEF RefsInv, EdgeForms
  <2>. QED BY <2>1, <2>2
<1>9. CASE Write
  BY <1>2, <1>9 DEF Write
<1>10. ASSUME NEW P, NEW E, NEW R, PassOver(P, E, R)
       PROVE  EdgeForms'
  <2>1. job' = job
    BY <1>10 DEF PassOver
  <2>2. ASSUME NEW e \in edges', e \notin edges
        PROVE  /\ e.kind = "calls" => e.to \in Defs(Symbol)
               /\ e.kind = "flows" => \E s \in Defs(Symbol), r \in Endpoints : e.to = EndOf(s, r)
    BY <1>1, <1>10, <2>2, PassEdges DEF Hop
  <2>. QED BY <2>1, <2>2 DEF RefsInv, EdgeForms
<1>11. CASE Resolve
  BY <1>10, <1>11, ResolvePasses
<1>12. CASE Rederive
  BY <1>10, <1>12, RederivePasses
<1>13. CASE Backfill
  BY <1>10, <1>13, BackfillPasses
<1>14. CASE Restore
  <2>1. edges' \subseteq edges \cup job.collateral /\ job' = job
    BY <1>14 DEF Restore
  <2>. QED BY <1>2, <2>1
<1>15. CASE Prune
  <2>1. edges' \subseteq edges /\ job' = job
    BY <1>15 DEF Prune, LiveEdges
  <2>. QED BY <1>2, <2>1
<1>16. CASE ClearDigests \/ UNCHANGED vars
  <2>1. edges' = edges /\ job' = job
    BY <1>16 DEF ClearDigests, vars, store
  <2>. QED BY <1>2, <2>1
<1>17. ASSUME NEW f \in Files, NEW t \in Texts[f] \cup {Absent}, Edit(f, t)
       PROVE  EdgeForms'
  BY <1>2, <1>17 DEF Edit, store
<1>18. ASSUME NEW e \in Environments, Upgrade(e)
       PROVE  EdgeForms'
  BY <1>2, <1>18 DEF Upgrade, store
<1>. QED BY <1>4, <1>5, <1>6, <1>7, <1>8, <1>9, <1>11, <1>12, <1>13, <1>14, <1>15, <1>16, <1>17,
            <1>18 DEF Next, Step

\* What extraction mints of a definition's ends is of the text it reads.
LEMMA MintedEnds ==
    ASSUME NEW f \in Files, NEW t \in AllTexts, NEW s \in Defs(Symbol), NEW r \in Endpoints
    PROVE  /\ EndOf(s, r) \in Mint(f, t) <=>
                 ~t.opaque /\ s.file = f /\ [name |-> s.name, end |-> r] \in t.ends
           /\ s \in Mint(f, t) <=> ~t.opaque /\ s.file = f /\ s.name \in t.defs
           /\ [name |-> s.name, end |-> r] \in t.ends => s.name \in t.defs
<1>1. t.ends \subseteq [name : t.defs, end : {"param", "return"}]
  BY TextsAreTexts
<1>2. /\ s = [file |-> s.file, name |-> s.name, end |-> "itself"] /\ s.name # FileName
      /\ s.end = "itself"
  BY DefsAreSymbols
<1>3. EndOf(s, r) = [file |-> s.file, name |-> s.name, end |-> r] /\ r \in {"param", "return"}
  BY EndsAreSymbols DEF Endpoints
<1> DEFINE x == EndOf(s, r)
<1>4. x.file = s.file /\ x.name = s.name /\ x.end = r
  BY EndsAreSymbols
<1>5. ASSUME ~t.opaque, x \in Mint(f, t)
      PROVE  s.file = f /\ [name |-> s.name, end |-> r] \in t.ends
  <2> HIDE DEF x
  <2>1. x \notin {FileNode(f)} \cup {Def(f, n) : n \in t.defs}
    <3>1. x.end # "itself"
      BY <1>3, <1>4
    <3>2. FileNode(f).end = "itself" /\ \A n \in t.defs : Def(f, n).end = "itself"
      BY DEF FileNode, Def
    <3>. QED BY <3>1, <3>2
  <2>2. x \in {[file |-> f, name |-> e.name, end |-> e.end] : e \in t.ends}
    BY <1>5, <2>1 DEF Mint
  <2>3. PICK e \in t.ends : x = [file |-> f, name |-> e.name, end |-> e.end]
    BY <2>2
  <2>4. x.file = f /\ x.name = e.name /\ x.end = e.end
    BY <2>3
  <2>5. e = [name |-> s.name, end |-> r]
    BY <1>1, <1>4, <2>4
  <2>. QED BY <1>4, <2>4, <2>5
<1>6. ASSUME ~t.opaque, s.file = f, [name |-> s.name, end |-> r] \in t.ends
      PROVE  x \in Mint(f, t)
  <2>1. x \in {[file |-> f, name |-> e.name, end |-> e.end] : e \in t.ends}
    BY <1>3, <1>6
  <2>. QED BY <1>6, <2>1 DEF Mint
<1>7. ASSUME ~t.opaque, s \in Mint(f, t)
      PROVE  s.file = f /\ s.name \in t.defs
  <2>1. s \notin {[file |-> f, name |-> e.name, end |-> e.end] : e \in t.ends}
    BY <1>1, <1>2
  <2>2. s # FileNode(f)
    BY <1>2 DEF FileNode
  <2>3. s \in {Def(f, n) : n \in t.defs}
    BY <1>7, <2>1, <2>2 DEF Mint
  <2>. QED BY <2>3 DEF Def
<1>8. ASSUME ~t.opaque, s.file = f, s.name \in t.defs
      PROVE  s \in Mint(f, t)
  BY <1>2, <1>8 DEF Mint, Def
<1>9. t.opaque => Mint(f, t) = {}
  BY DEF Mint
<1>10. [name |-> s.name, end |-> r] \in t.ends => s.name \in t.defs
  BY <1>1
<1> HIDE DEF x
<1>. QED BY <1>5, <1>6, <1>7, <1>8, <1>9, <1>10 DEF x

\* What is extracted of the changed files, by their texts.
LEMMA ExtractedEnds ==
    ASSUME RefsInv, pc \in Extracting, NEW s \in Defs(Symbol), NEW r \in Endpoints
    PROVE  /\ s \in Extracted => /\ s.file \in job.changed /\ s.name \in disk[s.file].defs
                                 /\ disk[s.file] \in Texts[s.file] /\ ~disk[s.file].opaque
           /\ EndOf(s, r) \in Extracted =>
                 /\ s \in Extracted /\ [name |-> s.name, end |-> r] \in disk[s.file].ends
           /\ s \in Extracted /\ [name |-> s.name, end |-> r] \in disk[s.file].ends =>
                 EndOf(s, r) \in Extracted
           /\ s \in Extracted => s \in Mint(s.file, disk[s.file])
<1>1. \A g \in job.changed : g \in Files /\ disk[g] \in AllTexts /\ disk[g] \in Texts[g]
  <2>1. job.changed \subseteq Present /\ job.changed \in SUBSET Files
    BY RefsParts DEF TypeInv, ChangedArePresent
  <2>. QED BY <2>1, RefsParts, PresentAreTexts DEF OwnTexts, Present
<1>2. \A g \in job.changed :
         /\ EndOf(s, r) \in Mint(g, disk[g]) <=>
               ~disk[g].opaque /\ s.file = g /\ [name |-> s.name, end |-> r] \in disk[g].ends
         /\ s \in Mint(g, disk[g]) <=> ~disk[g].opaque /\ s.file = g /\ s.name \in disk[g].defs
         /\ [name |-> s.name, end |-> r] \in disk[g].ends => s.name \in disk[g].defs
  BY <1>1, MintedEnds
<1>3. \A x : x \in Extracted <=> \E g \in job.changed : x \in Mint(g, disk[g])
  BY DEF Extracted
<1>. QED BY <1>1, <1>2, <1>3

LEMMA NextKeepsEnds ==
    ASSUME RefsInv, [Next]_vars
    PROVE  OwnEnds'
<1>1. StoreTyped /\ OwnEnds
  BY RefsParts DEF RefsInv
<1>2. ASSUME nodes' = nodes
      PROVE  OwnEnds'
  BY <1>1, <1>2 DEF OwnEnds, EndIsOwn
<1>3. CASE Sweep \/ Remove
  <2>1. PICK F : RemoveFiles(F)
    BY <1>3, Removals
  <2>2. /\ nodes' \subseteq nodes /\ \A s \in nodes' : s.file \notin F
        /\ \A s \in nodes : s.file \notin F => s \in nodes'
    BY <2>1, RemovalIsOfFiles
  <2> SUFFICES ASSUME NEW s \in Defs(Symbol), NEW r \in Endpoints, EndOf(s, r) \in nodes'
               PROVE  EndIsOwn(s, r)'
    BY DEF OwnEnds
  <2>3. EndIsOwn(s, r)
    BY <1>1, <2>2 DEF OwnEnds
  <2>4. s.file \notin F
    BY <2>2, EndsAreSymbols
  <2>. QED BY <2>2, <2>3, <2>4 DEF EndIsOwn
<1>4. CASE Write
  <2>1. nodes' = nodes \cup Extracted /\ pc \in Extracting
    BY <1>4 DEF Write, Extracting
  <2> SUFFICES ASSUME NEW s \in Defs(Symbol), NEW r \in Endpoints, EndOf(s, r) \in nodes'
               PROVE  EndIsOwn(s, r)'
    BY DEF OwnEnds
  <2>2. CASE EndOf(s, r) \in nodes
    BY <1>1, <2>1, <2>2 DEF OwnEnds, EndIsOwn
  <2>3. CASE EndOf(s, r) \in Extracted
    <3>1. /\ s \in Extracted /\ [name |-> s.name, end |-> r] \in disk[s.file].ends
          /\ disk[s.file] \in Texts[s.file]
      BY <2>1, <2>3, ExtractedEnds
    <3>. QED BY <2>1, <3>1 DEF EndIsOwn
  <2>. QED BY <2>1, <2>2, <2>3
<1>5. ASSUME NEW P, NEW E, NEW R, PassOver(P, E, R)
      PROVE  OwnEnds'
  <2>1. /\ \A s \in Defs(Symbol), r \in Endpoints : EndOf(s, r) \in nodes' <=> EndOf(s, r) \in nodes
        /\ nodes \subseteq nodes'
    BY <1>1, <1>5, PassNodes
  <2>. QED BY <1>1, <2>1 DEF OwnEnds, EndIsOwn
<1>6. CASE Resolve
  BY <1>5, <1>6, ResolvePasses
<1>7. CASE Rederive
  BY <1>5, <1>7, RederivePasses
<1>8. CASE Backfill
  BY <1>5, <1>8, BackfillPasses
<1>9. CASE ~(Sweep \/ Remove \/ Write \/ Resolve \/ Rederive \/ Backfill)
  <2>1. nodes' = nodes
    BY <1>9 DEF Next, Step, Start, Classify, Restore, Prune, Finish, Crash, Edit, Upgrade, ClearDigests,
                vars, store
  <2>. QED BY <1>2, <2>1
<1>. QED BY <1>3, <1>4, <1>6, <1>7, <1>8, <1>9

LEMMA IdleKeepsRefs ==
    ASSUME RefsInv, UNCHANGED vars
    PROVE  RowsAreRefs' /\ CallsUnbound' /\ RestAreCurrent' /\ TouchedAreChanged' /\ FreshAreBare'
<1>1. UNCHANGED <<nodes, edges, parked, digests, disk, pc, job>>
  BY DEF vars, store, world
<1>2. Extracted' = Extracted
  BY <1>1 DEF Extracted
<1>3. /\ RowsAreRefs' /\ CallsUnbound'
  BY <1>1, <1>2 DEF RefsInv, RowsAreRefs, CallsUnbound, Certified
<1>4. RestAreCurrent' /\ TouchedAreChanged' /\ FreshAreBare'
  BY <1>1 DEF RefsInv, RestAreCurrent, TouchedAreChanged, FreshAreBare
<1>. QED BY <1>3, <1>4

\* A step that writes no call and parks nothing.
LEMMA NoCallIsAdded ==
    ASSUME RefsInv, \A e \in edges' : e.kind = "calls" => e \in edges, parked' \subseteq parked,
           \A f \in Files : Certified(f)' /\ (pc' \in {"remove", "write", "resolve"} => f \notin job'.changed) =>
               digests'[f] = digests[f] /\ (pc \in {"remove", "write", "resolve"} => f \notin job.changed)
    PROVE  RowsAreRefs'
<1> SUFFICES ASSUME NEW f \in Files, Certified(f)',
                    pc' \in {"remove", "write", "resolve"} => f \notin job'.changed
             PROVE  /\ \A s \in Defs(Symbol) : CallEdge(f, s) \in edges' => CallOf(s.name) \in RefsOf(digests'[f])
                    /\ \A p \in parked' : p.file = f => p.ref \in RefsOf(digests'[f])
  BY DEF RowsAreRefs
<1>1. /\ digests'[f] = digests[f] /\ Certified(f)
      /\ pc \in {"remove", "write", "resolve"} => f \notin job.changed
  BY DEF Certified
<1>2. \A s : CallEdge(f, s).kind = "calls"
  BY DEF CallEdge
<1>. QED BY <1>1, <1>2 DEF RefsInv, RowsAreRefs

\* The calls that a pass writes, and the sites that it leaves.
LEMMA PassKeepsRowRefs ==
    ASSUME RefsInv, NEW P, NEW E, NEW R, PassOver(P, E, R), pc' \notin {"remove", "write", "resolve"},
           \A p \in P : p.ref \in RefsOf(digests[p.file]),
           \A p \in parked' : p \in parked \/ p \in P,
           \A f \in Files : Certified(f) =>
               \/ pc \in {"remove", "write", "resolve"} => f \notin job.changed
               \/ /\ \A e \in edges : e.from # f
                  /\ \A p \in parked : p.file # f
    PROVE  RowsAreRefs'
<1>1. StoreTyped /\ digests' = digests
  BY RefsParts DEF PassOver
<1> SUFFICES ASSUME NEW f \in Files, Certified(f)
             PROVE  /\ \A s \in Defs(Symbol) : CallEdge(f, s) \in edges' => CallOf(s.name) \in RefsOf(digests[f])
                    /\ \A p \in parked' : p.file = f => p.ref \in RefsOf(digests[f])
  BY <1>1 DEF RowsAreRefs, Certified
<1>2. ASSUME NEW s \in Defs(Symbol), CallEdge(f, s) \in edges'
      PROVE  CallOf(s.name) \in RefsOf(digests[f])
  <2>1. CallEdge(f, s).from = f /\ CallEdge(f, s).kind = "calls" /\ CallEdge(f, s).to = s
    BY DEF CallEdge
  <2>2. CASE CallEdge(f, s) \in edges
    BY <2>1, <2>2 DEF RefsInv, RowsAreRefs
  <2>3. CASE CallEdge(f, s) \notin edges
    <3>1. \A g, t, r : Hop(g, t, r).kind = "flows"
      BY DEF Hop
    <3>2. PICK p \in P : CallEdge(f, s) = CallEdge(p.file, s) /\ p.ref = CallOf(s.name)
      BY <1>1, <1>2, <2>1, <2>3, <3>1, PassEdges
    <3>3. p.file = f
      BY <2>1, <3>2 DEF CallEdge
    <3>. QED BY <3>2, <3>3
  <2>. QED BY <2>2, <2>3
<1>3. ASSUME NEW p \in parked', p.file = f
      PROVE  p.ref \in RefsOf(digests[f])
  <2>1. CASE p \in P
    BY <1>3, <2>1
  <2>2. CASE p \in parked
    BY <1>3, <2>2 DEF RefsInv, RowsAreRefs
  <2>. QED BY <1>3, <2>1, <2>2
<1>. QED BY <1>2, <1>3

LEMMA NextKeepsRowRefs ==
    ASSUME RefsInv, [Next]_vars, crashes' = 0
    PROVE  RowsAreRefs'
<1>1. JobTyped /\ StoreTyped /\ job.changed \in SUBSET Files /\ RunInv /\ DigestInv
  BY RefsParts
<1>2. CASE Sweep \/ Remove
  <2>1. PICK F \in SUBSET Files :
              /\ RemoveFiles(F)
              /\ Sweep => F = Indexed \ Present /\ pc = "sweep" /\ pc' = "classify"
              /\ Remove => F = job.changed /\ job' = job /\ pc = "remove" /\ pc' = "write"
    BY <1>2, Removals
  <2>2. edges' \subseteq edges /\ parked' \subseteq parked
        /\ \A f \in Files : digests'[f] = IF f \in F THEN NoDigest ELSE digests[f]
    BY <2>1, RemovalIsOfFiles
  <2>. QED BY <1>2, <2>1, <2>2, NoCallIsAdded DEF Certified
<1>3. CASE Start \/ Finish \/ ClearDigests
           \/ (\E f \in Files : \E t \in Texts[f] \cup {Absent} : Edit(f, t))
           \/ (\E e \in Environments : Upgrade(e))
  <2>1. /\ edges' = edges /\ parked' = parked /\ pc \in {"idle", "finish"}
        /\ \A f \in Files : Certified(f)' => digests'[f] = digests[f]
    BY <1>3 DEF Start, Finish, ClearDigests, Edit, Upgrade, store, Certified, Indexed
  <2>. QED BY <2>1, NoCallIsAdded
<1>4. CASE Classify
  <2>1. /\ edges' = edges /\ parked' = parked /\ digests' = digests /\ pc = "classify"
    BY <1>4 DEF Classify, store
  <2>. QED BY <2>1, NoCallIsAdded
<1>5. CASE Write
  <2>1. /\ edges' = edges /\ parked' = parked /\ pc = "write" /\ pc' = "resolve" /\ job' = job
        /\ \A f \in Files : f \notin job.changed => digests'[f] = digests[f]
    BY <1>5 DEF Write
  <2>. QED BY <2>1, NoCallIsAdded
<1>6. CASE Resolve
  <2>1. LET P == Sites(job.changed)
        IN /\ PassOver(P, ResolvedEdges(P, nodes), ResolvedEdges(P, nodes))
           /\ \A p \in P : p.file \in job.changed
           /\ parked' = parked \cup Unresolved(P, nodes)
           /\ pc = "resolve" /\ pc' = "rederive"
    BY <1>6, ResolvePasses
  <2>2. \A p \in Sites(job.changed) : p.ref \in RefsOf(digests[p.file])
    <3>1. \A f \in job.changed : digests[f] = disk[f]
      BY <1>1, <2>1 DEF DigestInv, ChangedAreRewritten, Written, Extracting
    <3>. QED BY <2>1, <3>1 DEF Sites
  <2>3. \A p \in parked' : p \in parked \/ p \in Sites(job.changed)
    BY <2>1 DEF Unresolved
  <2>4. \A f \in job.changed : (\A e \in edges : e.from # f) /\ (\A p \in parked : p.file # f)
    BY <2>1 DEF RefsInv, FreshAreBare
  <2>. QED BY <2>1, <2>2, <2>3, <2>4, PassKeepsRowRefs
<1>7. CASE Rederive
  <2>1. /\ PassOver(ReplayedSites, ReplayedEdges, {})
        /\ parked' = parked /\ pc = "rederive" /\ pc' = "backfill"
    BY <1>7, RederivePasses
  <2>2. \A e \in edges' : e.kind = "calls" => e \in edges
    <3>1. \A g, t, r : Hop(g, t, r).kind = "flows"
      BY DEF Hop
    <3>. QED BY <1>1, <2>1, <3>1, PassEdges
  <2>3. digests' = digests
    BY <2>1 DEF PassOver
  <2>. QED BY <2>1, <2>2, <2>3, NoCallIsAdded
<1>8. CASE Backfill
  <2>1. LET P == BackfilledRows
        IN /\ PassOver(P, ResolvedEdges(P, nodes), ResolvedEdges(P, nodes))
           /\ P \subseteq parked /\ parked' = parked \ (P \ Unresolved(P, nodes))
           /\ pc = "backfill" /\ pc' = "restore"
    BY <1>8, BackfillPasses
  <2>2. ASSUME NEW p \in parked
        PROVE  p.file \in Files /\ p.ref \in Ref /\ digests[p.file] # NoDigest
    BY <1>1 DEF DigestInv, ParkedAreIndexed, StoreTyped, Site
  <2>3. \A p \in BackfilledRows : p \in parked /\ Certified(p.file) => p.ref \in RefsOf(digests[p.file])
    BY <2>1, <2>2 DEF RefsInv, RowsAreRefs
  <2>4. \A f \in Files : pc \in Written /\ digests[f] # NoDigest => Certified(f)
    <3> SUFFICES ASSUME NEW f \in Files, pc \in Written, digests[f] # NoDigest
                 PROVE  digests[f] = disk[f]
      BY <1>1, <2>1, AbsentIsNoText, RefsParts, PresentAreTexts
         DEF Certified, RunInv, SweptIsPresent, Indexed, Written, Extracting
    <3>. QED BY <1>1 DEF RefsInv, RestAreCurrent, DigestInv, ChangedAreRewritten, Written
  <2>. QED BY <2>1, <2>2, <2>3, <2>4, PassKeepsRowRefs DEF Written, Extracting
<1>9. CASE Restore
  <2>1. \A e \in edges' : e.kind = "calls" => e \in edges
    BY <1>9 DEF Restore, Collateral, RefsInv, EdgeForms
  <2>2. parked' = parked /\ digests' = digests /\ pc = "restore"
    BY <1>9 DEF Restore
  <2>. QED BY <2>1, <2>2, NoCallIsAdded
<1>10. CASE Prune
  <2>1. edges' \subseteq edges /\ parked' = parked /\ digests' = digests /\ pc = "prune"
    BY <1>10 DEF Prune, LiveEdges
  <2>. QED BY <2>1, NoCallIsAdded
<1>11. CASE UNCHANGED vars
  BY <1>11, IdleKeepsRefs
<1>12. ~Crash
  BY TypeInvParts, RefsParts, BoundsAreNat DEF Crash
<1>. QED BY <1>2, <1>3, <1>4, <1>5, <1>6, <1>7, <1>8, <1>9, <1>10, <1>11, <1>12 DEF Next, Step

\* After the write every file that has rows holds its text.
LEMMA RowsAreCertified ==
    ASSUME RefsInv, pc \in Written, NEW f \in Files, digests[f] # NoDigest
    PROVE  digests[f] = disk[f] /\ Certified(f) /\ f \in Present
<1>1. digests[f] = disk[f]
  BY RefsParts DEF RefsInv, RestAreCurrent, DigestInv, ChangedAreRewritten, Written
<1>2. f \in Present
  BY RefsParts DEF RunInv, SweptIsPresent, Indexed, Written
<1>. QED BY <1>1, <1>2, RefsParts, PresentAreTexts, AbsentIsNoText DEF Certified

\* The back-fill looks at each parked call of a definition in a changed file.
LEMMA BackfillLooks ==
    ASSUME RefsInv, pc = "backfill", NEW p \in parked, ~IsImport(p.ref), p.file \notin job.changed,
           NEW s \in Defs(nodes), s.name = p.ref.to, s.file \in job.changed
    PROVE  p \in BackfilledRows
<1>1. /\ StoreTyped /\ JobTyped /\ RunInv /\ DigestInv /\ ImportInv /\ job.changed \in SUBSET Files
      /\ ParkedAreIndexed
  BY RefsParts DEF DigestInv
<1>2. s \in nodes /\ s \in Symbol /\ s.end = "itself"
  BY <1>1 DEF StoreTyped, Defs
<1>3. digests[s.file] = disk[s.file]
  BY <1>1 DEF DigestInv, ChangedAreRewritten, Written, Extracting
<1>4. digests[s.file] # NoDigest
  BY <1>1, <1>2 DEF DigestInv, DigestCertifiesNodes, Symbol
<1>5. Certified(s.file)
  BY <1>1, <1>4, RowsAreCertified DEF Written, Extracting
<1>6. s \in Mint(s.file, disk[s.file])
  BY <1>1, <1>2, <1>3, <1>5, CertifiedMintsItsNodes
<1>7. s \in Extracted
  BY <1>6 DEF Extracted
<1>8. p.file \in Present
  BY <1>1, RowsAreCertified DEF ParkedAreIndexed, StoreTyped, Site, Written, Extracting
<1>9. ~job.force /\ job.skipped
  BY <1>1, <1>8 DEF RunInv, ForcedIsWhole, ImportInv, SkippedIsRest, Extracting
<1>. QED BY <1>7, <1>9 DEF BackfilledRows, BackfillRows, ParkedWithout, IsImport

\* A pass leaves no call parked that a definition answers to.
LEMMA PassedCallsAreUnbound ==
    ASSUME OneDefiner, RefsInv, NEW P, NEW p \in Unresolved(P, nodes), ~IsImport(p.ref),
           NEW s \in Defs(nodes)
    PROVE  s.name # p.ref.to
<1> SUFFICES ASSUME s.name = p.ref.to PROVE FALSE
  OBVIOUS
<1>1. Binds(p.file, p.ref, nodes) = {s}
  BY OneDefiner, RefsParts, CallBindsIt
<1>. QED BY <1>1 DEF Unresolved

LEMMA NextKeepsUnbound ==
    ASSUME OneDefiner, RefsInv, [Next]_vars, crashes' = 0
    PROVE  CallsUnbound'
<1>1. /\ JobTyped /\ StoreTyped /\ job.changed \in SUBSET Files /\ RunInv /\ DigestInv /\ TypeInv
      /\ CallsUnbound
  BY RefsParts DEF RefsInv
<1>2. ASSUME parked' \subseteq parked, Defs(nodes') \subseteq Defs(nodes),
             pc \notin {"resolve", "rederive", "backfill"}, pc' \notin {"remove", "write"}
      PROVE  CallsUnbound'
  BY <1>1, <1>2 DEF CallsUnbound
<1>3. CASE Sweep \/ Remove
  <2>1. PICK F \in SUBSET Files :
              /\ RemoveFiles(F) /\ disk' = disk
              /\ Sweep => F = Indexed \ Present /\ pc = "sweep" /\ pc' = "classify"
              /\ Remove => F = job.changed /\ job' = job /\ pc = "remove" /\ pc' = "write"
    BY <1>3, Removals
  <2>2. nodes' \subseteq nodes /\ parked' \subseteq parked /\ Defs(nodes') \subseteq Defs(nodes)
    BY <2>1, RemovalIsOfFiles, DefsAreIn
  <2>3. CASE Sweep
    BY <1>2, <2>1, <2>2, <2>3
  <2>4. CASE Remove
    <3>1. Extracted' = Extracted
      BY <2>1, <2>4 DEF Extracted
    <3>. QED BY <1>1, <2>1, <2>2, <2>4, <3>1 DEF CallsUnbound
  <2>. QED BY <1>3, <2>3, <2>4
<1>4. CASE Start \/ Restore \/ Prune \/ Finish \/ ClearDigests
           \/ (\E f \in Files : \E t \in Texts[f] \cup {Absent} : Edit(f, t))
           \/ (\E e \in Environments : Upgrade(e))
  <2>1. parked' = parked /\ nodes' = nodes /\ pc \notin {"resolve", "rederive", "backfill"}
        /\ pc' \notin {"remove", "write"}
    BY <1>4 DEF Start, Restore, Prune, Finish, ClearDigests, Edit, Upgrade, store
  <2>. QED BY <1>2, <2>1
<1>5. CASE Classify
  <2>1. CASE Seed \cup ForcedCallers = {}
    BY <1>2, <1>5, <2>1 DEF Classify, store
  <2>2. CASE Seed \cup ForcedCallers # {}
    <3>1. /\ pc = "classify" /\ pc' = "remove"
          /\ UNCHANGED <<nodes, edges, parked, digests, disk>>
          /\ job'.changed = Seed \cup ForcedCallers
          /\ job'.rederive = RederivedCallers
      BY <1>5, <2>2, ClassifyClassifies DEF Classified
    <3>2. Extracted' = UNION {Mint(g, disk[g]) : g \in Seed \cup ForcedCallers}
      BY <3>1 DEF Extracted
    <3>3. RederivedCallers # {} => Defs(Extracted') \subseteq Defs(nodes)
      BY <3>1, <3>2, ReplayMintsNoDefs
    <3>. QED BY <1>1, <3>1, <3>3 DEF CallsUnbound
  <2>. QED BY <2>1, <2>2
<1>6. CASE Write
  <2>1. /\ pc = "write" /\ pc' = "resolve" /\ job' = job /\ parked' = parked
        /\ nodes' = nodes \cup Extracted
    BY <1>6 DEF Write
  <2> SUFFICES ASSUME NEW p \in parked, ~IsImport(p.ref), NEW s \in Defs(nodes'), s.name = p.ref.to
               PROVE  p.file \notin job.changed /\ p.file \notin job.rederive /\ s.file \in job.changed
    BY <2>1 DEF CallsUnbound
  <2>2. s \notin Defs(nodes)
    BY <1>1, <2>1 DEF CallsUnbound
  <2>3. s \in Defs(Extracted)
    BY <2>1, <2>2 DEF Defs
  <2>4. p.file \notin job.rederive
    BY <1>1, <2>1, <2>3 DEF CallsUnbound
  <2>5. p.file \notin job.changed
    BY <1>1, <2>1 DEF DigestInv, ParkedAreIndexed, ChangedAreRewritten
  <2>6. s \in Defs(Symbol) /\ s \in Extracted
    BY <1>1, <2>1, <2>3, ExtractedAreSymbols, DefsAreIn DEF Extracting
  <2>7. s.file \in job.changed
    BY <2>1, <2>6, ExtractedEnds DEF Extracting, Endpoints
  <2>. QED BY <2>4, <2>5, <2>7
<1>7. CASE Resolve
  <2>1. LET P == Sites(job.changed)
        IN /\ PassOver(P, ResolvedEdges(P, nodes), ResolvedEdges(P, nodes))
           /\ \A p \in P : p.file \in job.changed
           /\ parked' = parked \cup Unresolved(P, nodes)
           /\ pc = "resolve" /\ pc' = "rederive"
    BY <1>7, ResolvePasses
  <2>2. Defs(nodes') = Defs(nodes)
    BY <1>1, <2>1, PassNodes
  <2>3. job' = job
    BY <2>1 DEF PassOver
  <2>4. \A p \in Unresolved(Sites(job.changed), nodes) : ~IsImport(p.ref) =>
           \A s \in Defs(nodes) : s.name # p.ref.to
    BY OneDefiner, PassedCallsAreUnbound
  <2>. QED BY <1>1, <2>1, <2>2, <2>3, <2>4 DEF CallsUnbound
<1>8. CASE Rederive
  <2>1. /\ PassOver(ReplayedSites, ReplayedEdges, {})
        /\ parked' = parked /\ pc = "rederive" /\ pc' = "backfill"
    BY <1>8, RederivePasses
  <2>2. Defs(nodes') = Defs(nodes)
    BY <1>1, <2>1, PassNodes
  <2>3. job' = job
    BY <2>1 DEF PassOver
  <2>. QED BY <1>1, <2>1, <2>2, <2>3 DEF CallsUnbound
<1>9. CASE Backfill
  <2>1. LET P == BackfilledRows
        IN /\ PassOver(P, ResolvedEdges(P, nodes), ResolvedEdges(P, nodes))
           /\ P \subseteq parked /\ parked' = parked \ (P \ Unresolved(P, nodes))
           /\ pc = "backfill" /\ pc' = "restore"
    BY <1>9, BackfillPasses
  <2>2. Defs(nodes') = Defs(nodes)
    BY <1>1, <2>1, PassNodes
  <2> SUFFICES ASSUME NEW p \in parked', ~IsImport(p.ref), NEW s \in Defs(nodes), s.name = p.ref.to
               PROVE  FALSE
    BY <2>1, <2>2 DEF CallsUnbound
  <2>3. p \in parked /\ p.file \notin job.changed /\ s.file \in job.changed
    BY <1>1, <2>1 DEF CallsUnbound
  <2>4. p \in BackfilledRows
    BY <2>1, <2>3, BackfillLooks
  <2>5. p \in Unresolved(BackfilledRows, nodes)
    BY <2>1, <2>4
  <2>. QED BY <2>5, OneDefiner, PassedCallsAreUnbound
<1>10. CASE UNCHANGED vars
  BY <1>10, IdleKeepsRefs
<1>11. ~Crash
  BY TypeInvParts, RefsParts, BoundsAreNat DEF Crash
<1>. QED BY <1>3, <1>4, <1>5, <1>6, <1>7, <1>8, <1>9, <1>10, <1>11 DEF Next, Step

LEMMA NextKeepsRest ==
    ASSUME RefsInv, [Next]_vars
    PROVE  RestAreCurrent' /\ TouchedAreChanged'
<1>1. /\ RunInv /\ DigestInv /\ JobTyped /\ RestAreCurrent /\ TouchedAreChanged
  BY RefsParts DEF RefsInv
<1>2. ASSUME pc' \notin Extracting
      PROVE  RestAreCurrent' /\ TouchedAreChanged'
  BY <1>2 DEF RestAreCurrent, TouchedAreChanged
<1>3. ASSUME pc \in Extracting, job' = job, disk' = disk,
             \A f \in Files \ job.changed : digests'[f] = digests[f]
      PROVE  RestAreCurrent' /\ TouchedAreChanged'
  BY <1>1, <1>3 DEF RestAreCurrent, TouchedAreChanged
<1>4. CASE Classify /\ Seed \cup ForcedCallers # {}
  <2>1. Classified
    BY <1>4, ClassifyClassifies
  <2>2. RestAreCurrent'
    BY <2>1, RestIsCurrent DEF Classified, RestAreCurrent
  <2>3. TouchedAreChanged'
    BY <2>1 DEF Classified, TouchedAreChanged, Touched, Defs
  <2>. QED BY <2>2, <2>3
<1>5. CASE Remove
  <2>1. RemoveFiles(job.changed) /\ job' = job /\ pc = "remove" /\ disk' = disk
    BY <1>5 DEF Remove, world
  <2>2. \A f \in Files \ job.changed : digests'[f] = digests[f]
    BY <2>1, RemovalIsOfFiles
  <2>. QED BY <1>3, <2>1, <2>2 DEF Extracting
<1>6. CASE Write
  BY <1>3, <1>6 DEF Write, world, Extracting
<1>7. CASE Resolve \/ Rederive \/ Backfill \/ Restore \/ Prune
  BY <1>3, <1>7 DEF Resolve, Rederive, Backfill, Restore, Prune, world, Extracting
<1>8. CASE Start \/ Sweep \/ (Classify /\ Seed \cup ForcedCallers = {}) \/ Finish \/ Crash \/ ClearDigests
           \/ (\E f \in Files : \E t \in Texts[f] \cup {Absent} : Edit(f, t))
           \/ (\E e \in Environments : Upgrade(e))
  <2>1. pc' \notin Extracting
    BY <1>8 DEF Start, Sweep, Classify, Finish, Crash, ClearDigests, Edit, Upgrade, Extracting
  <2>. QED BY <1>2, <2>1
<1>9. CASE UNCHANGED vars
  BY <1>9, IdleKeepsRefs
<1>. QED BY <1>4, <1>5, <1>6, <1>7, <1>8, <1>9 DEF Next, Step

LEMMA NextKeepsBare ==
    ASSUME RefsInv, [Next]_vars
    PROVE  FreshAreBare'
<1>1. CASE Write
  <2>1. /\ pc = "write" /\ pc' = "resolve" /\ UNCHANGED <<job, edges, parked, disk>>
        /\ nodes' = nodes \cup Extracted
    BY <1>1 DEF Write, world
  <2>2. /\ DigestInv /\ JobTyped /\ StoreTyped /\ RowsOfIndexed /\ job.changed \in SUBSET Files
        /\ TypeInv /\ disk \in [Files -> AllTexts \cup {Absent}]
    BY RefsParts DEF RefsInv, WholeInv
  <2>3. \A f \in job.changed : digests[f] = NoDigest
    BY <2>1, <2>2 DEF DigestInv, ChangedAreRewritten
  <2>4. \A e \in edges : e.from \notin job.changed
    BY <2>2, <2>3 DEF RowsOfIndexed
  <2>5. \A p \in parked : p.file \notin job.changed
    BY <2>2, <2>3 DEF DigestInv, ParkedAreIndexed
  <2>6. \A s \in nodes : s.file \notin job.changed
    BY <2>2, <2>3 DEF DigestInv, DigestCertifiesNodes
  <2>7. \A g \in job.changed : \A s \in Mint(g, disk[g]) : s.end \notin {"argument", "result"}
    BY <2>1, <2>2, PresentAreTexts, MintIsOwn DEF TypeInv, ChangedArePresent, Extracting
  <2>8. \A s \in Extracted : s.end \notin {"argument", "result"}
    BY <2>7 DEF Extracted
  <2>. QED BY <2>1, <2>4, <2>5, <2>6, <2>8 DEF FreshAreBare
<1>2. CASE ~Write /\ [Next]_vars /\ ~UNCHANGED vars
  <2>1. pc' # "resolve"
    BY <1>2 DEF Next, Step, Start, Sweep, Classify, Remove, Resolve, Rederive, Backfill, Restore, Prune,
                Finish, Crash, Edit, Upgrade, ClearDigests
  <2>. QED BY <2>1 DEF FreshAreBare
<1>3. CASE UNCHANGED vars
  BY <1>3, IdleKeepsRefs
<1>. QED BY <1>1, <1>2, <1>3

LEMMA NextKeepsRefs ==
    ASSUME NoneIsOpaque, CallersImport, OneDefiner, RefsInv, [Next]_vars, crashes' = 0
    PROVE  RefsInv'
<1>1. CallInv' /\ WholeInv'
  BY NoneIsOpaque, CallersImport, NextKeepsCalls, NextKeepsWhole DEF RefsInv
<1>2. EdgeForms' /\ OwnEnds'
  BY NextKeepsForms, NextKeepsEnds
<1>3. RowsAreRefs' /\ CallsUnbound'
  BY OneDefiner, NextKeepsRowRefs, NextKeepsUnbound
<1>4. RestAreCurrent' /\ TouchedAreChanged' /\ FreshAreBare'
  BY NextKeepsRest, NextKeepsBare
<1>. QED BY <1>1, <1>2, <1>3, <1>4 DEF RefsInv

LEMMA InitIsRefs == Init => RefsInv
<1> SUFFICES ASSUME Init PROVE RefsInv
  OBVIOUS
<1>1. CallInv /\ WholeInv
  BY InitIsCalls, InitIsWhole
<1>2. EdgeForms /\ OwnEnds
  BY DEF Init, NoJob, EdgeForms, OwnEnds
<1>3. RowsAreRefs /\ CallsUnbound
  BY DEF Init, RowsAreRefs, CallsUnbound, Certified
<1>4. RestAreCurrent /\ TouchedAreChanged /\ FreshAreBare
  BY DEF Init, RestAreCurrent, TouchedAreChanged, FreshAreBare, Extracting
<1>. QED BY <1>1, <1>2, <1>3, <1>4 DEF RefsInv

-----------------------------------------------------------------------------
(* The hops of the files that a run leaves alone, and of those it has resolved. *)

\* The nodes there are once the changed files are written.
Due == IF pc = "write" THEN nodes \cup Extracted ELSE nodes

\* A file that no step of the run is still to extract again.
Settled(f) ==
    /\ digests[f] # NoDigest
    /\ pc = "classify" => Certified(f) /\ f \notin job.importers
    /\ pc \in {"remove", "write", "resolve"} => f \notin job.changed

\* What the run has taken and will give back: by the caller's record, or as captured.
HopOwed(f, s, r) ==
    \/ pc \in {"write", "resolve", "rederive"} /\ f \in job.rederive /\ s.file \in job.changed
    \/ pc \in {"write", "resolve", "rederive", "backfill", "restore"} /\ Hop(f, s, r) \in job.collateral

\* Each call of a file has the hops that its callee's endpoints give, and each hop its
\* call and its end in the caller ...
HopsOf(f) ==
    \A s \in Defs(Symbol) :
        /\ CallEdge(f, s) \in edges => s \in Due
        /\ \A r \in Endpoints :
              /\ Hop(f, s, r) \in edges =>
                    CallEdge(f, s) \in edges /\ EndOf(s, r) \in Due /\ ValueEnd(f, s.name, r) \in nodes
              /\ CallEdge(f, s) \in edges /\ EndOf(s, r) \in Due =>
                    Hop(f, s, r) \in edges \/ HopOwed(f, s, r)

\* ... and each end is of a call.
EndsOf(f) ==
    \A n \in Names \cup {FileName}, r \in Endpoints : ValueEnd(f, n, r) \in nodes =>
        \E s \in Defs(Symbol) : s.name = n /\ CallEdge(f, s) \in edges /\ EndOf(s, r) \in Due

FlowKept == \A f \in Files : Settled(f) => HopsOf(f) /\ EndsOf(f)

\* What is about to be removed behind a call is about to be minted again, and its
\* hops derived again, or it is as it was and the hop to its parameter is captured.
Survival ==
    pc = "remove" =>
        \A f \in Files \ job.changed : digests[f] # NoDigest =>
            \A s \in Defs(Symbol) : CallEdge(f, s) \in edges /\ s.file \in job.changed =>
                /\ s \in Extracted
                /\ \A r \in Endpoints : EndOf(s, r) \in nodes => EndOf(s, r) \in Extracted
                /\ \/ f \in job.rederive
                   \/ /\ \A r \in Endpoints : EndOf(s, r) \in Extracted => EndOf(s, r) \in nodes
                      /\ EndOf(s, "param") \in nodes => Hop(f, s, "param") \in job.collateral

\* The captured hops are of calls of files left alone.
CollateralKept ==
    pc \in {"remove", "write", "resolve", "rederive", "backfill", "restore"} =>
        \A e \in job.collateral : \E f \in Files \ job.changed, s \in Defs(Symbol) :
            /\ e = Hop(f, s, "param") /\ digests[f] # NoDigest
            /\ CallEdge(f, s) \in edges /\ ValueEnd(f, s.name, "param") \in nodes

FlowInv == RefsInv /\ FlowKept /\ Survival /\ CollateralKept

\* Ends of hops in a caller, and what a step keeps of edges of different kinds.
LEMMA ValueEndsDetermine ==
    ASSUME NEW f, NEW g, NEW n, NEW m, NEW r \in Endpoints, NEW q \in Endpoints
    PROVE  /\ ValueEnd(f, n, r) = ValueEnd(g, m, q) => f = g /\ n = m /\ r = q
           /\ ValueEnd(f, n, r).file = f /\ ValueEnd(f, n, r).name = n
           /\ ValueEnd(f, n, r).end \in {"argument", "result"}
  BY DEF ValueEnd, Endpoints

LEMMA EdgesOfKinds ==
    ASSUME NEW f, NEW s, NEW r
    PROVE  /\ CallEdge(f, s).kind = "calls" /\ CallEdge(f, s).from = f /\ CallEdge(f, s).to = s
           /\ Hop(f, s, r).kind = "flows" /\ Hop(f, s, r).from = f /\ Hop(f, s, r).to = EndOf(s, r)
  BY DEF CallEdge, Hop

\* What a pass adds to the hops and to their ends.
LEMMA PassHops ==
    ASSUME StoreTyped, NEW P, NEW E, NEW R, PassOver(P, E, R),
           NEW f \in Files, NEW s \in Defs(Symbol), NEW r \in Endpoints
    PROVE  /\ Hop(f, s, r) \in edges' <=>
                 Hop(f, s, r) \in edges \/ (CallEdge(f, s) \in E /\ EndOf(s, r) \in nodes)
           /\ CallEdge(f, s) \in edges' <=> CallEdge(f, s) \in edges \/ CallEdge(f, s) \in R
           /\ EndOf(s, r) \in nodes' <=> EndOf(s, r) \in nodes
           /\ s \in nodes' <=> s \in nodes
           /\ CallEdge(f, s) \in E => s \in Defs(nodes) /\ \E p \in P : p.file = f /\ p.ref = CallOf(s.name)
<1>1. /\ Hop(f, s, r).kind = "flows" /\ CallEdge(f, s).kind = "calls"
      /\ CallEdge(f, s).from = f /\ CallEdge(f, s).to = s
  BY EdgesOfKinds
<1>2. edges' = edges \cup R \cup CallValueFlow(E, nodes) /\ R \subseteq E
  BY DEF PassOver
<1>3. ASSUME Hop(f, s, r) \in edges', Hop(f, s, r) \notin edges
      PROVE  CallEdge(f, s) \in E /\ EndOf(s, r) \in nodes
  <2>1. \E g \in Files, t \in Defs(Symbol), q \in Endpoints :
           Hop(f, s, r) = Hop(g, t, q) /\ CallEdge(g, t) \in E /\ EndOf(t, q) \in nodes
    BY <1>1, <1>3, PassEdges
  <2>2. PICK g \in Files, t \in Defs(Symbol), q \in Endpoints :
           Hop(f, s, r) = Hop(g, t, q) /\ CallEdge(g, t) \in E /\ EndOf(t, q) \in nodes
    BY <2>1
  <2>3. f = g /\ s = t /\ r = q
    BY <2>2, HopsDetermine
  <2>. QED BY <2>2, <2>3
<1>4. ASSUME CallEdge(f, s) \in E, EndOf(s, r) \in nodes
      PROVE  Hop(f, s, r) \in edges'
  BY <1>2, <1>4, HopsAreFlow
<1>5. ASSUME CallEdge(f, s) \in edges', CallEdge(f, s) \notin edges
      PROVE  CallEdge(f, s) \in R
  <2>1. \A g, t, q : Hop(g, t, q).kind = "flows"
    BY DEF Hop
  <2>. QED BY <1>1, <1>5, <2>1, PassEdges
<1>6. (EndOf(s, r) \in nodes' <=> EndOf(s, r) \in nodes) /\ Defs(nodes') = Defs(nodes) /\ nodes \subseteq nodes'
  BY PassNodes
<1>7. s \in nodes' <=> s \in nodes
  BY <1>6 DEF Defs
<1>8. ASSUME CallEdge(f, s) \in E
      PROVE  s \in Defs(nodes) /\ \E p \in P : p.file = f /\ p.ref = CallOf(s.name)
  <2>1. P \in SUBSET Site /\ nodes \in SUBSET Symbol /\ CallEdge(f, s) \in ResolvedEdges(P, nodes)
    BY <1>8 DEF PassOver, StoreTyped
  <2>2. s \in Defs(nodes) /\ \E p \in P : CallEdge(f, s) = CallEdge(p.file, s) /\ p.ref = CallOf(s.name)
    BY <1>1, <2>1, ResolvedCalls
  <2>3. \A g : CallEdge(g, s).from = g
    BY DEF CallEdge
  <2>. QED BY <1>1, <2>2, <2>3
<1>. QED BY <1>2, <1>3, <1>4, <1>5, <1>6, <1>7, <1>8

LEMMA PassEnds ==
    ASSUME StoreTyped, NEW P, NEW E, NEW R, PassOver(P, E, R),
           NEW f \in Files, NEW n, NEW r \in Endpoints
    PROVE  /\ ValueEnd(f, n, r) \in nodes' /\ ValueEnd(f, n, r) \notin nodes =>
                 \E s \in Defs(Symbol) : s.name = n /\ CallEdge(f, s) \in E /\ EndOf(s, r) \in nodes
           /\ \A s \in Defs(Symbol) : s.name = n /\ CallEdge(f, s) \in E /\ EndOf(s, r) \in nodes =>
                 ValueEnd(f, n, r) \in nodes'
<1>1. /\ nodes' = nodes \cup CallerEnds(CallValueFlow(E, nodes))
      /\ E \in SUBSET Edge /\ FormedCalls(E)
  BY PassIsFormed DEF PassOver, StoreTyped
<1>2. ASSUME ValueEnd(f, n, r) \in nodes', ValueEnd(f, n, r) \notin nodes
      PROVE  \E s \in Defs(Symbol) : s.name = n /\ CallEdge(f, s) \in E /\ EndOf(s, r) \in nodes
  <2>1. PICK h \in CallValueFlow(E, nodes) : ValueEnd(f, n, r) = CallerEnd(h)
    BY <1>1, <1>2 DEF CallerEnds
  <2>2. \E g \in Files, s \in Defs(Symbol), q \in Endpoints :
           h = Hop(g, s, q) /\ CallEdge(g, s) \in E /\ EndOf(s, q) \in nodes
    BY <1>1, FlowIsHops
  <2>3. PICK g \in Files, s \in Defs(Symbol), q \in Endpoints :
           h = Hop(g, s, q) /\ CallEdge(g, s) \in E /\ EndOf(s, q) \in nodes
    BY <2>2
  <2>4. ValueEnd(f, n, r) = ValueEnd(g, s.name, q)
    BY <2>1, <2>3, CallerEndOfHop
  <2>5. f = g /\ n = s.name /\ r = q
    BY <2>4, ValueEndsDetermine
  <2>. QED BY <2>3, <2>5
<1>3. ASSUME NEW s \in Defs(Symbol), s.name = n, CallEdge(f, s) \in E, EndOf(s, r) \in nodes
      PROVE  ValueEnd(f, n, r) \in nodes'
  <2>1. Hop(f, s, r) \in CallValueFlow(E, nodes)
    BY <1>3, HopsAreFlow
  <2>2. CallerEnd(Hop(f, s, r)) \in CallerEnds(CallValueFlow(E, nodes))
    BY <2>1, EdgesOfKinds DEF CallerEnds
  <2>. QED BY <1>1, <1>3, <2>2, CallerEndOfHop
<1>. QED BY <1>2, <1>3

\* A pass keeps a file's flow if it binds no call anew for it but with an edge, and
\* gives back what it no longer owes.
LEMMA PassKeepsFlowOf ==
    ASSUME StoreTyped, NEW P, NEW E, NEW R, PassOver(P, E, R), NEW f \in Files,
           HopsOf(f), EndsOf(f), pc # "write", pc' # "write",
           \A s \in Defs(Symbol) : CallEdge(f, s) \in E => CallEdge(f, s) \in edges',
           \A s \in Defs(Symbol), r \in Endpoints :
              CallEdge(f, s) \in edges /\ EndOf(s, r) \in nodes /\ HopOwed(f, s, r) =>
                 HopOwed(f, s, r)' \/ CallEdge(f, s) \in E
    PROVE  HopsOf(f)' /\ EndsOf(f)'
<1>1. Due = nodes /\ Due' = nodes' /\ nodes \subseteq nodes' /\ R \subseteq E
  BY PassNodes DEF Due, PassOver
<1>2. ASSUME NEW s \in Defs(Symbol), NEW r \in Endpoints
      PROVE  /\ CallEdge(f, s) \in edges' => s \in nodes'
             /\ Hop(f, s, r) \in edges' =>
                   CallEdge(f, s) \in edges' /\ EndOf(s, r) \in nodes' /\ ValueEnd(f, s.name, r) \in nodes'
             /\ CallEdge(f, s) \in edges' /\ EndOf(s, r) \in nodes' =>
                   Hop(f, s, r) \in edges' \/ HopOwed(f, s, r)'
  <2>1. /\ Hop(f, s, r) \in edges' <=>
                 Hop(f, s, r) \in edges \/ (CallEdge(f, s) \in E /\ EndOf(s, r) \in nodes)
        /\ CallEdge(f, s) \in edges' <=> CallEdge(f, s) \in edges \/ CallEdge(f, s) \in R
        /\ EndOf(s, r) \in nodes' <=> EndOf(s, r) \in nodes
        /\ CallEdge(f, s) \in E => s \in nodes
    <3>1. Defs(nodes) \subseteq nodes
      BY DEF Defs
    <3>. QED BY <3>1, PassHops
  <2>2. CallEdge(f, s) \in E /\ EndOf(s, r) \in nodes => ValueEnd(f, s.name, r) \in nodes'
    BY PassEnds
  <2>3. /\ CallEdge(f, s) \in edges => s \in nodes
        /\ Hop(f, s, r) \in edges =>
              CallEdge(f, s) \in edges /\ EndOf(s, r) \in nodes /\ ValueEnd(f, s.name, r) \in nodes
        /\ CallEdge(f, s) \in edges /\ EndOf(s, r) \in nodes =>
              Hop(f, s, r) \in edges \/ HopOwed(f, s, r)
    BY <1>1 DEF HopsOf
  <2>. QED BY <1>1, <2>1, <2>2, <2>3
<1>3. HopsOf(f)'
  <2>1. \E r : r \in Endpoints
    BY DEF Endpoints
  <2>. QED BY <1>1, <1>2, <2>1 DEF HopsOf
<1>4. ASSUME NEW n \in Names \cup {FileName}, NEW r \in Endpoints, ValueEnd(f, n, r) \in nodes'
      PROVE  \E s \in Defs(Symbol) : s.name = n /\ CallEdge(f, s) \in edges' /\ EndOf(s, r) \in nodes'
  <2>1. edges \subseteq edges'
    BY DEF PassOver
  <2>2. CASE ValueEnd(f, n, r) \in nodes
    BY <1>1, <2>1, <2>2 DEF EndsOf
  <2>3. CASE ValueEnd(f, n, r) \notin nodes
    <3>1. \E s \in Defs(Symbol) : s.name = n /\ CallEdge(f, s) \in E /\ EndOf(s, r) \in nodes
      BY <1>4, <2>3, PassEnds
    <3>. QED BY <1>1, <3>1
  <2>. QED BY <2>2, <2>3
<1>. QED BY <1>1, <1>3, <1>4 DEF EndsOf

-----------------------------------------------------------------------------
(* Every step keeps the flow.                                               *)

LEMMA FlowParts ==
    ASSUME FlowInv
    PROVE  /\ RefsInv /\ CallInv /\ ImportInv /\ StoreTyped /\ JobTyped /\ TypeInv /\ RunInv /\ DigestInv
           /\ job.changed \in SUBSET Files /\ disk \in [Files -> AllTexts \cup {Absent}]
           /\ RowsAreRefs /\ CallsUnbound /\ EdgeForms /\ RowsOfIndexed
  BY RefsParts DEF FlowInv, RefsInv, CallInv, WholeInv

\* Between runs, and where a run starts and ends.
LEMMA RestKeepsFlow ==
    ASSUME FlowInv, UNCHANGED <<nodes, edges>>,
           pc \in {"idle", "sweep", "classify", "prune", "finish"}, pc' \in {"idle", "sweep", "prune", "finish"},
           \A f \in Files : digests'[f] # NoDigest =>
              /\ digests[f] # NoDigest
              /\ pc = "classify" => Certified(f) /\ f \notin job.importers
    PROVE  FlowKept' /\ Survival' /\ CollateralKept'
<1>1. Due = nodes /\ Due' = nodes
  BY DEF Due
<1>2. \A f \in Files : Settled(f)' => Settled(f)
  BY DEF Settled
<1>3. \A f, s, r : ~HopOwed(f, s, r) /\ ~HopOwed(f, s, r)'
  BY DEF HopOwed
<1>4. \A f \in Files : Settled(f) => HopsOf(f) /\ EndsOf(f)
  BY DEF FlowInv, FlowKept
<1>5. ASSUME NEW f \in Files, Settled(f)'
      PROVE  HopsOf(f)' /\ EndsOf(f)'
  <2>1. HopsOf(f) /\ EndsOf(f)
    BY <1>2, <1>4, <1>5
  <2>2. HopsOf(f)'
    BY <1>1, <1>3, <2>1 DEF HopsOf
  <2>3. EndsOf(f)'
    BY <1>1, <2>1 DEF EndsOf
  <2>. QED BY <2>2, <2>3
<1>. QED BY <1>5 DEF FlowKept, Survival, CollateralKept

LEMMA IdleKeepsFlow ==
    ASSUME FlowInv, UNCHANGED vars
    PROVE  FlowKept' /\ Survival' /\ CollateralKept'
<1>1. UNCHANGED <<nodes, edges, parked, digests, disk, pc, job>>
  BY DEF vars, store, world
<1>2. Extracted' = Extracted
  BY <1>1 DEF Extracted
<1>3. Due' = Due /\ \A f, s, r : HopOwed(f, s, r)' <=> HopOwed(f, s, r)
  BY <1>1, <1>2 DEF Due, HopOwed
<1>4. \A f : (Settled(f)' <=> Settled(f)) /\ (HopsOf(f)' <=> HopsOf(f)) /\ (EndsOf(f)' <=> EndsOf(f))
  BY <1>1, <1>3 DEF Settled, HopsOf, EndsOf, Certified
<1>5. FlowKept'
  BY <1>4 DEF FlowInv, FlowKept
<1>6. Survival' /\ CollateralKept'
  BY <1>1, <1>2 DEF FlowInv, Survival, CollateralKept
<1>. QED BY <1>5, <1>6

\* Removing files keeps the flow of a file that stays, and calls none of them.
LEMMA RemovalKeepsFlowOf ==
    ASSUME NEW F, RemoveFiles(F), NEW f \in Files, f \notin F, pc # "write", pc' # "write",
           HopsOf(f), EndsOf(f), \A s, r : ~HopOwed(f, s, r),
           \A s \in Defs(Symbol) : CallEdge(f, s) \in edges => s.file \notin F
    PROVE  HopsOf(f)' /\ EndsOf(f)'
<1>1. Due = nodes /\ Due' = nodes'
  BY DEF Due
<1>2. ASSUME NEW s \in Defs(Symbol), NEW r \in Endpoints
      PROVE  /\ CallEdge(f, s) \in edges' <=> CallEdge(f, s) \in edges
             /\ Hop(f, s, r) \in edges' => Hop(f, s, r) \in edges
             /\ Hop(f, s, r) \in edges /\ s.file \notin F => Hop(f, s, r) \in edges'
             /\ nodes' \subseteq nodes
             /\ EndOf(s, r) \in nodes /\ s.file \notin F => EndOf(s, r) \in nodes'
             /\ s \in nodes /\ s.file \notin F => s \in nodes'
  <2>1. s.end = "itself" /\ EndOf(s, r).file = s.file
    BY DefsAreSymbols, EndsAreSymbols
  <2>2. CallEdge(f, s).from = f /\ CallEdge(f, s).to = s /\ Hop(f, s, r).from = f /\ Hop(f, s, r).to = EndOf(s, r)
    BY EdgesOfKinds
  <2>3. \A e : e \in edges' <=> e \in edges /\ e.from \notin F /\ (e.to.end = "param" => e.to.file \notin F)
    BY DEF RemoveFiles, EdgesWithout
  <2>4. CallEdge(f, s) \in edges' <=> CallEdge(f, s) \in edges
    BY <2>1, <2>2, <2>3
  <2>5. \A x : x \in nodes' <=> x \in nodes /\ x.file \notin F
    BY DEF RemoveFiles, NodesWithout
  <2>. QED BY <2>1, <2>2, <2>3, <2>4, <2>5
<1>3. \A n, r : ValueEnd(f, n, r) \in nodes' <=> ValueEnd(f, n, r) \in nodes
  <2>1. \A n, r : ValueEnd(f, n, r).file = f
    BY DEF ValueEnd
  <2>. QED BY <2>1 DEF RemoveFiles, NodesWithout
<1>4. HopsOf(f)'
  <2> SUFFICES ASSUME NEW s \in Defs(Symbol), NEW r \in Endpoints
               PROVE  /\ CallEdge(f, s) \in edges' => s \in nodes'
                      /\ Hop(f, s, r) \in edges' =>
                            CallEdge(f, s) \in edges' /\ EndOf(s, r) \in nodes' /\ ValueEnd(f, s.name, r) \in nodes'
                      /\ CallEdge(f, s) \in edges' /\ EndOf(s, r) \in nodes' =>
                            Hop(f, s, r) \in edges'
    <3>1. "param" \in Endpoints
      BY DEF Endpoints
    <3>. QED BY <1>1, <3>1 DEF HopsOf
  <2>1. /\ CallEdge(f, s) \in edges => s \in nodes
        /\ Hop(f, s, r) \in edges =>
              CallEdge(f, s) \in edges /\ EndOf(s, r) \in nodes /\ ValueEnd(f, s.name, r) \in nodes
        /\ CallEdge(f, s) \in edges /\ EndOf(s, r) \in nodes => Hop(f, s, r) \in edges
    BY <1>1 DEF HopsOf
  <2>. QED BY <1>2, <1>3, <2>1
<1>5. EndsOf(f)'
  <2> SUFFICES ASSUME NEW n \in Names \cup {FileName}, NEW r \in Endpoints, ValueEnd(f, n, r) \in nodes'
               PROVE  \E s \in Defs(Symbol) : s.name = n /\ CallEdge(f, s) \in edges' /\ EndOf(s, r) \in nodes'
    BY <1>1 DEF EndsOf
  <2>1. \E s \in Defs(Symbol) : s.name = n /\ CallEdge(f, s) \in edges /\ EndOf(s, r) \in nodes
    BY <1>1, <1>3 DEF EndsOf
  <2>. QED BY <1>2, <2>1
<1>. QED BY <1>4, <1>5

LEMMA SweepKeepsFlow ==
    ASSUME CallersImport, FlowInv, Sweep
    PROVE  FlowKept' /\ Survival' /\ CollateralKept'
<1> DEFINE deleted == Indexed \ Present
<1>1. /\ pc = "sweep" /\ pc' = "classify" /\ RemoveFiles(deleted)
      /\ job' = [job EXCEPT !.importers = Importers(deleted)]
      /\ JobTyped /\ StoreTyped /\ RowsAreRefs /\ CallInv
  BY FlowParts DEF Sweep
<1>2. \A f \in Files : digests'[f] = IF f \in deleted THEN NoDigest ELSE digests[f]
  BY <1>1 DEF RemoveFiles, DigestsWithout
<1>3. job'.importers = Importers(deleted)
  BY <1>1 DEF JobTyped
<1>4. \A f, s, r : ~HopOwed(f, s, r)
  BY <1>1 DEF HopOwed
<1>5. ASSUME NEW f \in Files, Settled(f)'
      PROVE  HopsOf(f)' /\ EndsOf(f)'
  <2>1. /\ f \notin deleted /\ digests'[f] = digests[f] /\ Certified(f)
        /\ f \notin Importers(deleted) /\ Settled(f)
    BY <1>1, <1>2, <1>3, <1>5 DEF Settled, Certified
  <2>2. f \in Present
    BY <2>1 DEF Indexed, Certified
  <2>3. HopsOf(f) /\ EndsOf(f)
    BY <2>1 DEF FlowInv, FlowKept
  <2>4. ASSUME NEW s \in Defs(Symbol), CallEdge(f, s) \in edges
        PROVE  s.file \notin deleted
    <3>1. s \in nodes
      BY <1>1, <2>3, <2>4 DEF HopsOf, Due
    <3>2. s \in Defs(nodes)
      BY <3>1 DEF Defs
    <3>3. CallOf(s.name) \in RefsOf(digests[f])
      BY <1>1, <2>1, <2>4 DEF RowsAreRefs
    <3>4. ~IsImport(CallOf(s.name)) /\ CallOf(s.name).to = s.name
      BY DEF CallOf, IsImport
    <3>. QED BY <1>1, <2>1, <2>2, <3>2, <3>3, <3>4, CallersImport, CalleeIsImported
  <2> HIDE DEF deleted
  <2>. QED BY <1>1, <1>4, <2>1, <2>3, <2>4, RemovalKeepsFlowOf
<1>. QED BY <1>1, <1>5 DEF FlowKept, Survival, CollateralKept

\* What extraction of the changed files will mint of a definition there, whatever it
\* was that the run found of it.
LEMMA RemintedEnds ==
    ASSUME FlowInv, pc = "classify", NEW s \in Defs(Symbol), s.file \in Seed \cup ForcedCallers,
           NEW r \in Endpoints
    PROVE  /\ disk[s.file] \in Texts[s.file] /\ disk[s.file] \in AllTexts
           /\ EndOf(s, r) \in UNION {Mint(g, disk[g]) : g \in Seed \cup ForcedCallers} <=>
                 EndOf(s, r) \in Mint(s.file, disk[s.file])
           /\ s \in UNION {Mint(g, disk[g]) : g \in Seed \cup ForcedCallers} <=>
                 s \in Mint(s.file, disk[s.file])
<1>1. \A g \in Seed \cup ForcedCallers : g \in Files /\ disk[g] \in AllTexts /\ disk[g] \in Texts[g]
  <2>1. Seed \cup ForcedCallers \subseteq Present
    BY FlowParts, ClassifiedIsTyped
  <2>. QED BY <2>1, FlowParts, PresentAreTexts DEF CallInv, OwnTexts, Present
<1>2. \A g \in Seed \cup ForcedCallers :
         /\ EndOf(s, r) \in Mint(g, disk[g]) => s.file = g
         /\ s \in Mint(g, disk[g]) => s.file = g
  <2> SUFFICES ASSUME NEW g \in Seed \cup ForcedCallers
               PROVE  /\ EndOf(s, r) \in Mint(g, disk[g]) => s.file = g
                      /\ s \in Mint(g, disk[g]) => s.file = g
    OBVIOUS
  <2>1. g \in Files /\ disk[g] \in AllTexts
    BY <1>1
  <2>2. \A x \in Mint(g, disk[g]) : x.file = g
    BY <2>1, MintIsOwn
  <2>. QED BY <2>2, EndsAreSymbols
<1>. QED BY <1>1, <1>2

\* A caller left alone of a definition in the seed: its record is replayed, and the
\* definition keeps its endpoints.
LEMMA SeedSurvives ==
    ASSUME ParamsStay, FlowInv, pc = "classify", NEW f \in Files, digests[f] # NoDigest,
           f \notin Seed \cup ForcedCallers, NEW s \in Defs(nodes), CallEdge(f, s) \in edges, s.file \in Seed
    PROVE  /\ f \in RederivedCallers
           /\ \A r \in Endpoints : EndOf(s, r) \in nodes =>
                 EndOf(s, r) \in UNION {Mint(g, disk[g]) : g \in Seed \cup ForcedCallers}
<1> DEFINE after == UNION {Mint(g, disk[g]) : g \in Seed \cup ForcedCallers}
<1>1. f \in Present /\ ~job.force /\ StoreTyped
  BY FlowParts, RestIsCurrent
<1>2. s \in Touched /\ s \in Defs(Symbol)
  BY <1>1, DefsAreIn DEF Touched, Defs, StoreTyped
<1>3. f \in Callers
  <2>1. /\ CallEdge(f, s).kind = "calls" /\ CallEdge(f, s).from = f /\ CallEdge(f, s).to = s
    BY EdgesOfKinds
  <2>. QED BY <1>1, <1>2, <2>1 DEF Callers
<1>4. f \in RederivedCallers /\ ReplayIsExact
  BY <1>3 DEF RederivedCallers, ForcedCallers
<1>5. s \in after
  BY <1>1, FlowParts, CalleeIsReminted
<1>6. ASSUME NEW r \in Endpoints, EndOf(s, r) \in nodes
      PROVE  EndOf(s, r) \in after
  <2>1. EndOf(s, r).file = s.file /\ EndOf(s, r).end = r
    BY <1>2, EndsAreSymbols
  <2>2. CASE r = "return"
    <3>1. EndOf(s, r) \in Returns(Touched)
      BY <1>6, <2>1, <2>2 DEF Returns, Touched
    <3>2. EndOf(s, r) \in UNION {Mint(g, disk[g]) : g \in Seed}
      BY <1>4, <3>1 DEF ReplayIsExact, Returns
    <3>. QED BY <3>2
  <2>3. CASE r = "param"
    <3>1. PICK u \in Texts[s.file] : [name |-> s.name, end |-> "param"] \in u.ends
      BY <1>2, <1>6, <2>3, FlowParts DEF RefsInv, OwnEnds, EndIsOwn
    <3>2. s.file \in Files /\ u \in AllTexts
      BY <1>2, DefsAreSymbols DEF AllTexts
    <3>3. s.name \in u.defs
      BY <1>2, <1>6, <2>3, <3>1, <3>2, MintedEnds
    <3>4. /\ disk[s.file] \in Texts[s.file] /\ disk[s.file] \in AllTexts
          /\ s \in Mint(s.file, disk[s.file])
      BY <1>2, <1>5, <1>6, RemintedEnds
    <3>5. s.name \in disk[s.file].defs /\ ~disk[s.file].opaque
      <4>1. s.file \in Files /\ disk[s.file] \in AllTexts /\ s \in Defs(Symbol) /\ r \in Endpoints
        BY <1>2, <1>6, <3>2, <3>4
      <4>2. s \in Mint(s.file, disk[s.file]) <=>
               ~disk[s.file].opaque /\ s.file = s.file /\ s.name \in disk[s.file].defs
        BY <4>1, MintedEnds, ZenonT(40)
      <4>. QED BY <3>4, <4>2
    <3>6. [name |-> s.name, end |-> "param"] \in disk[s.file].ends
      BY <3>1, <3>2, <3>3, <3>4, <3>5 DEF ParamsStay
    <3>7. EndOf(s, r) \in Mint(s.file, disk[s.file])
      BY <1>2, <1>6, <2>3, <3>2, <3>4, <3>5, <3>6, MintedEnds
    <3>. QED BY <3>7
  <2>. QED BY <2>2, <2>3 DEF Endpoints
<1>. QED BY <1>4, <1>6

\* A caller left alone of a definition whose file is extracted only for its callees:
\* the definition is minted as it was, and the hop to its parameter is captured.
LEMMA ForcedSurvives ==
    ASSUME FlowInv, pc = "classify", NEW f \in Files, digests[f] # NoDigest,
           f \notin Seed \cup ForcedCallers, NEW s \in Defs(nodes), CallEdge(f, s) \in edges,
           s.file \in ForcedCallers \ Seed
    PROVE  /\ \A r \in Endpoints :
                 EndOf(s, r) \in nodes <=>
                    EndOf(s, r) \in UNION {Mint(g, disk[g]) : g \in Seed \cup ForcedCallers}
           /\ EndOf(s, "param") \in nodes => Hop(f, s, "param") \in Collateral
<1>1. /\ f \in Present /\ ~job.force /\ StoreTyped /\ Certified(f) /\ f \notin job.importers
  BY FlowParts, RestIsCurrent
<1>2. s \in Defs(Symbol) /\ s \in nodes
  BY <1>1, DefsAreIn DEF StoreTyped, Defs
<1>3. s.file \in Files /\ s.file \in Present
  BY <1>2, DefsAreSymbols, FlowParts, ClassifiedIsTyped
<1>4. digests[s.file] = disk[s.file] /\ Certified(s.file)
  <2>1. digests[s.file] # NoDigest
    BY <1>2, <1>3, FlowParts DEF DigestInv, DigestCertifiesNodes
  <2>. QED BY <1>3, <2>1, FlowParts, RestIsCurrent
<1>5. ASSUME NEW r \in Endpoints
      PROVE  EndOf(s, r) \in nodes <=>
                EndOf(s, r) \in UNION {Mint(g, disk[g]) : g \in Seed \cup ForcedCallers}
  <2>1. /\ EndOf(s, r) \in Symbol /\ EndOf(s, r).file = s.file
        /\ EndOf(s, r).end \notin {"argument", "result"}
    BY <1>2, EndsAreSymbols DEF Endpoints
  <2>2. EndOf(s, r) \in nodes <=> EndOf(s, r) \in Mint(s.file, disk[s.file])
    BY <1>3, <1>4, <2>1, FlowParts, CertifiedMintsItsNodes
  <2>. QED BY <1>2, <2>2, RemintedEnds
<1>6. ASSUME EndOf(s, "param") \in nodes
      PROVE  Hop(f, s, "param") \in Collateral
  <2>1. "param" \in Endpoints
    BY DEF Endpoints
  <2>2. Settled(f) /\ ~HopOwed(f, s, "param") /\ Due = nodes
    BY <1>1 DEF Settled, HopOwed, Due
  <2>3. HopsOf(f)
    BY <2>2 DEF FlowInv, FlowKept
  <2>4. Hop(f, s, "param") \in edges
    BY <1>2, <1>6, <2>1, <2>2, <2>3 DEF HopsOf
  <2>5. EndOf(s, "param").end = "param" /\ EndOf(s, "param").file = s.file
    BY <1>2, <2>1, EndsAreSymbols
  <2>6. /\ Hop(f, s, "param").kind = "flows" /\ Hop(f, s, "param").from = f
        /\ Hop(f, s, "param").to = EndOf(s, "param")
    BY EdgesOfKinds
  <2>. QED BY <1>1, <2>4, <2>5, <2>6 DEF Collateral
<1>. QED BY <1>5, <1>6

LEMMA ClassifyKeepsFlow ==
    ASSUME ParamsStay, FlowInv, Classify, Seed \cup ForcedCallers # {}
    PROVE  FlowKept' /\ Survival' /\ CollateralKept'
<1> DEFINE changed == Seed \cup ForcedCallers
<1>1. /\ pc = "classify" /\ pc' = "remove"
      /\ UNCHANGED <<nodes, edges, parked, digests, disk>>
      /\ job'.changed = changed /\ job'.rederive = RederivedCallers /\ job'.collateral = Collateral
  BY FlowParts, ClassifyClassifies DEF Classified
<1>2. Extracted' = UNION {Mint(g, disk[g]) : g \in changed}
  BY <1>1 DEF Extracted
<1>3. Due = nodes /\ Due' = nodes /\ \A f, s, r : ~HopOwed(f, s, r)
  BY <1>1 DEF Due, HopOwed
<1>4. ASSUME NEW f \in Files, digests[f] # NoDigest, f \notin changed
      PROVE  HopsOf(f) /\ EndsOf(f) /\ f \in Present
  <2>1. Certified(f) /\ f \notin job.importers /\ f \in Present
    BY <1>1, <1>4, FlowParts, RestIsCurrent
  <2>2. Settled(f)
    BY <1>1, <1>4, <2>1 DEF Settled
  <2>. QED BY <2>1, <2>2 DEF FlowInv, FlowKept
<1>5. FlowKept'
  <2> SUFFICES ASSUME NEW f \in Files, Settled(f)' PROVE HopsOf(f)' /\ EndsOf(f)'
    BY DEF FlowKept
  <2>1. digests[f] # NoDigest /\ f \notin changed
    BY <1>1 DEF Settled
  <2>2. HopsOf(f) /\ EndsOf(f)
    BY <1>4, <2>1
  <2>3. HopsOf(f)'
    BY <1>1, <1>3, <2>2 DEF HopsOf
  <2>. QED BY <1>1, <1>3, <2>2, <2>3 DEF EndsOf
<1>6. Survival'
  <2> SUFFICES ASSUME NEW f \in Files \ changed, digests[f] # NoDigest,
                      NEW s \in Defs(Symbol), CallEdge(f, s) \in edges, s.file \in changed
               PROVE  /\ s \in Extracted'
                      /\ \A r \in Endpoints : EndOf(s, r) \in nodes => EndOf(s, r) \in Extracted'
                      /\ \/ f \in RederivedCallers
                         \/ /\ \A r \in Endpoints : EndOf(s, r) \in Extracted' => EndOf(s, r) \in nodes
                            /\ EndOf(s, "param") \in nodes => Hop(f, s, "param") \in Collateral
    BY <1>1 DEF Survival
  <2>1. HopsOf(f) /\ f \in Present
    BY <1>4
  <2>2. s \in nodes
    BY <1>3, <2>1 DEF HopsOf
  <2>3. s \in Defs(nodes)
    BY <2>2 DEF Defs
  <2>4. s \in Extracted'
    BY <1>1, <1>2, <2>1, <2>3, FlowParts, CalleeIsReminted
  <2>5. CASE s.file \in Seed
    BY <1>1, <1>2, <2>3, <2>4, <2>5, ParamsStay, SeedSurvives
  <2>6. CASE s.file \in ForcedCallers \ Seed
    BY <1>1, <1>2, <2>3, <2>4, <2>6, ForcedSurvives
  <2>. QED BY <2>5, <2>6
<1>7. CollateralKept'
  <2> SUFFICES ASSUME NEW e \in Collateral
               PROVE  \E f \in Files \ changed, s \in Defs(Symbol) :
                         /\ e = Hop(f, s, "param") /\ digests[f] # NoDigest
                         /\ CallEdge(f, s) \in edges /\ ValueEnd(f, s.name, "param") \in nodes
    BY <1>1 DEF CollateralKept
  <2>1. e \in edges /\ e.kind = "flows" /\ e.to.end = "param" /\ e.from \notin changed
    BY DEF Collateral
  <2>2. e \in Edge /\ digests[e.from] # NoDigest
    BY <2>1, FlowParts DEF StoreTyped, RowsOfIndexed
  <2>3. PICK s \in Defs(Symbol), r \in Endpoints : e.to = EndOf(s, r)
    BY <2>1, FlowParts DEF EdgeForms
  <2>4. r = "param"
    BY <2>1, <2>3, EndsAreSymbols
  <2>5. e.from \in Files /\ e = Hop(e.from, s, "param")
    BY <2>1, <2>2, <2>3, <2>4 DEF Edge, Hop
  <2>6. HopsOf(e.from)
    BY <1>4, <2>1, <2>2, <2>5
  <2>7. CallEdge(e.from, s) \in edges /\ ValueEnd(e.from, s.name, "param") \in nodes
    BY <2>1, <2>4, <2>5, <2>6 DEF HopsOf
  <2>. QED BY <2>1, <2>2, <2>5, <2>7
<1>. QED BY <1>5, <1>6, <1>7

\* The captured hops stay of calls of files left alone.
LEMMA CapturedStay ==
    ASSUME FlowInv, job' = job, pc \in {"remove", "write", "resolve", "rederive", "backfill"},
           \A f \in Files \ job.changed : digests[f] # NoDigest =>
              /\ digests'[f] # NoDigest
              /\ \A s \in Defs(Symbol) : CallEdge(f, s) \in edges => CallEdge(f, s) \in edges'
              /\ \A n : ValueEnd(f, n, "param") \in nodes => ValueEnd(f, n, "param") \in nodes'
    PROVE  CollateralKept'
<1> SUFFICES ASSUME NEW e \in job.collateral
             PROVE  \E f \in Files \ job.changed, s \in Defs(Symbol) :
                       /\ e = Hop(f, s, "param") /\ digests'[f] # NoDigest
                       /\ CallEdge(f, s) \in edges' /\ ValueEnd(f, s.name, "param") \in nodes'
  BY DEF CollateralKept
<1>1. \E f \in Files \ job.changed, s \in Defs(Symbol) :
         /\ e = Hop(f, s, "param") /\ digests[f] # NoDigest
         /\ CallEdge(f, s) \in edges /\ ValueEnd(f, s.name, "param") \in nodes
  BY DEF FlowInv, CollateralKept
<1>. QED BY <1>1

LEMMA RemoveKeepsFlow ==
    ASSUME FlowInv, Remove
    PROVE  FlowKept' /\ Survival' /\ CollateralKept'
<1>1. /\ pc = "remove" /\ pc' = "write" /\ RemoveFiles(job.changed) /\ job' = job /\ disk' = disk
      /\ job.changed \in SUBSET Files
  BY FlowParts DEF Remove, world
<1>2. /\ edges' \subseteq edges /\ nodes' \subseteq nodes
      /\ \A x \in nodes' : x.file \notin job.changed
      /\ \A x \in nodes : x.file \notin job.changed => x \in nodes'
      /\ \A f \in Files : digests'[f] = IF f \in job.changed THEN NoDigest ELSE digests[f]
  BY <1>1, RemovalIsOfFiles
<1>3. \A e : e \in edges' <=> e \in edges /\ e.from \notin job.changed
                                          /\ (e.to.end = "param" => e.to.file \notin job.changed)
  BY <1>1 DEF RemoveFiles, EdgesWithout
<1>4. Extracted' = Extracted
  BY <1>1 DEF Extracted
<1>5. Due = nodes /\ Due' = nodes' \cup Extracted /\ \A f, s, r : ~HopOwed(f, s, r)
  BY <1>1, <1>4 DEF Due, HopOwed
\* What becomes of a call of a file that stays, and of a hop.
<1>6. ASSUME NEW f \in Files, f \notin job.changed, NEW s \in Defs(Symbol), NEW r \in Endpoints
      PROVE  /\ CallEdge(f, s) \in edges' <=> CallEdge(f, s) \in edges
             /\ Hop(f, s, r) \in edges' <=>
                   Hop(f, s, r) \in edges /\ (r = "param" => s.file \notin job.changed)
             /\ EndOf(s, r) \in nodes' <=> EndOf(s, r) \in nodes /\ s.file \notin job.changed
             /\ s \in nodes' <=> s \in nodes /\ s.file \notin job.changed
             /\ EndOf(s, r) \in Extracted => s.file \in job.changed
             /\ \A n : ValueEnd(f, n, r) \in nodes' <=> ValueEnd(f, n, r) \in nodes
  <2>1. s.end = "itself" /\ EndOf(s, r).file = s.file /\ EndOf(s, r).end = r
    BY DefsAreSymbols, EndsAreSymbols
  <2>2. CallEdge(f, s).from = f /\ CallEdge(f, s).to = s /\ Hop(f, s, r).from = f /\ Hop(f, s, r).to = EndOf(s, r)
    BY EdgesOfKinds
  <2>3. EndOf(s, r) \in Extracted => s.file \in job.changed
    BY <1>1, FlowParts, ExtractedEnds DEF Extracting
  <2>4. \A n : ValueEnd(f, n, r).file = f
    BY DEF ValueEnd
  <2>5. CallEdge(f, s) \in edges' <=> CallEdge(f, s) \in edges
    BY <1>3, <1>6, <2>1, <2>2
  <2>6. Hop(f, s, r) \in edges' <=> Hop(f, s, r) \in edges /\ (r = "param" => s.file \notin job.changed)
    BY <1>3, <1>6, <2>1, <2>2
  <2>7. \A x : x \in nodes' <=> x \in nodes /\ x.file \notin job.changed
    BY <1>2
  <2>. QED BY <1>6, <2>1, <2>3, <2>4, <2>5, <2>6, <2>7
<1>7. ASSUME NEW f \in Files, Settled(f)'
      PROVE  HopsOf(f)' /\ EndsOf(f)'
  <2>1. f \notin job.changed /\ digests[f] # NoDigest /\ digests'[f] = digests[f] /\ Settled(f)
    BY <1>1, <1>2, <1>7 DEF Settled
  <2>2. HopsOf(f) /\ EndsOf(f)
    BY <2>1 DEF FlowInv, FlowKept
  <2>3. ASSUME NEW s \in Defs(Symbol), CallEdge(f, s) \in edges
        PROVE  /\ s \in nodes
               /\ s.file \in job.changed =>
                     /\ s \in Extracted
                     /\ \A r \in Endpoints : EndOf(s, r) \in nodes => EndOf(s, r) \in Extracted
                     /\ \/ f \in job.rederive
                        \/ /\ \A r \in Endpoints : EndOf(s, r) \in Extracted => EndOf(s, r) \in nodes
                           /\ EndOf(s, "param") \in nodes => Hop(f, s, "param") \in job.collateral
    BY <1>1, <1>5, <2>1, <2>2, <2>3 DEF HopsOf, FlowInv, Survival
  <2>4. ASSUME NEW s \in Defs(Symbol), NEW r \in Endpoints
        PROVE  /\ CallEdge(f, s) \in edges' => s \in nodes' \cup Extracted
               /\ Hop(f, s, r) \in edges' =>
                     /\ CallEdge(f, s) \in edges' /\ EndOf(s, r) \in nodes' \cup Extracted
                     /\ ValueEnd(f, s.name, r) \in nodes'
               /\ CallEdge(f, s) \in edges' /\ EndOf(s, r) \in nodes' \cup Extracted =>
                     Hop(f, s, r) \in edges' \/ HopOwed(f, s, r)'
    <3>1. /\ CallEdge(f, s) \in edges' <=> CallEdge(f, s) \in edges
          /\ Hop(f, s, r) \in edges' <=>
                Hop(f, s, r) \in edges /\ (r = "param" => s.file \notin job.changed)
          /\ EndOf(s, r) \in nodes' <=> EndOf(s, r) \in nodes /\ s.file \notin job.changed
          /\ s \in nodes' <=> s \in nodes /\ s.file \notin job.changed
          /\ EndOf(s, r) \in Extracted => s.file \in job.changed
          /\ ValueEnd(f, s.name, r) \in nodes' <=> ValueEnd(f, s.name, r) \in nodes
      BY <1>6, <2>1
    <3>2. /\ Hop(f, s, r) \in edges =>
                CallEdge(f, s) \in edges /\ EndOf(s, r) \in nodes /\ ValueEnd(f, s.name, r) \in nodes
          /\ CallEdge(f, s) \in edges /\ EndOf(s, r) \in nodes => Hop(f, s, r) \in edges
      BY <1>5, <2>2 DEF HopsOf
    <3>3. HopOwed(f, s, r)' <=> \/ f \in job.rederive /\ s.file \in job.changed
                                \/ Hop(f, s, r) \in job.collateral
      BY <1>1 DEF HopOwed
    <3>4. r = "param" \/ r = "return"
      BY DEF Endpoints
    <3>5. CASE s.file \in job.changed
      BY <2>3, <3>1, <3>2, <3>3, <3>4, <3>5
    <3>6. CASE s.file \notin job.changed
      BY <2>3, <3>1, <3>2, <3>6
    <3>. QED BY <3>5, <3>6
  <2>5. HopsOf(f)'
    <3>1. "param" \in Endpoints
      BY DEF Endpoints
    <3>. QED BY <1>5, <2>4, <3>1 DEF HopsOf
  <2>6. ASSUME NEW n \in Names \cup {FileName}, NEW r \in Endpoints, ValueEnd(f, n, r) \in nodes'
        PROVE  \E s \in Defs(Symbol) : s.name = n /\ CallEdge(f, s) \in edges' /\ EndOf(s, r) \in nodes' \cup Extracted
    <3>1. \E s : s \in Defs(Symbol) /\ s.name = n /\ CallEdge(f, s) \in edges /\ EndOf(s, r) \in nodes
      BY <1>2, <1>5, <2>2, <2>6 DEF EndsOf
    <3>2. PICK s : s \in Defs(Symbol) /\ s.name = n /\ CallEdge(f, s) \in edges /\ EndOf(s, r) \in nodes
      BY <3>1
    <3>3. CallEdge(f, s) \in edges' /\ EndOf(s, r) \in nodes' \cup Extracted
      BY <1>6, <2>1, <2>3, <2>6, <3>2
    <3>. QED BY <3>2, <3>3
  <2>. QED BY <1>5, <2>5, <2>6 DEF EndsOf
<1>8. CollateralKept'
  <2>1. "param" \in Endpoints
    BY DEF Endpoints
  <2>2. ASSUME NEW f \in Files \ job.changed, digests[f] # NoDigest
        PROVE  /\ digests'[f] # NoDigest
               /\ \A s \in Defs(Symbol) : CallEdge(f, s) \in edges => CallEdge(f, s) \in edges'
               /\ \A n : ValueEnd(f, n, "param") \in nodes => ValueEnd(f, n, "param") \in nodes'
    <3>1. digests'[f] # NoDigest
      BY <1>2, <2>2
    <3>2. \A s \in Defs(Symbol) : CallEdge(f, s) \in edges => CallEdge(f, s) \in edges'
      BY <1>6, <2>1
    <3>3. \A n : ValueEnd(f, n, "param").file = f
      BY DEF ValueEnd
    <3>. QED BY <1>2, <3>1, <3>2, <3>3
  <2>. QED BY <1>1, <2>2, CapturedStay
<1>. QED BY <1>1, <1>7, <1>8 DEF FlowKept, Survival

LEMMA WriteKeepsFlow ==
    ASSUME FlowInv, Write
    PROVE  FlowKept' /\ Survival' /\ CollateralKept'
<1>1. /\ pc = "write" /\ pc' = "resolve" /\ job' = job /\ UNCHANGED <<edges, disk>>
      /\ nodes' = nodes \cup Extracted /\ job.changed \in SUBSET Files
      /\ \A f \in Files : f \notin job.changed => digests'[f] = digests[f]
  BY FlowParts DEF Write, world
<1>2. Due' = Due /\ Due = nodes' /\ \A f, s, r : HopOwed(f, s, r) => HopOwed(f, s, r)'
  BY <1>1 DEF Due, HopOwed
<1>3. \A x \in Extracted : x.end \notin {"argument", "result"}
  <2>1. \A g \in job.changed : \A x \in Mint(g, disk[g]) : x.end \notin {"argument", "result"}
    BY <1>1, FlowParts, PresentAreTexts, MintIsOwn DEF TypeInv, ChangedArePresent, Extracting
  <2>. QED BY <2>1 DEF Extracted
<1>4. \A f, n, r : ValueEnd(f, n, r) \in nodes' <=> ValueEnd(f, n, r) \in nodes
  <2>1. \A f, n, r : ValueEnd(f, n, r).end \in {"argument", "result"}
    BY DEF ValueEnd
  <2>. QED BY <1>1, <1>3, <2>1
<1>5. ASSUME NEW f \in Files, Settled(f)'
      PROVE  HopsOf(f)' /\ EndsOf(f)'
  <2>1. Settled(f)
    BY <1>1, <1>5 DEF Settled
  <2>2. HopsOf(f) /\ EndsOf(f)
    BY <2>1 DEF FlowInv, FlowKept
  <2>3. HopsOf(f)'
    BY <1>1, <1>2, <1>4, <2>2 DEF HopsOf
  <2>. QED BY <1>1, <1>2, <1>4, <2>2, <2>3 DEF EndsOf
<1>6. CollateralKept'
  BY <1>1, <1>4, CapturedStay
<1>. QED BY <1>1, <1>5, <1>6 DEF FlowKept, Survival

\* A pass keeps what is captured.
LEMMA PassKeepsCaptured ==
    ASSUME FlowInv, pc \in {"resolve", "rederive", "backfill"}, NEW P, NEW E, NEW R, PassOver(P, E, R)
    PROVE  CollateralKept'
<1>1. edges \subseteq edges' /\ nodes \subseteq nodes' /\ job' = job /\ digests' = digests
  BY DEF PassOver
<1>. QED BY <1>1, CapturedStay

LEMMA ResolveKeepsFlow ==
    ASSUME FlowInv, Resolve
    PROVE  FlowKept' /\ Survival' /\ CollateralKept'
<1> DEFINE P == Sites(job.changed)
           E == ResolvedEdges(P, nodes)
<1>1. /\ PassOver(P, E, E) /\ StoreTyped /\ FreshAreBare
      /\ pc = "resolve" /\ pc' = "rederive" /\ job' = job /\ digests' = digests
  BY FlowParts, ResolvePasses DEF PassOver, FlowInv, RefsInv
<1> HIDE DEF P, E
<1>2. Due = nodes
  BY <1>1 DEF Due
<1>3. ASSUME NEW f \in Files, Settled(f)'
      PROVE  HopsOf(f)' /\ EndsOf(f)'
  <2>1. HopsOf(f) /\ EndsOf(f)
    <3>1. CASE f \in job.changed
      <4>1. /\ \A e \in edges : e.from # f
            /\ \A s \in nodes : s.file = f => s.end \notin {"argument", "result"}
        BY <1>1, <3>1 DEF FreshAreBare
      <4>2. \A s, r : CallEdge(f, s) \notin edges /\ Hop(f, s, r) \notin edges
        BY <4>1, EdgesOfKinds
      <4>3. \A n, r : ValueEnd(f, n, r).file = f /\ ValueEnd(f, n, r).end \in {"argument", "result"}
        BY DEF ValueEnd
      <4>. QED BY <4>1, <4>2, <4>3 DEF HopsOf, EndsOf
    <3>2. CASE f \notin job.changed
      <4>1. Settled(f)
        BY <1>1, <1>3, <3>2 DEF Settled
      <4>. QED BY <4>1 DEF FlowInv, FlowKept
    <3>. QED BY <3>1, <3>2
  <2>2. \A s \in Defs(Symbol) : CallEdge(f, s) \in E => CallEdge(f, s) \in edges'
    BY <1>1 DEF PassOver
  <2>3. \A s, r : HopOwed(f, s, r) => HopOwed(f, s, r)'
    BY <1>1 DEF HopOwed
  <2>. QED BY <1>1, <2>1, <2>2, <2>3, PassKeepsFlowOf
<1>4. CollateralKept'
  BY <1>1, PassKeepsCaptured
<1>. QED BY <1>1, <1>3, <1>4 DEF FlowKept, Survival

\* A replayed caller's text is that on disk.
LEMMA ReplayedIsCurrent ==
    ASSUME FlowInv, pc = "rederive", NEW f \in job.rederive
    PROVE  f \in Files /\ digests[f] = disk[f] /\ Certified(f) /\ disk[f] \in AllTexts
<1>1. f \in Files /\ digests[f] # NoDigest
  BY FlowParts DEF JobTyped, DigestInv, RederivedStay
<1>2. digests[f] = disk[f] /\ Certified(f) /\ f \in Present
  BY <1>1, FlowParts, RowsAreCertified DEF Written, Extracting
<1>. QED BY <1>1, <1>2, FlowParts, PresentAreTexts

\* The replay binds no call but those that are edges ...
LEMMA ReplayBindsEdges ==
    ASSUME OneDefiner, FlowInv, pc = "rederive", NEW f \in Files, NEW s \in Defs(nodes),
           NEW p \in ReplayedSites, p.file = f, p.ref = CallOf(s.name)
    PROVE  CallEdge(f, s) \in edges
<1>1. /\ StoreTyped /\ CallInv /\ CallsUnbound /\ OwnTexts
  BY FlowParts DEF CallInv
<1>2. f \in job.rederive /\ p.ref \in RefsOf(disk[f])
  BY DEF ReplayedSites, Sites
<1>3. digests[f] = disk[f] /\ Certified(f)
  BY <1>2, ReplayedIsCurrent
<1>4. ~IsImport(p.ref) /\ p.ref.to = s.name
  BY DEF CallOf, IsImport
<1>5. ParkedRow(f, p.ref) \notin parked
  <2>1. ParkedRow(f, p.ref).file = f /\ ParkedRow(f, p.ref).ref = p.ref
    BY DEF ParkedRow
  <2>. QED BY <1>1, <1>2, <1>4, <2>1 DEF CallsUnbound
<1>6. \E t \in Defs(Symbol) : t.name = s.name /\ CallEdge(f, t) \in edges /\ Standing(f, t)
  BY <1>1, <1>2, <1>3, <1>4, <1>5 DEF CallInv, CallsKept
<1>7. PICK t \in Defs(Symbol) : t.name = s.name /\ CallEdge(f, t) \in edges /\ Standing(f, t)
  BY <1>6
<1>8. t \in Defs(nodes)
  BY <1>7 DEF Standing, Defs
<1>9. s = t
  BY <1>1, <1>7, <1>8, OneDefiner, DefinitionIsUnique
<1>. QED BY <1>7, <1>9

\* ... and binds each that is to a definition of a changed file.
LEMMA ReplayBindsOwed ==
    ASSUME OneDefiner, FlowInv, pc = "rederive", NEW f \in job.rederive, NEW s \in Defs(Symbol),
           s \in nodes, s.file \in job.changed, CallEdge(f, s) \in edges
    PROVE  CallEdge(f, s) \in ReplayedEdges
<1>1. /\ StoreTyped /\ RowsAreRefs /\ OwnTexts /\ DigestInv /\ job.changed \in SUBSET Files
  BY FlowParts DEF CallInv
<1>2. f \in Files /\ digests[f] = disk[f] /\ Certified(f) /\ disk[f] \in AllTexts
  BY ReplayedIsCurrent
<1>3. CallOf(s.name) \in RefsOf(disk[f])
  BY <1>1, <1>2 DEF RowsAreRefs
<1> DEFINE p == ParkedRow(f, CallOf(s.name))
<1>4. p.file = f /\ p.ref = CallOf(s.name) /\ p.ref.kind = "calls"
  BY DEF ParkedRow, CallOf
<1>5. p \in Sites(job.rederive)
  BY <1>2, <1>3, SitesOfText
<1> HIDE DEF p
<1>6. p \in ReplayedSites
  BY <1>4, <1>5 DEF ReplayedSites
<1>7. s \in Defs(nodes)
  BY DEF Defs
<1>8. s \in Binds(p.file, p.ref, nodes)
  <2>1. ~IsImport(p.ref) /\ p.ref.to = s.name
    BY <1>4 DEF IsImport, CallOf
  <2>2. Binds(p.file, p.ref, nodes) = {s}
    BY <1>1, <1>7, <2>1, OneDefiner, CallBindsIt
  <2>. QED BY <2>2
<1>9. CallEdge(f, s) = [from |-> p.file, kind |-> p.ref.kind, to |-> s]
  BY <1>4 DEF CallEdge
<1>10. CallEdge(f, s) \in ResolvedEdges(ReplayedSites, nodes)
  BY <1>6, <1>8, <1>9 DEF ResolvedEdges
<1>11. s \in Extracted
  <2>1. digests[s.file] = disk[s.file]
    BY <1>1 DEF DigestInv, ChangedAreRewritten, Written, Extracting
  <2>2. s \in Symbol /\ s.file \in Files /\ s.end = "itself"
    BY DefsAreSymbols
  <2>3. digests[s.file] # NoDigest
    BY <1>1, <2>2 DEF DigestInv, DigestCertifiesNodes
  <2>4. Certified(s.file)
    BY <2>2, <2>3, FlowParts, RowsAreCertified DEF Written, Extracting
  <2>5. s \in Mint(s.file, disk[s.file])
    BY <2>1, <2>2, <2>4, FlowParts, CertifiedMintsItsNodes
  <2>. QED BY <2>5 DEF Extracted
<1>12. CallEdge(f, s).to = s
  BY EdgesOfKinds
<1>. QED BY <1>10, <1>11, <1>12 DEF ReplayedEdges

LEMMA RederiveKeepsFlow ==
    ASSUME OneDefiner, FlowInv, Rederive
    PROVE  FlowKept' /\ Survival' /\ CollateralKept'
<1>1. /\ PassOver(ReplayedSites, ReplayedEdges, {}) /\ StoreTyped
      /\ pc = "rederive" /\ pc' = "backfill" /\ job' = job /\ digests' = digests
      /\ edges \subseteq edges'
  BY FlowParts, RederivePasses DEF PassOver
<1>2. Due = nodes
  BY <1>1 DEF Due
<1>3. ASSUME NEW f \in Files, Settled(f)'
      PROVE  HopsOf(f)' /\ EndsOf(f)'
  <2>1. HopsOf(f) /\ EndsOf(f)
    BY <1>1, <1>3 DEF FlowInv, FlowKept, Settled
  <2>2. ASSUME NEW s \in Defs(Symbol), CallEdge(f, s) \in ReplayedEdges
        PROVE  CallEdge(f, s) \in edges'
    <3>1. s \in Defs(nodes) /\ \E p \in ReplayedSites : p.file = f /\ p.ref = CallOf(s.name)
      <4>1. "param" \in Endpoints
        BY DEF Endpoints
      <4>. QED BY <1>1, <2>2, <4>1, PassHops
    <3>2. CallEdge(f, s) \in edges
      BY <1>1, <3>1, OneDefiner, ReplayBindsEdges
    <3>. QED BY <1>1, <3>2
  <2>3. ASSUME NEW s \in Defs(Symbol), NEW r \in Endpoints,
               CallEdge(f, s) \in edges, EndOf(s, r) \in nodes, HopOwed(f, s, r)
        PROVE  HopOwed(f, s, r)' \/ CallEdge(f, s) \in ReplayedEdges
    <3>1. CASE Hop(f, s, r) \in job.collateral
      BY <1>1, <3>1 DEF HopOwed
    <3>2. CASE f \in job.rederive /\ s.file \in job.changed
      <4>1. s \in nodes
        BY <1>2, <2>1, <2>3 DEF HopsOf
      <4>. QED BY <1>1, <2>3, <3>2, <4>1, OneDefiner, ReplayBindsOwed
    <3>. QED BY <2>3, <3>1, <3>2 DEF HopOwed
  <2>. QED BY <1>1, <2>1, <2>2, <2>3, PassKeepsFlowOf
<1>4. CollateralKept'
  BY <1>1, PassKeepsCaptured
<1>. QED BY <1>1, <1>3, <1>4 DEF FlowKept, Survival

LEMMA BackfillKeepsFlow ==
    ASSUME FlowInv, Backfill
    PROVE  FlowKept' /\ Survival' /\ CollateralKept'
<1> DEFINE P == BackfilledRows
           E == ResolvedEdges(P, nodes)
<1>1. /\ PassOver(P, E, E) /\ StoreTyped
      /\ pc = "backfill" /\ pc' = "restore" /\ job' = job /\ digests' = digests
  BY FlowParts, BackfillPasses DEF PassOver
<1> HIDE DEF P, E
<1>2. ASSUME NEW f \in Files, Settled(f)'
      PROVE  HopsOf(f)' /\ EndsOf(f)'
  <2>1. HopsOf(f) /\ EndsOf(f)
    BY <1>1, <1>2 DEF FlowInv, FlowKept, Settled
  <2>2. \A s \in Defs(Symbol) : CallEdge(f, s) \in E => CallEdge(f, s) \in edges'
    BY <1>1 DEF PassOver
  <2>3. \A s, r : HopOwed(f, s, r) => HopOwed(f, s, r)'
    BY <1>1 DEF HopOwed
  <2>. QED BY <1>1, <2>1, <2>2, <2>3, PassKeepsFlowOf
<1>3. CollateralKept'
  BY <1>1, PassKeepsCaptured
<1>. QED BY <1>1, <1>2, <1>3 DEF FlowKept, Survival

LEMMA RestoreKeepsFlow ==
    ASSUME FlowInv, Restore
    PROVE  FlowKept' /\ Survival' /\ CollateralKept'
<1>1. /\ pc = "restore" /\ pc' = "prune" /\ UNCHANGED <<nodes, digests, job>>
      /\ edges' = edges \cup {e \in job.collateral : {e.to, CallerEnd(e)} \subseteq nodes}
  BY DEF Restore
<1>2. Due = nodes /\ Due' = nodes
  BY <1>1 DEF Due
<1>3. ASSUME NEW f \in Files, NEW s \in Defs(Symbol), NEW r \in Endpoints
      PROVE  /\ CallEdge(f, s) \in edges' <=> CallEdge(f, s) \in edges
             /\ Hop(f, s, r) \in edges' <=>
                   \/ Hop(f, s, r) \in edges
                   \/ /\ Hop(f, s, r) \in job.collateral /\ EndOf(s, r) \in nodes
                      /\ ValueEnd(f, s.name, r) \in nodes
             /\ Hop(f, s, r) \in job.collateral =>
                   CallEdge(f, s) \in edges /\ ValueEnd(f, s.name, r) \in nodes
  <2>1. CallEdge(f, s).kind = "calls" /\ Hop(f, s, r).to = EndOf(s, r)
    BY EdgesOfKinds
  <2>2. CallEdge(f, s) \notin job.collateral
    BY <2>1, FlowParts DEF EdgeForms, FlowInv, RefsInv
  <2>3. CallerEnd(Hop(f, s, r)) = ValueEnd(f, s.name, r)
    BY CallerEndOfHop
  <2>4. ASSUME Hop(f, s, r) \in job.collateral
        PROVE  CallEdge(f, s) \in edges /\ ValueEnd(f, s.name, r) \in nodes
    <3>1. \E g \in Files, t \in Defs(Symbol) :
             /\ Hop(f, s, r) = Hop(g, t, "param")
             /\ CallEdge(g, t) \in edges /\ ValueEnd(g, t.name, "param") \in nodes
      BY <1>1, <2>4 DEF FlowInv, CollateralKept
    <3>2. PICK g \in Files, t \in Defs(Symbol) :
             /\ Hop(f, s, r) = Hop(g, t, "param")
             /\ CallEdge(g, t) \in edges /\ ValueEnd(g, t.name, "param") \in nodes
      BY <3>1
    <3>3. f = g /\ s = t /\ r = "param"
      <4>1. "param" \in Endpoints
        BY DEF Endpoints
      <4>. QED BY <3>2, <4>1, HopsDetermine
    <3>. QED BY <3>2, <3>3
  <2>. QED BY <1>1, <2>1, <2>2, <2>3, <2>4
<1>4. ASSUME NEW f \in Files, Settled(f)'
      PROVE  HopsOf(f)' /\ EndsOf(f)'
  <2>1. HopsOf(f) /\ EndsOf(f)
    BY <1>1, <1>4 DEF FlowInv, FlowKept, Settled
  <2>2. \A s, r : HopOwed(f, s, r) => Hop(f, s, r) \in job.collateral
    BY <1>1 DEF HopOwed
  <2>3. ASSUME NEW s \in Defs(Symbol), NEW r \in Endpoints
        PROVE  /\ CallEdge(f, s) \in edges' => s \in nodes
               /\ Hop(f, s, r) \in edges' =>
                     CallEdge(f, s) \in edges' /\ EndOf(s, r) \in nodes /\ ValueEnd(f, s.name, r) \in nodes
               /\ CallEdge(f, s) \in edges' /\ EndOf(s, r) \in nodes => Hop(f, s, r) \in edges'
    <3>1. /\ CallEdge(f, s) \in edges => s \in nodes
          /\ Hop(f, s, r) \in edges =>
                CallEdge(f, s) \in edges /\ EndOf(s, r) \in nodes /\ ValueEnd(f, s.name, r) \in nodes
          /\ CallEdge(f, s) \in edges /\ EndOf(s, r) \in nodes =>
                Hop(f, s, r) \in edges \/ Hop(f, s, r) \in job.collateral
      BY <1>2, <2>1, <2>2 DEF HopsOf
    <3>. QED BY <1>3, <3>1
  <2>4. HopsOf(f)'
    <3>1. "param" \in Endpoints
      BY DEF Endpoints
    <3>. QED BY <1>1, <1>2, <2>3, <3>1 DEF HopsOf
  <2>5. edges \subseteq edges'
    BY <1>1
  <2>. QED BY <1>1, <1>2, <2>1, <2>4, <2>5 DEF EndsOf
<1>. QED BY <1>1, <1>4 DEF FlowKept, Survival, CollateralKept

LEMMA PruneKeepsFlow ==
    ASSUME FlowInv, Prune
    PROVE  FlowKept' /\ Survival' /\ CollateralKept'
<1>1. /\ pc = "prune" /\ pc' = "finish" /\ UNCHANGED <<nodes, digests, job>>
      /\ edges' = LiveEdges(edges, nodes)
  BY DEF Prune
<1>2. Due = nodes /\ Due' = nodes /\ \A f, s, r : ~HopOwed(f, s, r)
  BY <1>1 DEF Due, HopOwed
<1>3. ASSUME NEW f \in Files, Settled(f)'
      PROVE  HopsOf(f)' /\ EndsOf(f)'
  <2>1. HopsOf(f) /\ EndsOf(f) /\ digests[f] # NoDigest
    BY <1>1, <1>3 DEF FlowInv, FlowKept, Settled
  <2>2. FileNode(f) \in nodes
    BY <2>1, FlowParts DEF ImportInv, FileNodesThere
  <2>3. ASSUME NEW s \in Defs(Symbol), NEW r \in Endpoints
        PROVE  /\ CallEdge(f, s) \in edges' <=> CallEdge(f, s) \in edges
               /\ Hop(f, s, r) \in edges' <=> Hop(f, s, r) \in edges
    <3>1. /\ CallEdge(f, s) \in edges => s \in nodes
          /\ Hop(f, s, r) \in edges => EndOf(s, r) \in nodes
      BY <1>2, <2>1 DEF HopsOf
    <3>2. CallEdge(f, s).from = f /\ CallEdge(f, s).to = s /\ Hop(f, s, r).from = f /\ Hop(f, s, r).to = EndOf(s, r)
      BY EdgesOfKinds
    <3>. QED BY <1>1, <2>2, <3>1, <3>2 DEF LiveEdges
  <2>4. "param" \in Endpoints
    BY DEF Endpoints
  <2>5. HopsOf(f)'
    BY <1>1, <1>2, <2>1, <2>3, <2>4 DEF HopsOf
  <2>. QED BY <1>1, <1>2, <2>1, <2>3, <2>5 DEF EndsOf
<1>. QED BY <1>1, <1>3 DEF FlowKept, Survival, CollateralKept

LEMMA NextKeepsFlow ==
    ASSUME NoneIsOpaque, CallersImport, OneDefiner, ParamsStay, FlowInv, [Next]_vars, crashes' = 0
    PROVE  FlowInv'
<1>1. RefsInv'
  BY NoneIsOpaque, CallersImport, OneDefiner, NextKeepsRefs DEF FlowInv
<1> SUFFICES FlowKept' /\ Survival' /\ CollateralKept'
  BY <1>1 DEF FlowInv
<1>2. CASE Start \/ Finish \/ (\E f \in Files : \E t \in Texts[f] \cup {Absent} : Edit(f, t))
           \/ (\E e \in Environments : Upgrade(e))
  <2>1. /\ UNCHANGED <<nodes, edges, digests>> /\ pc \in {"idle", "finish"} /\ pc' \in {"idle", "sweep"}
    BY <1>2 DEF Start, Finish, Edit, Upgrade, store
  <2>. QED BY <2>1, RestKeepsFlow
<1>3. CASE ClearDigests
  <2>1. /\ UNCHANGED <<nodes, edges>> /\ pc = "idle" /\ pc' = "idle"
        /\ \A f \in Files : digests'[f] # NoDigest => digests[f] # NoDigest
    BY <1>3 DEF ClearDigests, Indexed
  <2>. QED BY <2>1, RestKeepsFlow
<1>4. CASE Classify /\ Seed \cup ForcedCallers = {}
  <2>1. /\ UNCHANGED <<nodes, edges, digests>> /\ pc = "classify" /\ pc' = "idle"
    BY <1>4 DEF Classify, store
  <2>2. \A f \in Files : digests[f] # NoDigest => Certified(f) /\ f \notin job.importers
    BY <1>4, <2>1, FlowParts, RestIsCurrent
  <2>. QED BY <2>1, <2>2, RestKeepsFlow
<1>5. CASE Classify /\ Seed \cup ForcedCallers # {}
  BY <1>5, ParamsStay, ClassifyKeepsFlow
<1>6. CASE Sweep
  BY <1>6, CallersImport, SweepKeepsFlow
<1>7. CASE Remove
  BY <1>7, RemoveKeepsFlow
<1>8. CASE Write
  BY <1>8, WriteKeepsFlow
<1>9. CASE Resolve
  BY <1>9, ResolveKeepsFlow
<1>10. CASE Rederive
  BY <1>10, OneDefiner, RederiveKeepsFlow
<1>11. CASE Backfill
  BY <1>11, BackfillKeepsFlow
<1>12. CASE Restore
  BY <1>12, RestoreKeepsFlow
<1>13. CASE Prune
  BY <1>13, PruneKeepsFlow
<1>14. CASE UNCHANGED vars
  BY <1>14, IdleKeepsFlow
<1>15. ~Crash
  BY TypeInvParts, FlowParts, BoundsAreNat DEF Crash
<1>. QED BY <1>2, <1>3, <1>4, <1>5, <1>6, <1>7, <1>8, <1>9, <1>10, <1>11, <1>12, <1>13, <1>14, <1>15
         DEF Next, Step

LEMMA InitIsFlow == Init => FlowInv
<1> SUFFICES ASSUME Init PROVE FlowInv
  OBVIOUS
<1>1. FlowKept /\ Survival /\ CollateralKept
  BY DEF Init, FlowKept, Settled, Survival, CollateralKept
<1>. QED BY <1>1, InitIsRefs DEF FlowInv

\* Between runs the flow is that of a first index.
FlowIsFirst ==
    LET E == LiveEdges(edges, nodes)
    IN /\ {e \in E : e.kind = "flows"} = CallValueFlow(E, nodes)
       /\ {s \in nodes : s.end \in {"argument", "result"}} = CallerEnds(E)

LEMMA IdleFlowIsFirst == FlowInv /\ pc = "idle" => FlowIsFirst
<1> SUFFICES ASSUME FlowInv, pc = "idle" PROVE FlowIsFirst
  OBVIOUS
<1> DEFINE E == LiveEdges(edges, nodes)
<1>1. StoreTyped /\ EdgeForms /\ RowsOfIndexed /\ DigestCertifiesNodes
  BY FlowParts DEF DigestInv
<1>2. E \in SUBSET Edge /\ FormedCalls(E) /\ E \subseteq edges
  BY <1>1 DEF LiveEdges, StoreTyped, EdgeForms, FormedCalls
<1>3. \A e : e \in E <=> e \in edges /\ FileNode(e.from) \in nodes /\ e.to \in nodes
  BY DEF LiveEdges
<1>4. ASSUME NEW f \in Files, digests[f] # NoDigest
      PROVE  /\ HopsOf(f) /\ EndsOf(f) /\ FileNode(f) \in nodes
             /\ Due = nodes /\ \A s, r : ~HopOwed(f, s, r)
  <2>1. Settled(f) /\ Due = nodes /\ \A s, r : ~HopOwed(f, s, r)
    BY <1>4 DEF Settled, Due, HopOwed
  <2>. QED BY <1>4, <2>1, FlowParts DEF FlowInv, FlowKept, ImportInv, FileNodesThere
\* The hops and the calls of an indexed file are live, and there together.
<1>5. ASSUME NEW f \in Files, digests[f] # NoDigest, NEW s \in Defs(Symbol), NEW r \in Endpoints
      PROVE  /\ Hop(f, s, r) \in E <=> CallEdge(f, s) \in E /\ EndOf(s, r) \in nodes
             /\ CallEdge(f, s) \in edges => CallEdge(f, s) \in E
             /\ Hop(f, s, r) \in E => ValueEnd(f, s.name, r) \in nodes
  <2>1. /\ CallEdge(f, s) \in edges => s \in nodes
        /\ Hop(f, s, r) \in edges =>
              CallEdge(f, s) \in edges /\ EndOf(s, r) \in nodes /\ ValueEnd(f, s.name, r) \in nodes
        /\ CallEdge(f, s) \in edges /\ EndOf(s, r) \in nodes => Hop(f, s, r) \in edges
    BY <1>4, <1>5 DEF HopsOf
  <2>2. FileNode(f) \in nodes
    BY <1>4, <1>5
  <2>3. CallEdge(f, s).from = f /\ CallEdge(f, s).to = s /\ Hop(f, s, r).from = f /\ Hop(f, s, r).to = EndOf(s, r)
    BY EdgesOfKinds
  <2> HIDE DEF E
  <2>. QED BY <1>3, <2>1, <2>2, <2>3
<1>6. ASSUME NEW e \in E, e.kind = "flows"
      PROVE  \E f \in Files, s \in Defs(Symbol), r \in Endpoints :
                digests[f] # NoDigest /\ e = Hop(f, s, r)
  <2>1. e \in Edge /\ e \in edges
    BY <1>2
  <2>2. PICK s \in Defs(Symbol), r \in Endpoints : e.to = EndOf(s, r)
    BY <1>1, <1>6, <2>1 DEF EdgeForms
  <2>3. e = Hop(e.from, s, r) /\ e.from \in Files
    BY <1>6, <2>1, <2>2 DEF Edge, Hop
  <2>4. digests[e.from] # NoDigest
    BY <1>1, <2>1 DEF RowsOfIndexed
  <2>. QED BY <2>2, <2>3, <2>4
<1>7. ASSUME NEW f \in Files, NEW s, CallEdge(f, s) \in E
      PROVE  digests[f] # NoDigest
  <2>1. CallEdge(f, s) \in edges /\ CallEdge(f, s).from = f
    BY <1>2, <1>7, EdgesOfKinds
  <2>. QED BY <1>1, <2>1 DEF RowsOfIndexed
<1> HIDE DEF E
<1>8. ASSUME NEW e \in E, e.kind = "flows"
      PROVE  e \in CallValueFlow(E, nodes)
  <2>1. PICK f \in Files, s \in Defs(Symbol), r \in Endpoints :
                digests[f] # NoDigest /\ e = Hop(f, s, r)
    BY <1>6, <1>8
  <2>2. CallEdge(f, s) \in E /\ EndOf(s, r) \in nodes
    BY <1>5, <1>8, <2>1
  <2>. QED BY <2>1, <2>2, HopsAreFlow
<1>9. ASSUME NEW h \in CallValueFlow(E, nodes)
      PROVE  h \in E /\ h.kind = "flows"
  <2>1. \E f \in Files, s \in Defs(Symbol), r \in Endpoints :
           h = Hop(f, s, r) /\ CallEdge(f, s) \in E /\ EndOf(s, r) \in nodes
    BY <1>2, FlowIsHops
  <2>2. PICK f \in Files, s \in Defs(Symbol), r \in Endpoints :
           h = Hop(f, s, r) /\ CallEdge(f, s) \in E /\ EndOf(s, r) \in nodes
    BY <2>1
  <2>3. digests[f] # NoDigest
    BY <1>7, <2>2
  <2>. QED BY <1>5, <2>2, <2>3, EdgesOfKinds
<1>10. ASSUME NEW x \in nodes, x.end \in {"argument", "result"}
       PROVE  x \in CallerEnds(E)
  <2> DEFINE r == IF x.end = "argument" THEN "param" ELSE "return"
  <2>1. x \in Symbol /\ r \in Endpoints
    BY <1>1 DEF StoreTyped, Endpoints
  <2>2. x = ValueEnd(x.file, x.name, r) /\ x.file \in Files /\ x.name \in Names \cup {FileName}
    BY <1>10, <2>1 DEF Symbol, ValueEnd
  <2>3. digests[x.file] # NoDigest
    BY <1>1, <2>2 DEF DigestCertifiesNodes
  <2> HIDE DEF r
  <2>4. \E s \in Defs(Symbol) : s.name = x.name /\ CallEdge(x.file, s) \in edges /\ EndOf(s, r) \in nodes
    <3>1. EndsOf(x.file) /\ Due = nodes
      BY <1>4, <2>2, <2>3
    <3>. QED BY <2>1, <2>2, <3>1 DEF EndsOf
  <2>5. PICK s \in Defs(Symbol) : s.name = x.name /\ CallEdge(x.file, s) \in edges /\ EndOf(s, r) \in nodes
    BY <2>4
  <2>6. Hop(x.file, s, r) \in E
    BY <1>5, <2>1, <2>2, <2>3, <2>5
  <2>7. CallerEnd(Hop(x.file, s, r)) = x
    BY <2>1, <2>2, <2>5, CallerEndOfHop
  <2>8. Hop(x.file, s, r).kind = "flows"
    BY EdgesOfKinds
  <2>. QED BY <2>6, <2>7, <2>8 DEF CallerEnds
<1>11. ASSUME NEW x \in CallerEnds(E)
       PROVE  x \in nodes /\ x.end \in {"argument", "result"}
  <2>1. PICK e \in E : e.kind = "flows" /\ x = CallerEnd(e)
    BY DEF CallerEnds
  <2>2. PICK f \in Files, s \in Defs(Symbol), r \in Endpoints :
                digests[f] # NoDigest /\ e = Hop(f, s, r)
    BY <1>6, <2>1
  <2>3. x = ValueEnd(f, s.name, r)
    BY <2>1, <2>2, CallerEndOfHop
  <2>4. ValueEnd(f, s.name, r) \in nodes
    BY <1>5, <2>2
  <2>. QED BY <2>3, <2>4, ValueEndsDetermine
<1>12. {e \in E : e.kind = "flows"} = CallValueFlow(E, nodes)
  BY <1>8, <1>9
<1>13. {s \in nodes : s.end \in {"argument", "result"}} = CallerEnds(E)
  BY <1>10, <1>11
<1>. QED BY <1>12, <1>13 DEF FlowIsFirst, E

\* A run that extracts again only some files leaves the value flow of a first index:
\* however files were edited, deleted, restored, upgraded and forced before it, and
\* whatever hops its removals took from files that it left alone, each stored call has
\* exactly the hops that its callee's endpoints give, with no end left over. Extraction
\* reads every text, callers import what may be deleted, a name has one definer and a
\* definition that stays keeps its parameter: each is needed.
THEOREM FlowStaysFirst ==
    ASSUME NoneIsOpaque, CallersImport, OneDefiner, ParamsStay
    PROVE  Spec => LikeAFirstIndex
<1> DEFINE Inv  == RunInv /\ (crashes = 0 => FlowInv)
           Goal == crashes = 0 /\ pc = "idle" => FlowIsFirst
<1>1. Inv /\ [Next]_vars => Inv'
  <2> SUFFICES ASSUME Inv, [Next]_vars, crashes' = 0 PROVE FlowInv'
    BY NextKeepsRun
  <2>. QED BY NoneIsOpaque, CallersImport, OneDefiner, ParamsStay, CrashesStay, NextKeepsFlow
           DEF RunInv, DigestInv
<1>2. Init => Inv
  BY InitIsRun, InitIsFlow
<1>3. Inv => Goal
  BY IdleFlowIsFirst
<1>4. Goal' /\ [Next]_vars =>
         [Completes /\ crashes = 0 =>
            LET E == LiveEdges(edges, nodes)'
            IN /\ {e \in E : e.kind = "flows"} = CallValueFlow(E, nodes')
               /\ {s \in nodes' : s.end \in {"argument", "result"}} = CallerEnds(E)]_vars
  <2> SUFFICES ASSUME Goal', [Next]_vars, Completes, crashes = 0
               PROVE  LET E == LiveEdges(edges, nodes)'
                      IN /\ {e \in E : e.kind = "flows"} = CallValueFlow(E, nodes')
                         /\ {s \in nodes' : s.end \in {"argument", "result"}} = CallerEnds(E)
    OBVIOUS
  <2>1. FlowIsFirst'
    BY DEF Completes
  <2>. QED BY <2>1 DEF FlowIsFirst
<1> HIDE DEF Inv, Goal
<1>. QED BY <1>1, <1>2, <1>3, <1>4, PTL DEF Spec, LikeAFirstIndex
=============================================================================
