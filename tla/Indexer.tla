------------------------------- MODULE Indexer -------------------------------
(***************************************************************************)
(* index_path_as: the incremental EXTRACT, RESOLVE, STORE pipeline over one *)
(* repository.  Each step below is one transaction of the store (or one     *)
(* write of its meta table), so the process can die between any two of      *)
(* them; the next run starts from what was committed.                       *)
(*                                                                         *)
(* A run reads the disk once, before its first transaction, and the         *)
(* program's environment once, at its start, so edits and upgrades are      *)
(* steps taken between runs.  The store is the graph of files: a symbol is  *)
(* a definition of a file or one of its value endpoints, and a source text  *)
(* is what extraction sees of it.  Every call passes one argument and binds *)
(* its result, a local of the caller that has a node only if a hop needs it. *)
(***************************************************************************)
EXTENDS Integers, FiniteSets

CONSTANTS
    Files,         \* repository-relative paths
    Names,         \* names of definitions
    FileName,      \* the name of a File node
    Dir,           \* the directory of each file
    Texts,         \* the source texts each file may hold
    Deletable,     \* the files that may be deleted
    Absent,        \* no file on disk
    NoDigest,      \* no files row
    Cleared,       \* the digest '' that --force leaves
    Environments,  \* what extraction depends on besides the text
    Upgrades,      \* pairs of environments: what may be installed over what
    MaxEdits,      \* bound of the model: changes of the disk and environment
    MaxCrashes     \* bound of the model: runs that die

AllTexts == UNION {Texts[f] : f \in Files}
\* A definition or File node, a value endpoint of a definition, or of a caller the
\* value that it passes to a name or binds its result to.
Symbol   == [file : Files, name : Names \cup {FileName},
             end : {"itself", "param", "return", "argument", "result"}]
Ref      == [kind : {"calls"}, to : Names] \cup [kind : {"imports"}, to : Files]

\* An absent meta key, and the digest of an empty rule or override set.
NoKey == 0

ASSUME TextsAreTexts ==
    \A t \in AllTexts : /\ t.defs \subseteq Names
                        /\ t.ends \subseteq [name : t.defs, end : {"param", "return"}]
                        /\ t.refs \subseteq Ref
                        /\ t.opaque \in BOOLEAN
ASSUME AbsentIsNoText == /\ Absent \notin AllTexts /\ {NoDigest, Cleared} \cap AllTexts = {}
                         /\ NoDigest # Cleared
ASSUME BoundsAreNat == MaxEdits \in Nat /\ MaxCrashes \in Nat
ASSUME EnvironmentsAreKeyed ==
    \A e \in Environments : /\ e.version \in Nat \ {NoKey} /\ e.scheme \in Nat \ {NoKey}
                            /\ e.rules \in Nat /\ e.overrides \in Nat
                            /\ e.records \in BOOLEAN

VARIABLES
    disk,     \* the text of each file, or Absent
    env,      \* the environment installed: binary, id scheme, rules, overrides
    meta,     \* the meta keys that certify an environment
    nodes,    \* the symbols with a node
    edges,    \* resolved references: [from, kind, to], from a file to a symbol, and the
              \* value flow of calls ("flows"): from the caller's file, which owns the
              \* row, to an endpoint of the callee
    parked,   \* unresolved_refs rows: [file, ref]
    digests,  \* files rows: the text certified by its digest
    minted,   \* the environment each file's rows were extracted under, if it has rows
    pc,       \* the step the running index is at, or "idle"
    job,      \* what the running index holds in memory
    edits, crashes

store == <<nodes, edges, parked, digests, minted>>
world == <<disk, env, edits>>
vars  == <<store, world, meta, pc, job, crashes>>

NoJob == [force |-> FALSE, overrideGate |-> FALSE, schemeGate |-> FALSE,
          importers |-> {}, changed |-> {}, fresh |-> FALSE, skipped |-> FALSE,
          rederive |-> {}, touched |-> {}, collateral |-> {}]

-----------------------------------------------------------------------------
(* Extraction and resolution of one text, as functions of the texts. *)

FileNode(f) == [file |-> f, name |-> FileName, end |-> "itself"]
Def(f, n)   == [file |-> f, name |-> n, end |-> "itself"]

\* A minified, huge or non-UTF-8 text is skipped: no node, not even the File
\* node, and no reference.
Mint(f, t) ==
    IF t.opaque THEN {}
    ELSE {FileNode(f)} \cup {Def(f, n) : n \in t.defs}
                       \cup {[file |-> f, name |-> e.name, end |-> e.end] : e \in t.ends}
RefsOf(t) == IF t.opaque THEN {} ELSE t.refs

Defs(N)    == {s \in N : s.name # FileName /\ s.end = "itself"}
Returns(N) == {s \in N : s.end = "return"}

\* ScopedNameResolver's ranking: the same file, then the same directory, then
\* anywhere; NameResolver's unique candidate is a case of it.
Candidates(f, n, N) ==
    LET all  == {s \in Defs(N) : s.name = n}
        same == {s \in all : s.file = f}
        near == {s \in all : Dir[s.file] = Dir[f]}
    IN IF same # {} THEN same ELSE IF near # {} THEN near ELSE all

\* The symbols the reference r of file f binds to among N: at most one.
Binds(f, r, N) ==
    IF r.kind = "imports" THEN {FileNode(r.to)} \cap N
    ELSE LET C == Candidates(f, r.to, N)
         IN IF Cardinality(C) = 1 THEN C ELSE {}

\* The reference sites of the texts of F.
Sites(F) == {p \in [file : F, ref : Ref] : p.ref \in RefsOf(disk[p.file])}

ResolvedEdges(P, N) ==
    UNION {{[from |-> p.file, kind |-> p.ref.kind, to |-> s] : s \in Binds(p.file, p.ref, N)}
              : p \in P}

\* call_value_flow: the hops of resolved calls, from the argument to the callee's
\* parameter and from its return to the result, where the callee has the endpoint ...
CallValueFlow(E, N) ==
    {[from |-> e.from, kind |-> "flows", to |-> [e.to EXCEPT !.end = r]] :
        e \in {c \in E : c.kind = "calls"}, r \in {"param", "return"}} \cap
    [from : Files, kind : {"flows"}, to : N]

\* ... and the caller's ends of the hops.
CallerEnd(e) == [file |-> e.from, name |-> e.to.name,
                 end |-> IF e.to.end = "param" THEN "argument" ELSE "result"]
CallerEnds(E) == {CallerEnd(e) : e \in {h \in E : h.kind = "flows"}}

Unresolved(P, N) == {p \in P : Binds(p.file, p.ref, N) = {}}

-----------------------------------------------------------------------------
(* The store's share: remove_file for every file of a set, and the prune.   *)

\* A hop to a parameter is stored with the parameter as its source, so it goes with
\* the callee's file too.
EdgesWithout(F)  == {e \in edges : e.from \notin F /\ (e.to.end = "param" => e.to.file \notin F)}

\* Mutant of ParkedWithout: remove_file leaves the file's parked rows.
ParkedKept(F) == parked

\* Mutant of DigestsWithout: remove_file leaves the files row.
DigestsKept(F) == digests

ParkedWithout(F) == {p \in parked : p.file \notin F}
NodesWithout(F)  == {s \in nodes : s.file \notin F}
DigestsWithout(F) == [f \in Files |-> IF f \in F THEN NoDigest ELSE digests[f]]

RemoveFiles(F) ==
    /\ nodes' = NodesWithout(F)
    /\ edges' = EdgesWithout(F)
    /\ parked' = ParkedWithout(F)
    /\ digests' = DigestsWithout(F)
    /\ minted' = [f \in Files |-> IF f \in F THEN NoDigest ELSE minted[f]]

LiveEdges(E, N) == {e \in E : FileNode(e.from) \in N /\ e.to \in N}

-----------------------------------------------------------------------------
(* The run. *)

Present == {f \in Files : disk[f] # Absent}
Indexed == {f \in Files : digests[f] # NoDigest}

VersionGate  == meta.version # NoKey /\ meta.version # env.version
\* Mutant of RulesGate: a changed rule set does not force the files again.
RulesGateNever == FALSE

RulesGate    == meta.rules # env.rules
OverrideGate == meta.overrides # env.overrides
SchemeGate   == Indexed # {} /\ meta.scheme # env.scheme

\* Mutant of KeysWrittenAtOnce: every key is written at the start of the run.
KeysAllWrittenAtOnce ==
    [version |-> env.version, rules |-> env.rules, overrides |-> env.overrides,
     scheme |-> env.scheme]

\* The version and rules keys are written at once, the other two when the run
\* has completed.
KeysWrittenAtOnce == [meta EXCEPT !.version = env.version, !.rules = env.rules]

Start ==
    /\ pc = "idle"
    /\ pc' = "sweep"
    /\ meta' = KeysWrittenAtOnce
    /\ job' = [NoJob EXCEPT !.force = VersionGate \/ RulesGate \/ OverrideGate \/ SchemeGate,
                            !.overrideGate = OverrideGate,
                            !.schemeGate = SchemeGate]
    /\ UNCHANGED <<store, world, crashes>>

\* Mutant of Importers: the importers of deleted files are not forced.
ImportersNone(deleted) == {}

\* Decision J: the files that import a deleted one, by their File nodes.
Importers(deleted) ==
    {e.from : e \in {d \in edges : /\ d.kind = "imports"
                                   /\ d.to \in {FileNode(g) : g \in deleted}
                                   /\ FileNode(d.from) \in nodes}} \ deleted

\* The removal batch of deleted files; their importers are read before it
\* destroys the edges.
Sweep ==
    LET deleted == Indexed \ Present
    IN /\ pc = "sweep"
       /\ pc' = "classify"
       /\ RemoveFiles(deleted)
       /\ job' = [job EXCEPT !.importers = Importers(deleted)]
       /\ UNCHANGED <<world, meta, crashes>>

\* Mutant of Seed: a file with a digest is taken as unchanged.
SeedNew == {f \in Present : job.force \/ f \in job.importers \/ digests[f] = NoDigest}

\* The files to extract again whatever the callers.
Seed == {f \in Present : job.force \/ f \in job.importers \/ digests[f] # disk[f]}

Touched == {s \in nodes : s.file \in Seed}

\* The unchanged direct callers of the seed, each with its value-flow call refs on
\* record or not: the record is written with the rows of a file.
Callers ==
    IF job.force THEN {}
    ELSE {e.from : e \in {d \in edges : d.kind = "calls" /\ d.to \in Touched}}
            \cap (Present \ Seed)
Recorded(f) == minted[f] # NoDigest /\ minted[f].records

\* Mutant of ReplayIsExact: a lost return endpoint does not matter.
ReplayIsExactByDefs ==
    \A f \in Seed : ~disk[f].opaque /\ Defs(Touched) = Defs(UNION {Mint(g, disk[g]) : g \in Seed})

\* The edit leaves the definitions of its files as they were and loses no return
\* endpoint, so replaying recorded refs is as good as extracting the caller again.
ReplayIsExact ==
    LET after == UNION {Mint(f, disk[f]) : f \in Seed}
    IN /\ \A f \in Seed : ~disk[f].opaque
       /\ Defs(Touched) = Defs(after)
       /\ Returns(Touched) \subseteq Returns(after)

\* Mutant of ForcedCallers: an unchanged caller is never extracted again.
ForcedCallersNone == {}

ForcedCallers   == {f \in Callers : ~Recorded(f) \/ ~ReplayIsExact}
RederivedCallers == Callers \ ForcedCallers

\* Mutant of Collateral: what removing a forced file takes from others is not kept.
CollateralNone == {}

\* The hops owned by files left alone, at callees whose files are extracted again
\* although they did not change.
Collateral ==
    LET again == {f \in Seed : digests[f] = disk[f]} \cup ForcedCallers
    IN IF job.force THEN {}
       ELSE {e \in edges : /\ e.kind = "flows" /\ e.to.end = "param" /\ e.to.file \in again
                           /\ e.from # e.to.file /\ e.from \notin Seed \cup ForcedCallers}

\* A run with nothing to extract ends here.
Classify ==
    LET changed == Seed \cup ForcedCallers
    IN /\ pc = "classify"
       /\ IF changed = {}
          THEN /\ pc' = "idle"
               /\ job' = NoJob
               /\ meta' = [meta EXCEPT
                      !.overrides = IF job.overrideGate THEN @ ELSE env.overrides,
                      !.scheme    = IF job.schemeGate THEN @ ELSE env.scheme]
          ELSE /\ pc' = "remove"
               /\ job' = [job EXCEPT !.changed = changed,
                                     !.fresh   = \E f \in changed : digests[f] = NoDigest,
                                     !.skipped = Present \ changed # {},
                                     !.rederive = RederivedCallers,
                                     !.touched = Defs(Touched),
                                     !.collateral = Collateral]
               /\ UNCHANGED meta
       /\ UNCHANGED <<store, world, crashes>>

Remove ==
    /\ pc = "remove"
    /\ pc' = "write"
    /\ RemoveFiles(job.changed)
    /\ UNCHANGED <<world, meta, job, crashes>>

Extracted == UNION {Mint(f, disk[f]) : f \in job.changed}

\* Nodes and digests of every changed file, extracted or skipped.
Write ==
    /\ pc = "write"
    /\ pc' = "resolve"
    /\ nodes' = nodes \cup Extracted
    /\ digests' = [f \in Files |-> IF f \in job.changed THEN disk[f] ELSE digests[f]]
    /\ minted' = [f \in Files |-> IF f \in job.changed /\ ~disk[f].opaque THEN env ELSE minted[f]]
    /\ UNCHANGED <<edges, parked, world, meta, job, crashes>>

WriteEdges(resolved, flow) ==
    /\ edges' = edges \cup resolved \cup flow
    /\ nodes' = nodes \cup CallerEnds(flow)

Resolve ==
    /\ pc = "resolve"
    /\ pc' = "rederive"
    /\ LET calls == ResolvedEdges(Sites(job.changed), nodes) IN WriteEdges(calls, CallValueFlow(calls, nodes))
    /\ parked' = parked \cup Unresolved(Sites(job.changed), nodes)
    /\ UNCHANGED <<digests, minted, world, meta, job, crashes>>

\* Mutant of Rederived: nothing is re-derived.
RederivedNone == {}

\* The hops of the calls of unchanged callers, resolved again from their records, that
\* bind a symbol of the changed files; their call edges stay as they are.
Rederived ==
    LET calls == {p \in Sites(job.rederive) : p.ref.kind = "calls"}
    IN CallValueFlow({e \in ResolvedEdges(calls, nodes) : e.to \in job.touched \cup Extracted}, nodes)

Rederive ==
    /\ pc = "rederive"
    /\ pc' = "backfill"
    /\ WriteEdges({}, Rederived)
    /\ UNCHANGED <<parked, digests, minted, world, meta, job, crashes>>

\* Mutant of BackfillRows: the name lane alone.
BackfillByName ==
    {p \in ParkedWithout(job.changed) :
        p.ref.kind = "calls" /\ \E s \in Extracted : s.name = p.ref.to}

\* The parked rows this run's additions could bind: by extracted name, and
\* every relative import once a new path was indexed.
BackfillRows ==
    {p \in ParkedWithout(job.changed) :
        IF p.ref.kind = "imports" THEN job.fresh
        ELSE \E s \in Extracted : s.name = p.ref.to}

Backfill ==
    LET rows == IF ~job.force /\ job.skipped THEN BackfillRows ELSE {}
    IN /\ pc = "backfill"
       /\ pc' = "restore"
       /\ LET bound == ResolvedEdges(rows, nodes) IN WriteEdges(bound, CallValueFlow(bound, nodes))
       /\ parked' = parked \ (rows \ Unresolved(rows, nodes))
       /\ UNCHANGED <<digests, minted, world, meta, job, crashes>>

Restore ==
    /\ pc = "restore"
    /\ pc' = "prune"
    /\ edges' = edges \cup {e \in job.collateral : {e.to, CallerEnd(e)} \subseteq nodes}
    /\ UNCHANGED <<nodes, parked, digests, minted, world, meta, job, crashes>>

Prune ==
    /\ pc = "prune"
    /\ pc' = "finish"
    /\ edges' = LiveEdges(edges, nodes)
    /\ UNCHANGED <<nodes, parked, digests, minted, world, meta, job, crashes>>

Finish ==
    /\ pc = "finish"
    /\ pc' = "idle"
    /\ job' = NoJob
    /\ meta' = [meta EXCEPT !.overrides = env.overrides, !.scheme = env.scheme]
    /\ UNCHANGED <<store, world, crashes>>

Crash ==
    /\ pc # "idle" /\ crashes < MaxCrashes
    /\ pc' = "idle"
    /\ job' = NoJob
    /\ crashes' = crashes + 1
    /\ UNCHANGED <<store, world, meta>>

-----------------------------------------------------------------------------
(* The world between runs. *)

Edit(f, t) ==
    /\ pc = "idle" /\ edits < MaxEdits
    /\ t # disk[f]
    /\ t = Absent => f \in Deletable
    /\ disk' = [disk EXCEPT ![f] = t]
    /\ edits' = edits + 1
    /\ UNCHANGED <<store, env, meta, pc, job, crashes>>

Upgrade(e) ==
    /\ pc = "idle" /\ edits < MaxEdits
    /\ <<env, e>> \in Upgrades
    /\ env' = e
    /\ edits' = edits + 1
    /\ UNCHANGED <<store, disk, meta, pc, job, crashes>>

\* Mutant of ClearDigests: the digest column is nulled instead of emptied.
ClearDigestsToNull ==
    /\ pc = "idle" /\ edits < MaxEdits
    /\ digests' = [f \in Files |-> IF f \in Indexed THEN Absent ELSE NoDigest]
    /\ edits' = edits + 1
    /\ UNCHANGED <<nodes, edges, parked, minted, disk, env, meta, pc, job, crashes>>

\* index --force clears the digests before the run.
ClearDigests ==
    /\ pc = "idle" /\ edits < MaxEdits
    /\ digests' = [f \in Files |-> IF f \in Indexed THEN Cleared ELSE NoDigest]
    /\ edits' = edits + 1
    /\ UNCHANGED <<nodes, edges, parked, minted, disk, env, meta, pc, job, crashes>>

-----------------------------------------------------------------------------
Init ==
    /\ disk \in [Files -> AllTexts \cup {Absent}]
    /\ \A f \in Files : disk[f] \in Texts[f] \cup {Absent}
    /\ env \in Environments
    /\ meta = [version |-> NoKey, rules |-> NoKey, overrides |-> NoKey, scheme |-> NoKey]
    /\ nodes = {} /\ edges = {} /\ parked = {}
    /\ digests = [f \in Files |-> NoDigest]
    /\ minted = [f \in Files |-> NoDigest]
    /\ pc = "idle" /\ job = NoJob
    /\ edits = 0 /\ crashes = 0

Step ==
    \/ Start \/ Sweep \/ Classify \/ Remove \/ Write
    \/ Resolve \/ Rederive \/ Backfill \/ Restore \/ Prune \/ Finish

Next ==
    \/ Step
    \/ Crash
    \/ \E f \in Files : \E t \in Texts[f] \cup {Absent} : Edit(f, t)
    \/ \E e \in Environments : Upgrade(e)
    \/ ClearDigests

Spec == Init /\ [][Next]_vars

\* A run that was started goes on, and the index is run again: watch runs it
\* on every change, a user or a hook otherwise.
FairSpec == Spec /\ WF_vars(Step)

-----------------------------------------------------------------------------
IndexTypeOK ==
    /\ disk \in [Files -> AllTexts \cup {Absent}]
    /\ env \in Environments
    /\ nodes \in SUBSET Symbol
    /\ edges \in SUBSET [from : Files, kind : {"calls", "imports", "flows"}, to : Symbol]
    /\ parked \in SUBSET [file : Files, ref : Ref]
    /\ digests \in [Files -> AllTexts \cup {NoDigest, Cleared}]
    /\ minted \in [Files -> Environments \cup {NoDigest}]
    /\ pc \in {"idle", "sweep", "classify", "remove", "write", "resolve", "rederive", "backfill",
              "restore", "prune", "finish"}
    /\ job.changed \in SUBSET Files
    /\ edits \in 0..MaxEdits /\ crashes \in 0..MaxCrashes

Certified(f) == digests[f] \notin {NoDigest, Cleared}

\* The rows that extraction gave a file.
Own(f) == {s \in nodes : s.file = f /\ s.end \notin {"argument", "result"}}

\* A digest certifies its text: whatever runs died, the nodes stored for a file
\* that the next run will skip are those of the text it would skip.
DigestCertifiesNodes ==
    /\ \A f \in Files : Certified(f) => Own(f) = Mint(f, digests[f])
    /\ \A f \in Files : digests[f] = NoDigest => \A s \in nodes : s.file # f

\* A run that ends by itself, not by dying.
Completes == pc # "idle" /\ pc' = "idle" /\ crashes' = crashes

\* A reference of a file is an edge of E or a parked row.
Accounted(f, r, E) ==
    \/ [file |-> f, ref |-> r] \in parked
    \/ \E e \in E : /\ e.from = f /\ e.kind = r.kind
                    /\ IF r.kind = "imports" THEN e.to = FileNode(r.to) ELSE e.to.name = r.to

AllAccounted(kinds, E) ==
    \A f \in Files : Certified(f) =>
        \A r \in RefsOf(digests[f]) : r.kind \in kinds => Accounted(f, r, E)

\* Until a first crash a run loses no relative import: whatever was edited, deleted or
\* restored before it, each one ends as an edge to a file that is indexed or parked, and
\* parked only while its target is not indexed: the back-fill misses no file that appeared.
ImportsAccounted ==
    [][Completes /\ crashes = 0 =>
          /\ AllAccounted({"imports"}, LiveEdges(edges, nodes))'
          /\ \A p \in parked' : p.ref.kind = "imports" => FileNode(p.ref.to) \notin nodes']_vars

\* Until a first crash a run loses no reference at all: each one is an edge, or
\* parked.
RefsAccounted ==
    [][Completes /\ crashes = 0 => AllAccounted({"imports", "calls"}, edges)']_vars

\* The same whatever runs died: the references of a file that runs skip are in
\* the store from the run that extracted it.
RefsSurviveCrashes == [][Completes => AllAccounted({"imports", "calls"}, edges)']_vars

\* Until a first crash a run ends with the value flow of a first index: every call edge
\* has exactly the hops its callee's endpoints give, and no end of a hop outlives it,
\* although removing a file takes hops that unchanged files own.
LikeAFirstIndex ==
    [][Completes /\ crashes = 0 =>
          LET E == LiveEdges(edges, nodes)'
          IN /\ {e \in E : e.kind = "flows"} = CallValueFlow(E, nodes')
             /\ {s \in nodes' : s.end \in {"argument", "result"}} = CallerEnds(E)]_vars

\* Whatever runs died before it, a run that extracts every file leaves what a first
\* index of the same disk does: --force repairs.
WholeRunRepairs ==
    [][Completes /\ pc = "finish" /\ job.changed = Present =>
          LET all   == UNION {Mint(f, disk[f]) : f \in Present}
              found == ResolvedEdges(Sites(Present), all)
              flow  == CallValueFlow(found, all)
          IN /\ nodes' = all \cup CallerEnds(flow)
             /\ edges' = found \cup flow
             /\ parked' = Unresolved(Sites(Present), all)]_vars

\* The keys written last never certify a mixed store: whatever runs died before
\* it, a run that completes leaves no row of another id scheme or override set.
WriteLastKeysCertify ==
    [][Completes => \A f \in Files : minted'[f] # NoDigest =>
          minted'[f].overrides = env.overrides /\ minted'[f].scheme = env.scheme]_vars

\* Until a first crash, when a run completes every row was extracted by the
\* binary and the rules that ran it: an upgrade heals the stored graph.
CompletedRunIsCurrent ==
    [][Completes /\ crashes = 0 => \A f \in Files : minted'[f] # NoDigest =>
          minted'[f].version = env.version /\ minted'[f].rules = env.rules]_vars

\* Once the disk is left alone and runs no longer die, the index catches up
\* with it and stays there.
IndexCatchesUp ==
    <>[](\A f \in Files : /\ digests[f] = IF disk[f] = Absent THEN NoDigest ELSE disk[f]
                          /\ Own(f) = IF disk[f] = Absent THEN {} ELSE Mint(f, disk[f]))
=============================================================================
