# wicked-estate: a TLA+ model of the estate graph

This directory models the part of wicked-estate that everything else reads: the
graph store with its batches, the support plane that lets several producers
assert one edge, and the incremental indexer that keeps the graph in step with a
working tree; the traversals that answer from it, also across two stores, and
the cache through which the MCP servers answer; the memory engine with its tiers
and maintenance passes, the protocol by which a proposal becomes memory or
knowledge, and the knowledge sources with their links. TLC checks the modules on
small instances; TLAPS proves the core invariants for every value of the
constants.

Paths below are relative to the repository's root. In `crates/`: `sqlite.rs` is
`wicked-estate-store/src/sqlite.rs`, `lib.rs` is `wicked-estate/src/lib.rs`,
`main.rs` is `wicked-estate/src/main.rs`, `support.rs`, `query.rs` and
`traits.rs` are in `wicked-estate-core/src`, `mcp` is `wicked-estate-mcp/src`,
`shape.rs`, `source.rs` and `links.rs` are in `wicked-estate-knowledge/src`,
`proposal.rs`, `consolidate.rs` and `memext.rs` in `wicked-estate-memory/src`,
and `overlay.rs`, `typed.rs` and `xedge.rs` in `wicked-estate-overlay/src`.

## 1. Inventory of the system

| Component | State it keeps | Operations | What makes it correct |
|---|---|---|---|
| **Graph store, SQLite** (`sqlite.rs`, `schema.sql`) | `symbols` (interning, epoch `gen`, `had_node`), `nodes`, `node_files` (contributions), `nodes_fts` (search), `edges`, `edge_base`, `edge_supports`, `support_owners`, `files` (digests), `unresolved_refs`, `meta`, `cache`, history, change log; `in_batch` | `upsert_nodes`, `upsert_edges`, `replace_edge_supports`, `remove_file`, `remove_nodes`, `prune_dangling_edges`, `upsert_unresolved_refs`, `set_file_digest`, `begin_batch`, `commit_batch`, `rollback_batch` | the row a reader sees does not depend on who wrote last; removing a file takes all of it and nothing of another; search mirrors the graph; a producer's assertion survives base writes; only whole batches commit |
| **Support plane rules** (`support.rs`) | none (pure) | `normalize_facts`, `plan_replacement`, `base_upsert_wins`, `project_edge` | a public edge is a function of the *set* of contributions; generations only grow; a replay changes nothing |
| **Incremental indexer** (`lib.rs`, `index_path_as`) | `meta` keys, digests, and the run's memory (changed set, importers, callers to re-derive, captured hops) | gates, sweep, classify, remove, extract, write, resolve, re-derive, back-fill, restore, prune, write-last keys | no reference is lost; an incremental run leaves what a first index would; a digest certifies what is stored; an upgrade re-extracts |
| **Resolvers** (`wicked-estate-resolve`) | none (pure) | `NameResolver`, `ScopedNameResolver`, `RelativeImportResolver`, `resolve_all_with_coverage` | one target or none, never a guess among equals; what does not bind is reported |
| **Watch loop** (`main.rs`, `watch_coalesce.rs`) | pending events, one store handle | coalesce, run the indexer, report an error as non-fatal | every edit is eventually indexed |
| **Traversal and blast radius** (`query.rs`, `traits.rs`, both stores) | none (reads) | `traverse`, `traverse_multi`, `code_dependents`, `refine_code_dependents_horizon` | an answer that a bound cut says so, by the right mark |
| **Graph store, in memory** (`wicked-estate-store/src/lib.rs`) | the same maps without transactions | the same | observably the same as SQLite |
| **Graph store, Postgres and SurrealDB** | the same tables elsewhere | the same, feature-gated | the same |
| **Connection pool** (`pool.rs`) | idle connections, permits | checkout, checkin, inline reads | no starvation, one writer |
| **MCP server, response cache** (`mcp/main.rs`) | L1 map, L2 `cache` table, last seen mtime and `graph_version` | read-through, fill, invalidate | no answer outlives the graph it was computed from |
| **Memory engine** (`wicked-estate-memory`) | memory nodes, the sidecar `MemExt`, cross-store edges | capture, reinforce, erase, `memory.reflect` | nothing is derived twice, scratch leaves no trace, nothing widens, an erased memory is gone |
| **Proposal queue** (`proposal.rs`, `mcp/tools/proposals.rs`) | proposal nodes, journals of approvals | submit, approve, reject, sweep | only an approved proposal is recallable; a retry makes no second memory |
| **Overlay, cross-store edges** (`wicked-estate-overlay`) | edges stamped with endpoint epochs | write, validate, fold into a traversal, sweep | a re-added symbol does not inherit old edges |
| **Knowledge plane** (`wicked-estate-knowledge`) | sources, documents, typed links, shapes | replace a source, walk, page through the catalog, apply a shape | a reader sees one generation, and of an approval everything or nothing |
| **Flow merge** (`flow.rs`) | none (pure) | `merge_flow_edges` | a fold independent of order |
| **Extraction; retrieval and ranking; observability, bench, adapters, site** | none relevant | pure functions or I/O | out of scope, see section 7 |

**How they interact.** The indexer drives the store through `GraphWrite`: each
of its phases is one `begin_batch` ... `commit_batch`. External producers (the
rules engine, agents) call `replace_edge_supports` on the same store between
runs. The watch loop calls the indexer over one handle that it keeps. The MCP
server reads the same SQLite file from another process, writes its `cache`
table, and keys it on `graph_version`, which the indexer bumps when it starts.
The memory and knowledge engines are clients of a store of their own each; an
approval writes both of them and the overlay of typed edges; a source replaces
documents in one database and links in another; a recall folds cross-store
edges into what the code store answers. Several server processes share all of
these files, and nothing but a store's own transactions orders them.

**What is hard.**

* *Many writers of one row.* A node is contributed by several files, an edge by
  the base plane and by producers. Every operation has to leave the public row
  a function of the contributions.
* *Sharing and removal.* `remove_file` runs in four steps that re-home, keep,
  delete and re-project rows; a mistake in one is seen only after a later one.
* *Transactions that part from the flag.* A failed statement may or may not end
  the engine's transaction; the store's `in_batch` says what the program thinks.
* *Crashes.* An index run is up to eight transactions, a maintenance pass dozens
  in three files. What a run knows only in memory is lost when it dies.
* *Certification.* A digest says "skip this file"; a `meta` key says "these
  rows were made by this binary"; a sidecar row says "this memory is a
  candidate". Each is written in another transaction than what it certifies.
* *Several stores.* An approval is five commits in three databases, a
  replacement of a source three in two; a process may die, or another read,
  between any two.
* *Caches and long reads.* An answer is computed by several statements, stored
  later, and compared with a version that another process moves; a walk takes
  two databases' rows one by one.
* *Staleness.* Unchanged files hold edges, value flow and parked references that
  depend on files that did change.
* *Bounds.* A traversal cut by one of its bounds must not look complete.

The full list, each hazard at its line with the properties that cover it or
the reason none does yet, is `PROJECT.json` "hazards".

## 2. Modules

```
SupportProjection      pure rules: base_upsert_wins, project_edge
   |         \
SupportContract  EdgeTables     NodeTables
   ^  (refines)      \           /
   +------------------ GraphStore ---- GraphStoreProofs, MCGraphStore
StoreBatch ---- MCStoreBatch, StoreBatchProofs     the transactions under all of them
Indexer ---- MCIndexer, IndexerProofs
Traversal <-(EXTENDS)- CrossFold ---- MCCrossFold, TraversalProofs
ResponseCache ---- MCResponseCache, ResponseCacheProofs
MemoryTiers ---- MCMemoryTiers, MemoryTiersProofs
ProposalQueue ---- ProposalQueueProofs
SourceContract <-(refines)- SourceLinks ---- MCSourceLinks, SourceLinksProofs
```

| Module | Models | State | Actions |
|---|---|---|---|
| `SupportProjection` | `base_upsert_wins`, `project_edge` | none | none |
| `NodeTables` | the node side of `sqlite.rs` | `nodeFiles`=`node_files`, `nodes`, `fts`=`nodes_fts`, `hadNode`, `gen`=`symbols.gen` | parts of the store's actions |
| `EdgeTables` | the edge side | `edges`, `edgeBase`=`edge_base`, `supports`=`edge_supports`, `generations`=`support_owners` | parts of the store's actions |
| `GraphStore` | the two composed: one action per `GraphWrite` operation | both | `UpsertNode`, `WriteNodes`, `UpsertEdge`, `ReplaceEdgeSupports`, `RemoveFile`, `PruneDanglingEdges`, `RemoveNodes` |
| `SupportContract` | the contract stated at the head of `support.rs`, with no tables | `base`, `facts`, `generations`, `public` | `UpsertBase`, `RetireBase`, `Replace`, `Erase` |
| `StoreBatch` | batches of `SqliteStore` on a WAL file that several processes write | per client `tx`, `stale`, `view`, `inBatch`, `unit`, `left`; `disk`, `lock` | `Ask`, `Begin`, `Look`, `Write`, `Refused`, `Commit`, `Recover`; `StatementFails`, `EngineAborts`, `Crash`; `CachePut` |
| `Indexer` | `index_path_as` | `disk`, `env`, `meta`, `nodes`, `edges` (value flow included), `parked`=`unresolved_refs`, `digests`=`files`, `pc` and `job` (the run's memory), ghost `minted` | `Start` ... `Finish`, one per transaction, `Crash`, `Edit`, `Upgrade`, `ClearDigests` |
| `Traversal` | the walk of `MemStore`, the default `traverse_multi`, SQLite's recursive queries, the refinement of a blast radius | `ask` (the question), `seeds`, `walk`, `sub`=`Subgraph`, `pc` | `StartWalk`, `Probe`, `Expand`, `Follow`, `EndWalk`, `EndTraverse`; `Query`, `BlastRadius` |
| `CrossFold` | `OverlayReader::traverse_multi` over that walk | `xedges`, `live` memories, `erasing`, `fold` | those of `Traversal`, then `StartFold`, `NextAnchor`, `FoldRow`, `SkipRow`, `StopAtBudget`, `EndFold`, `EraseNode`, `EraseRows` |
| `ResponseCache` | the request loop of `mcp/main.rs` and the `cache` table, against every writer of the graph | `graph` (its revision), `version`=`meta.graph_version`, `fileTime` (mtime), `writer`, `l1`=`request_cache`, `l2`=`cache`, `seenVersion`, `seenTime`, `pc`, `answer`, ghost `quiet` | a request in seven steps (`CheckFileTime` ... `Reply`), `Restart`; `StartRun`, `CommitBatch`, `EndRun`, `ApplyEvidence`, `BumpAfterEvidence`, `WriteUnversioned`, `Checkpoint` |
| `MemoryTiers` | `MemoryEngine` and `MemoryApi` | `store`, `ext`=`MemExt` rows, `links` (`derived_from`, `mentions`), `cross` (memories with cross-store edges), `job`; history `erased`, `taken` | `Capture`, `Reinforce`, `EraseId`, `EraseScope`, `Reflect`; `Commit` (the next commit of an operation), `Pass` (the next phase of a maintenance pass); `Fail`, `Restart`, `ErasedElsewhere`, `Tick` |
| `ProposalQueue` | approval, rejection and the start-up sweep (`proposal.rs`, `shape.rs`, `mcp/tools/proposals.rs`) | `state`, `journal`=`kapply` node, `node`, `edges`=`typed_xedges` of the node, and for each server `pc`, `next`, `own`=`attempts`, `seen` | one for each write or decision: `Approve`, `WriteJournal`, `PutEdge`, `PutNode`, `MarkApproved`, `Finish`, `CheckPending`, `Rollback`, `Reject`, `MarkRejected`, `ReadJournals`, `ReadStates`, `Complete`, `Age`; `Error`, `RollbackUncommitted`, `Restart`, `Crash` |
| `SourceContract` | what `replace_source_linked` promises: documents and links of one generation, at once | `generation`, `documents`, `links` | `Replace` |
| `SourceLinks` | `source.rs`, `links.rs`, typed walks of `shape.rs` | `manifest`, `docs`, `rows`=`typed_xedges`, `live`/`epoch` of the ends, the projector's `wpc`, `call`, `toPlan`, `planned`, the reader's `rpc`, `moved`=`data_version`, `walk`, `page`; ghosts `held`, `view` | the projector's `Replace`, `CheckOrder`, `PreClean`, `PlanControl`, `PlanLive`, `PlanEpoch`, `Stage`, `Flip`, `CleanUp`, `Stop`; the ends' `Remove`, `Readd`; the reader's `StartWalk` ... `Refuse` and `ReadManifest`, `ReadRecord`, `RecheckManifest`, `Done` |
| `MC...` | instances for TLC | | |
| `...Proofs` | theorems | | |

**How an operation is translated.** `RemoveFile(f)` is the whole of
`SqliteStore::remove_file`: step 1a (drop the file's contributions, re-home
rows with survivors), 1b (keep an Import node that another file's located edge
still targets, homed on the smallest such file), 3 (delete the edges of the
file and of the orphans from `edges` and `edge_base`, then re-project the
supported ones) and 4 (delete the orphans). Step 2, history, leaves the graph
alone. It runs in one savepoint, so it is one action. `WriteNodes` is the
indexer's write batch: `upsert_nodes_skip_fts` for each file and one
`bulk_rebuild_fts_for_files`, which is where the search rows can part from the
nodes.

**What is abstracted.** A path is its rank in the order the SQL sorts by, and
the empty path is 0. A node record keeps its file, `is_def` and a revision that
stands for signature, doc and span. An edge's content keeps confidence,
evidence count, file and `factKey`, the final tie-break. `merge_flow_edges` is
the set of rows it folds plus its representative.

**What one step of each module is.**

* `StoreBatch`: one statement. A client writes its unit row by row and may look
  first, as `remove_file` does. The engine's rules are SQLite's in WAL mode:
  `BEGIN` is deferred, the first statement takes the snapshot, the first write
  the lock; a snapshot that someone wrote past cannot be written from; a failed
  statement leaves the transaction open unless the engine ends it. `OnError`
  is what the code does with an error: the knowledge engine rolls back, `index`
  reports and exits, `watch` reports and goes on with the same store.
* `Indexer`: one transaction, or one group of `meta` autocommits:
  `indexed_version` and the rules key are two writes at the start of the run
  modelled as one, and so are the two write-last keys. The disk is read once,
  before the first transaction, so edits happen between runs; an edit during a
  run is an edit right after it, since the next run compares digests. `Crash`
  may follow any of them. A source text is what extraction sees of it
  (definitions with their parameter and return endpoints, references, or
  *opaque*: minified, huge or not UTF-8). Every call passes one argument and
  binds its result; the argument and the result are locals of the caller that
  have a node only where a hop needs one, as `call_value_flow` mints them. The
  record of a file's call references is written with its rows by the releases
  that write it (`records`). `minted` is a ghost: the environment a file's rows
  were extracted under, which the store does not record.
* `Traversal`: an edge of the in-memory walk; in SQLite one query, whose `LIMIT`
  may keep any of the nearest. The blast radius reads two queries with nothing
  written in between. The edges are those the question admits. Symbols are
  numbered in the order the fold's keys sort by.
* `CrossFold`: one query of an anchor's rows, then row by row from memory; a
  memory may be erased between any two. The home store is held for the read, a
  memory's id is never used again, and a row is stamped with the life of the
  code it is about.
* `ResponseCache`: one look at shared state by one process: the file time, the
  version, the cache row, the first and the last read of a tool, the store.
  Calls never share a cache row, so one call is modelled. An answer is the
  interval of revisions its reads saw; it is right when both ends are the
  committed graph. WAL commits leave the file time alone and `Checkpoint` moves
  it, which is why neither test of `mcp/main.rs` alone is enough.
  `ingest_semantic_evidence` writes and then bumps; `supports retract` and
  `ingest_tfstate` write and never bump; an index run bumps and then writes.
* `MemoryTiers`: one commit in one of three files. What an operation has decided
  to write is `job.todo`; a failed statement or a death drops what is left of
  it. A pass decides phase by phase, reading the files as they are then.
  Confidence and salience are two-valued, embeddings and recall are left out,
  and another server does one thing, erase, between two commits. `Legacy` holds
  what releases before this one may have left: summaries of scratch, and
  summaries wider than their sources. `erased` and `taken` are history.
* `ProposalQueue`: one commit, or the read a decision is taken on. A journal
  keeps its attempt and whether the grace period is over. The rollback's check
  and its deletes in the knowledge store are one transaction and one step; the
  deletion of the edges is in another database, so `RollbackUncommitted` lets it
  happen alone. `Age` carries the assumption stated at `APPLY_GRACE_SECS`
  (shape.rs:76-77): no approval in flight lasts as long as the grace period.
  `Complete` goes back to writing the plan when the node is missing; with one
  server deciding that does not occur, with two it does.
* `SourceLinks`: one commit, or one statement of a read. The plan reads whether
  an end is live and its epoch by two statements; a walk reads each node's rows,
  and for each row the owner and the end. `data_version` is `moved`: whether
  another connection has written since the walk looked. One projector writes a
  source (links.rs:33-36). The bounds of a walk and visibility by deps are
  left out.

## 3. Runs

| Run | Question | States |
|---|---|---|
| `graph_store_nodes` | do node rows, contributions, search rows and edges stay consistent under every order of writes, removals and erasures | 37 k |
| `graph_store_support` | is every public edge the projection of all contributions; do the tables implement the contract | 45 k |
| `store_batch` | two clients and a server on one file, failing statements, aborted transactions, stale snapshots, crashes: are only whole units committed, and does every unit land | 112 k |
| `indexer_runs` | with runs that complete: is any import lost, does an incremental run leave the value flow of a first index, does the index catch up | 33 k |
| `indexer_crashes` | what survives a process that dies between any two transactions, does `--force` repair it; until one does, is any reference lost, does an upgrade re-extract everything | 909 k |
| `cross_recall` | every question over every small graph, in memory, in SQLite and across stores: does an answer without a mark miss anything | 685 k |
| `response_cache` | two servers, all writers, checkpoints and restarts: does a version bump that nothing overlaps heal both levels | 2.3 M |
| `memory_tiers` | captures, erasures and passes cut anywhere: is anything derived twice, left of scratch, widened or folded twice | 604 k |
| `proposal_queue` | one server decides, another is started now and then, three crashes or store errors at any step: is anything half-approved visible, anything approved lost, anything left over | 13 k |
| `source_links` | does a replacement cut anywhere become visible whole and at once, and is a walk or a pass over the catalog of one state | 883 k |
| `crash_loses_refs`, `watch_stuck` | a documented claim the code does not keep, see section 6 | |

**Bounds and why they are enough.**

* `graph_store_nodes`: two files, two File symbols, one shared Import symbol
  and one C++ symbol declared in one file and defined in the other. A third
  file adds no case to `remove_file`: a row has a home, a preferred survivor,
  or neither, and `MinFile` needs two candidates, which the Import node with
  an unlocated edge gives. `MaxEpoch = 1` bounds `symbols.gen`, which nothing
  in the module reads.
* `graph_store_support`: one plain and one flow key; three contents chosen so
  that the base rule (later wins on equal confidence, more evidence wins) and
  the projection (total order) disagree; two owners, two ids, generations 0
  and 1, so a first write, a replacement, a replay and a stale one all occur.
* `store_batch`: two rows, so a unit can be half-written; one client that rolls
  back and one that exits; one server row, so a snapshot can grow stale; two
  faults, so a recovery can itself be hit.
* `indexer_runs`: three files. File 3 calls `y` of file 1, which calls `x` of
  file 2, so a file is a caller and a callee at once; definitions gain and lose
  a return, gain a parameter and disappear; every file can be deleted and
  restored. Four edits with runs between. Each caller imports what it calls
  and no name has two definitions; section 6 says what happens otherwise.
* `indexer_crashes`: file 1 calls `x` and imports file 2; files 2 and 3 define
  `x`, with a parameter or a return, or not, in the same or another directory,
  so a call binds and has hops, is ambiguous, is shadowed or is parked. Four edits, releases, overrides and rule sets
  among them, and two crashes; only the caller is deleted.
* `cross_recall`: four symbols and up to three edges, with every depth and cap
  that can bite, and two larger shapes: a diamond, where two bounds compete,
  and a file that imports its way in and calls back. Recalls have two
  memories, two lives of the code, a budget of one and one erasure, over either
  store.
* `response_cache`: two servers, so that one stores what the other then finds
  in the table; two bumps and two graph commits, so that an answer can span a
  commit within a version and a version within a commit; one checkpoint.
* `memory_tiers`: the root and one project, two facet sets, so every pair of
  places that may not mix occurs; two calls, two ticks, of which the first
  expires scratch and the second ages episodes, and one fault: more only
  repeats. `MaxSummaries` bounds the summaries that passes over a disagreeing
  sidecar write (section 6).
* `proposal_queue`: two edges, so a plan can be half-written; four attempts and
  three faults, so a rollback can fail, a retry replace its journal and a
  sweep race both.
* `source_links`: three documents and two contents, of which the second drops
  one, changes one and adds one; one end of each kind; two calls, which may
  stop anywhere; an end removed and re-added once; a walk of two hops through a
  shared end, one of one hop, two attempts each.

TLC checks deadlock in every run but those of `CrossFold`, where a question is
asked once and answered, and of `StoreBatch`, where the units asked for and the
faults are used up.

**Fairness.**

* `Indexer`: `WF_vars(Step)`. A run that began goes on, and an idle index is run
  again: `wicked-estate watch` does that on every change and on its own start;
  without it a user or a hook does. Edits, upgrades and `--force` are not fair.
  `IndexCatchesUp` is checked where no run dies.
* `ProposalQueue`: a server finishes what it has begun, and time passes. That
  servers are started at all is a hypothesis inside `SweepsSettle`, since
  nothing in the code starts one.
* `StoreBatch`: `WF_vars(Step(c))` for each client: it goes on with its unit and
  tries again after an error, as `watch` and the engines' callers do. Faults
  and the server's writes are not fair and are bounded.
* `MemoryTiers`: weak fairness on the commits and phases of what has begun.
  Strong fairness on `Reflect(Root)`, because a caller's other operations
  interrupt its being possible again and again: an agent goes on asking for
  maintenance. Strong fairness on a restart between operations: a process ends
  some day and the next one opens the files, which is when the sidecar is
  reconciled.

## 4. Properties

*Store.* `PrimaryIsPreferred` is the derived-primary rule of `schema.sql`: the
row shown is the preferred contribution whatever the order of writes.
`SearchMirrorsNodes` and `RemovalIsExact` say that a removal takes the row, the
contribution, the search row and the edges of a file together and nothing that
another file still holds.

*Support.* `PublicIsProjection` is the table-level statement; `ImplementsContract`
is the refinement: with
`base <- BasePlane, facts <- supports, public <- PublicEdges` every step of the
tables is a step of `SupportContract`, where the base plane and the producers
never see each other.

*Batches.* `CommitsWholeUnits`: every change of the committed rows is one whole
unit of one process, whatever failed before. `UnitsLand`: a client that tries
again gets its unit committed once the faults end; the code keeps it for clients
that roll back or exit, and not for `watch`.

*Indexer.* `ImportsAccounted` and `RefsAccounted`: at the end of a run each
reference of a certified file is an edge or a parked row, and an import is
parked only while its target is missing. The first holds with deletions, the
second only where callers import what may be deleted. `LikeAFirstIndex`: a run
that extracts again only some files leaves exactly the hops that the stored call
edges have in a first index, with no orphan end. `WholeRunRepairs`: a run that
extracts everything leaves exactly what a first index would, whatever died
before it. `ImportsAccounted`, `RefsAccounted`, `LikeAFirstIndex` and
`CompletedRunIsCurrent` hold until a run dies; `DigestCertifiesNodes` holds in every state and
`WriteLastKeysCertify` after every run, whatever died.

*Traversal.* `WalksAreHonest`, `BlastIsHonest` and `FoldIsHonest` say what an
unmarked answer promises: every symbol within the depth at its distance and
nothing beyond; every row of the unbounded blast radius; every cross-store edge
that stood throughout the read. A mark must be earned as well: a cap never
drops a near symbol for a far one, and a horizon has something past it. A
distance is `Mins` with as many hops as there are symbols; `Ball` is the set that
so many hops meet. Where the ply puts a memory is said twice: never past the depth
asked for, and, over the in-memory store and from one seed, at most one hop past
its nearest code in the answer (section 6 has the other cases).

*Cache.* `QuietBumpHeals`: after a version bump that no request overlaps every
reply is the current graph, until a request overlaps a write again. `quiet` is
the only ghost; it records just that. `HitsAreCurrent`, which no run checks, is
what the comment at the cache promises, and the code does not keep it.

*Memory.* `NothingWidens`: a fact, skill or summary answers no query that its
source would not. `ScratchLeavesNoTrace` and `DerivedOnce` say that passes cut
and repeated leave what one pass would. `FoldedOnce` says the same of folding,
of what a pass takes up: a memory that a summary of this version covers is
selected only if the sidecar lists it as it was before the fold. `FilesAgree`:
until a first fault, and between any two operations, the sidecar lists every
memory as it is, and a cross-store edge is of a memory there is. `PassCleans`
is about one pass that no fault cuts, over whatever earlier faults left: it
ends with no listed expired scratch of its scope and with every summary sound,
but for sources that another server erased. `ScratchGoes` says that after the
last fault, restarts and passes make the rest good. `ErasedIsGone`, which no run checks, does not
hold (section 6).

*Approvals.* `VisibleIsWhole` is "invisible until complete" seen from a reader:
what is visible is approved and has all its edges. `ApprovedIsKept` is its
converse, and `SweepsSettle` says that crashes, errors and lost races end, after
enough start-ups, in one of two states: approved and whole, or nothing.
`RejectedStaysHidden` is what `reject_proposal` says of itself: no run checks it,
since a memory proposal breaks it (section 6); for a knowledge proposal that one
server decides it is a theorem.

*Sources.* `ImplementsSource` is the refinement of `SourceContract`: documents
and links of a generation appear in one step. `LinksStayBound`: a link never
comes to point at a node other than the one it was written for.
`WalkIsOneState` and `CatalogIsOneGeneration` say that what many statements
read is the state of one moment, or refused.

Each property of a passing run has a mutant in `PROJECT.json`: a plausible bug
in the code (a missing delete, the wrong survivor, a gate that never fires)
under which TLC finds the property violated. `OnlyImportsOutliveTheirFiles`,
`NothingLocatedIn`, `PruneLeavesOnlyAsserted` and `IdleHoldsNothing` are stated
beside the others for the theorems of section 5; no run checks them.

## 5. Proofs

`GraphStoreProofs` begins with the projection rules: `Outranks` is a strict total
order on contents (from `FactKeysAreCanonical`: equal fact keys mean equal edges),
hence `RepresentativeExists`: every non-empty finite set has exactly one
representative, so `project_edge` is a function of the set. The existence
argument takes an element with the least set of contents above it, by the
library's theorem that strict inclusion is well founded on finite sets.

It then proves, for any symbols, files, contents and producers:

* `TypeCorrect`, `PrimaryStaysPreferred`, `PublicStaysProjection`:
  `Spec => []TypeOK`, `[]PrimaryIsPreferred` and
  `[](PublicIsProjection /\ BaseOnlyUnderSupport)`;
* `SearchStaysMirrored`, `OnlyImportsOutlive`: one search row for each live
  symbol, of the record it shows; only a kept Import node is ever without a
  contribution;
* `RemovalStaysExact`, `PruneSparesOnlyAsserted`: what a removal takes and
  leaves, from every reachable state;
* `TablesImplementContract`: `Spec => ImplementsContract`. Each operation is a
  step of `SupportContract` under `base <- BasePlane, facts <- supports,
  public <- PublicEdges`; an operation on many edges maps to one step of the
  contract, because it treats each key by itself.

The invariant that is inductive is `StoreInv`: types, one contribution per file
and symbol, the preferred row, and the two support invariants.
`OneContribution` is needed because the preferred contribution is chosen by
(`is_def`, file), which is total only on records of distinct files.
`BaseOnlyUnderSupport` is needed because the first fact of a key moves the
public row into `edge_base`, which is the base contribution only if the row
carries no trace of earlier support. Each operation has one lemma per half of
the invariant.

`ResponseCacheProofs` proves `CacheTypeCorrect` and `QuietBumpsHeal` for any
number of servers. `Healed` is the strengthening: while `quiet`, everything
cached *under the current version* is current, in both levels, a request in
flight has seen that version, and while a run is still writing nothing is
cached under its version and every server is idle. Older rows may say anything.

`StoreBatchProofs` proves `BatchTypeCorrect` for any clients, and, under
`NoneGoesOn` (every client rolls back or exits on an error), `BatchesAreWhole`
and `IdleClientsHoldNothing`. `WholeInv` adds to the types that a unit is
written inside a transaction of its own (`OwnTransaction`) and that a writer
sees the committed rows with the written part of its unit over them
(`ViewsAreDisk`), so what it commits is the whole unit. `watch` does go on: the
run `watch_stuck` is what the hypothesis excludes.

`SourceLinksProofs` proves, for any documents, ends and number of generations:

* `ReplaceIsOneStep` (the refinement of `SourceContract`) and
  `LinksStayWithTheirEnds`. `WriterInv` says what the commits so far have made:
  the committed generation is live and its rows are its links, a plan is part
  of its call's links, each planned once, and at the flip the staged rows are
  exactly the links, because the pre-clean left nothing of an earlier attempt.
* `CatalogIsWhole`: `CatalogInv`, what a pinned pass has got is a part of what
  its generation held, and counting its pages to the end makes it all of it.
* `WalksAreOneState`: `WalkInv`. While nothing has been written since an attempt
  began (`Calm`), `WalkSound` holds: what the walk has followed, and what is
  `Near` its base within the hops still to go, is together the answer. `Near` is
  a recursive function of the hops; a walk has at most three, so the proof
  unfolds it (`NearUnfolds`) and needs no induction. A write makes the attempt
  one that will be refused. `LinksTypeCorrect` combines both halves.

`ProposalQueueProofs` proves `QueueTypeCorrect` for any number of servers, and,
for any number of servers of which one approves and rejects (`OneDecides`),
`VisibleIsApproved`, `ApprovedIsNeverUndone` and `RejectedKnowledgeStaysHidden`.
`ProtocolInv` says what a sweep may hold: a verdict taken on a state that is
final, or on a journal that has grown old and whose approval is therefore not in
flight any more. That uses the assumption `Age` states about the grace period;
without it a sweep could undo an approval that is still at work.
With two deciders the first property fails (section 6).

`IndexerProofs` proves, for any files, texts and environments:

* `IndexTypeCorrect` and `DigestsCertify`, whatever died. `DigestInv` adds that a
  changed file is rewritten by the run at work before it gets a digest, that a
  file to be re-derived is not among the changed ones, and that a parked row is
  of an indexed file.
* `UpgradesHeal`, until a first crash: `RunInv` (a run that a gate forced extracts
  everything there is, and rows written after its write are of its environment)
  with `EarlyKeysAgree`.
* `LateKeysCertify`, whatever died, under `NoneReturns`: no override set or id
  scheme that was replaced is installed again. The keys trail the rows, which
  trail the environment; section 6 says what a key that returns does.
* `NoImportIsLost`, until a first crash, under `NoneIsOpaque`. `ImportInv`: each
  import of a certified text is a parked row or a live edge, apart from what
  the run at work still owes: a file about to be extracted owes none yet, an
  edge to a swept file has its source among the importers, and a parked row
  whose target has come back has a fresh path, so back-fill looks at it.
* `NoReferenceIsLost`, until a first crash, under `NoneIsOpaque` and
  `CallersImport`: a file that may be deleted is imported by every other whose
  text calls a name it may define (section 6 says what a caller that does not
  import loses). `CallInv` adds to `ImportInv` that a call of a certified text is
  parked or bound to a definition of its name that stands: its file was swept
  and the caller is an importer, or was removed and extraction mints it again,
  which is what an exact replay and an unchanged text give.
* `ForceRepairs`, whatever died and without a hypothesis on texts or edits.
  `WholeRun`: a run that extracts all there is has removed every row before it
  writes, and from its resolution on the store is `FirstIndex`. It needs
  `RowsOfIndexed`, that an edge is of an indexed file, or rows that a dead run left
  could outlive the removal, and `NoneIsSkipped`, that such a run back-fills nothing.
* `FlowStaysFirst`, until a first crash, under `NoneIsOpaque`, `CallersImport`,
  `OneDefiner` (only one file's texts define a name) and `ParamsStay` (a definition
  that stays keeps its parameter). `FlowInv` adds to `CallInv`:
  * `RefsInv`, what rows are made of: forms of edges, an endpoint stored with its
    definition, rows that are references of their file's text; a parked call names
    nothing that is there (`CallsUnbound`), except what the run has just written
    and back-fill has not looked at. Without it a replayed record could bind a call
    that has no edge.
  * `FlowKept`, for each file that no later step extracts (`Settled`): a call edge
    has the hops of its callee's endpoints (`HopsOf`) and each end of a hop has its
    call (`EndsOf`). While a callee is out of the store, `Due` stands for the nodes
    to come, and a hop that its removal took is `HopOwed`: by the replay of
    the caller's record or by the captured collateral.
  * `Survival`, what makes both enough: before the removal, a call into a changed
    file is to a definition that is minted again with its endpoints, and its
    caller is replayed, or the endpoints are as they were and the hop to the
    parameter is captured. `CollateralKept`: what is captured is of such calls, so
    restoring it adds nothing else.

`MemoryTiersProofs` proves, for any scopes, facets, texts and bounds:

* `TiersTypeCorrect` and `NothingIsWidened`. A memory that another server erased
  comes back when a pass holds a copy, so the invariant `TiersInv` cannot speak
  of the store alone: `KnownSound` speaks of every memory that is stored or held
  (in commits to make, in groups, in the batch) and of every edge stored or
  about to be.
* `ScratchIsForgotten`, under `NoScratchFacts`: no fact is captured into the
  working tier (section 6 says why).
* `DerivedStaysOnce`, under `OnlyPassesDerive`: callers capture no fact and no
  skill, since nothing keeps a caller from capturing one twice. `Grows` is the
  step property behind it: what may be stored after a step is a copy of what
  might have been before, or has the next id.
* `FoldsOnce`: `PairInv` fixes the order of an operation's commits, and `FoldInv`
  says that what a summary of this version covers is archival in the store,
  also once the first commit to come is made: the summary and the move of its
  sources are one commit.
* `FilesStayInStep`: `AgreeInv`, until a first fault. What the sidecar will list
  once the commits that follow are made (`Listing`) are the rows of the store,
  and a cross-store edge of a memory that is gone is owed by the job (`Owed`).
  `Plain` is needed because a pass removes the cross-store edges of its first
  drop only: the summaries that its later drops remove have none.
* `PassesClean`, under `TidyLegacy`: the summaries of older releases are archival
  and cover no summary, as their passes wrote them. `ScratchInv` says that after
  the first drop no listed scratch is left, and needs `ListedInv`: a row may be
  behind its memory, but not in its age. `RepairedInv` says that after the last
  repair every summary of the store to come is sound. It needs `TidyInv`: what is
  folded is no summary, so neither a repair nor a drop takes it away.

`TraversalProofs` proves `WalksStayHonest`, `BlastStaysHonest` and
`FoldStaysHonest` for any finite graph, any questions, bounds, rows, stamps and
erasures.

* *Distances.* `Ball` is a recursive function of the hops. The library's recursion
  and induction theorems take operators, which cannot be used here, so
  `RecursionExists` and `AllNumbers` say for functions and for sets what is
  needed, from the fact that `<` is well founded. `BallsFill` is the pigeonhole:
  as many hops as there are symbols meet all that can be met. From it
  `MinsMeasure`: the depths that `Mins` gives are distances (`Measures`): 0 at the
  seeds only, at most one more at the end of an edge, and exactly one more than
  some neighbour before. Nothing after it looks at `Ball` again.
* *SQLite.* `NearestAreFew` and `DroppedForNearer` count what `ORDER BY ... LIMIT`
  keeps. `LegMeans` and `BothLegsMean` say what a leg with `n + 1` rows and its
  horizon probe may answer, `SqlMeans` the same once `cap_by_depth` cut the union
  of two legs.
* *Blast radius.* `ClearedIsWhole`: if the second walk, from the frontier, adds no
  row and has no mark, both walks together hold all that can be reached
  (`PastTheHorizonIsTheRest`); `NoRowToAdd`: then the rows are those of the whole.
* *The walk in memory.* `WalkOK` is the invariant of a breadth-first walk under
  bounds: what was seen was seen at its distance, the queue comes by distance,
  and every neighbour of what left the queue was seen or is marked. From it
  `SeenIsFull`: while nothing was left out for the cap, all that is nearer than
  the head of the queue was seen. `Complete` says of the union of walks that it
  is honest about the seeds walked so far (`MeasuresOfUnion`: the distance from
  two sets is the smaller one).
* *The ply.* `FoldOK`: the rows about code that was looked at are edges of the
  answer (`FoldCloses`), a memory is shown if and only if it was folded
  (`FoldShows`), and, from one seed in memory, the anchors come by depth, so the
  first code to bring a memory is its nearest (`FoldNears`). Erasing takes rows and
  memories away, and every part of it survives that (`ErasureKeeps`).

TLC checked these invariants on the instance of `cross_recall` before they were
proved. Walks, rows and bounds are arguments of the lemmas, not variables: only the
last section is about steps.

The assumptions are those named in the modules (`QuestionsAreAsked`,
`IdsAreNumbered`, `MemoriesAreForeign`, `ContentsAreRanked`,
`FactKeysAreCanonical`, `ContentsAreFinite`, `FilesAreRanked`,
`ServersHaveNoBatches`, `KindsAreKnown`, `LegacyIsTyped`, `BoundsAreNat`, ...);
TLC evaluates them in every run. The hypotheses above (`NoneGoesOn`,
`OneDecides`, `NoneReturns`, `NoneIsOpaque`, `CallersImport`, `OneDefiner`,
`ParamsStay`, `NoScratchFacts`, `OnlyPassesDerive`, `TidyLegacy`) are those of the theorems that name them, and
the constants of the runs that check the property meet them.

Only model-checked is liveness, which the prover does not do: `UnitsLand`,
`SweepsSettle`, `IndexCatchesUp` and `ScratchGoes`.

## 6. Where the code and its documentation part

Two violation runs show a documented claim that a behaviour of the code does
not meet; `PROJECT.json` "findings" quotes each line.

| Run | What happens |
|---|---|
| `crash_loses_refs` | digests commit before references; a run that dies between certifies a file whose references are lost |
| `watch_stuck` | `watch` goes on after an error with a batch whose snapshot a server's cache row made stale, and never commits again |

The models show more of the same kind. Each needs only other constants or
another property in one of the configurations, which check what is left when the
case is excluded.

*Indexer* (`MCIndexer` has the texts and environments they take).

* `RefsAccounted` with a callee's file deleted: only `Imports` edges force the
  dependants of a deleted file (lib.rs:1352); an unchanged caller's call is
  pruned and not parked.
* `ImportsAccounted` with a crash and a deletion: the importers of a deleted
  file are known only in memory once it is removed (lib.rs:1348-1373), so the property
  is stated until a first crash. With an
  opaque text for an import target: a minified file has a digest row and no
  File node, so its return is not "a new path" and its disappearance forces
  nobody.
* `CompletedRunIsCurrent` with a crash and an upgrade: `indexed_version` is
  stamped before the re-extraction it stands for (lib.rs:1144).
* `WriteLastKeysCertify` when a parser override may be removed again (`Toggle`):
  a crash under an override, then its removal, looks like no change (lib.rs:1194).
* `LikeAFirstIndex`; the last four show why `FlowStaysFirst` has its hypotheses:
  * with a crash: a run that dies between the removal of a callee and the
    re-derivation loses the hops of its callers (lib.rs:1856) until they or
    everything is extracted again, so the property is stated until a first crash;
  * with `OpaqueTexts` (`NoneIsOpaque`): when a file that was opaque comes back, a
    parked call to it is bound and a parked import is not, since its path is not
    new; when it is deleted, its caller is no importer, is left alone and keeps an
    argument node of no hop;
  * with `LostParamTexts` (`ParamsStay`): a definition that loses its parameter leaves its
    return endpoints alone, so the replay counts as exact (lib.rs:457-482) and
    the callers' argument nodes stay, which a full index would not mint; the
    test at `crates/wicked-estate/tests/typescript_value_lineage.rs:2003` says
    "must leave exactly the graph a full index builds";
  * with `ShadowTexts` and nothing deleted (`OneDefiner`): a caller's call edge stays as it was
    when another file gains a nearer or an equal definition; a later edit of
    the old callee replays the caller's record against the new definitions, so
    the hops of that edge are lost while the edge stays. "Every other site's
    edges were never touched" (lib.rs:1853-1855) does not cover it;
  * with `BarrelTexts` (`CallersImport`): the callee of a caller that does not import it is
    deleted in a run that extracts nothing and restored in the next; the call
    edge, never pruned, is live again and its argument hop is gone.

*Response cache.*

* `HitsAreCurrent`: an answer computed while a run is at work is stored under
  the version the finished graph has, since the version is bumped first
  (lib.rs:1125). With `Writes = {"unversioned"}`: `supports retract` and
  `ingest_tfstate` never bump it.

*Approvals.*

* `VisibleIsWhole` with two deciding servers: the rollback of a failed approval
  removes the journal that hides another server's approval in flight
  (mcp/tools/proposals.rs:429).
* `RejectedStaysHidden`: a crash between capture and mark, then a rejection,
  leaves the memory recallable; so do an approver and a rejecter that both load
  the proposal as pending (proposal.rs:175-184).

*Memory tiers.*

* After one failed sidecar write, and until the process is restarted, every
  later `memory.reflect` folds the same memories into another summary: the
  sidecar still lists them as candidates. The comment at the fold says
  "archiving is idempotent, so the next pass does not fold the same memories
  again" (consolidate.rs:434-435). `FoldedOnce` excludes a
  memory that the sidecar lists as it was, and `MaxSummaries` bounds the
  summaries. A memory folded twice that way is folded again, by name, when one of
  its summaries is rebuilt, which is why `FoldedOnce` is about what a pass
  takes up and not about what is stored.
* `ScratchLeavesNoTrace` with a `fact` captured into the working tier: once it is
  confirmed five times, `promote_skills` makes a skill of it, since it asks for
  the kind and the confirmations and not for scratch (consolidate.rs:303-320).
  The comment at `is_scratch` says "Never distilled, never archived"
  (consolidate.rs:595), which is kept to the letter.
* `ErasedIsGone`: a pass that holds a copy of a memory another server erases
  writes it back; and an erased fact is distilled again from its episode. `erase`
  calls itself "right-to-erasure: hard-delete" (wicked-estate-memory/src/lib.rs:309).
* A crash between a fact and its `derived_from` edge loses the edge; one between
  the removal of a stale summary and its rebuilding leaves its surviving
  sources archival with no summary; one inside an erasure, or an error there,
  leaves cross-store rows of memories that are gone.
* `reinforce` writes a summary back without its `source_ids`.

*Traversal and overlay.*

* `depths` is documented as the "MIN distance from the seed SET"
  (traits.rs:154-155). The overlay's fold gives a memory the depth of the first
  anchor that reaches it. With several seeds, whose walks are listed one after
  another, and over a SQLite home, whose nodes are listed by name, that need not
  be the nearest.
* An edge whose foreign node is gone is put into the answer without its node.
* Without the assumption `QuestionsAreAsked`, SQLite's `LIMIT` on the frontier
  leaves a cut unmarked when `max_depth` is 0 and there are more seeds than
  `max_nodes`.
* `both` means another thing in the two stores: the in-memory walk may turn round
  at every node, SQLite walks each way separately, and can mark a horizon for a
  node that the other leg reached. The in-memory cap counts the start, SQLite's
  does not.

## 7. Not modelled

* **Extraction, retrieval and ranking, command line, formatting**, which are
  most of the repository's lines: pure functions of texts or graphs,
  floating-point scores and output. `Indexer` takes extraction as a function
  of the text.
* **Recall of the memory engine** and its ranking, coverage and listings: reads
  of one store.
* **Knowledge**: visibility by `deps`, the bounds of a walk, capture and erase
  of plain nodes, the two statements by which a reader selects nodes and looks
  for their journals.
* **Overlay**: the single-edge `neighbors` fold, the sweep of stale rows.
* **Indexer**: repository labels, estate edges, the import-map, infrastructure
  and rules-bridge resolvers, unreadable files, statistics.
* **Graph store**: history, change log, embeddings, annotations, access log,
  compaction, shortest path; read-only for, or independent of, the graph's
  consistency.
* **Flow merge**: `SupportProjection` takes its result as the set of
  contributing rows.
* **Connection pool**: its waits are those of the async runtime's blocking
  threads.
* **Postgres and SurrealDB backends**: the same operations, feature-gated; the
  writes of the in-memory store: the same contract with neither transactions
  nor search rows.
* **Observability, bench, adapters, site**: no graph state.

## 8. Plan

Modules: a reader in `ProposalQueue` that selects nodes and looks for their
journals in another statement; `FlowMerge`, the fold of flow facts as a pure
algorithm against the lattice; `Pool`; `ChangeLog`.

Theorems still to prove: `VisibleIsApproved` and `VisibleIsWhole` for the reader named
above, once it is modelled.
