------------------------------ MODULE NodeTables ------------------------------
(***************************************************************************)
(* The node side of SqliteStore: the tables symbols, node_files, nodes and *)
(* nodes_fts.  A symbol may be contributed by several files; its nodes row *)
(* is a projection of its preferred contribution, its nodes_fts rows mirror *)
(* that row, and its epoch (symbols.gen) tells one life of the symbol from *)
(* the next.  A path is its rank in the lexicographic order the SQL sorts  *)
(* by, and '' is NoFile, which sorts before every path.                    *)
(***************************************************************************)
EXTENDS Integers, Sequences

CONSTANTS
    Symbols,        \* interned symbol strings
    ImportSymbols,  \* the symbols whose node has kind Import
    Files,          \* paths, as their sort rank
    Revs,           \* contents a node record may carry (signature, doc, span)
    MaxEpoch,       \* bound of the model on symbols.gen
    NoNode          \* no nodes row

NoFile == 0

NodeRecord == [file : Files, isDef : {0, 1}, rev : Revs]

ASSUME ImportsAreSymbols == ImportSymbols \subseteq Symbols
ASSUME FilesAreRanked    == Files \subseteq Nat \ {NoFile}
ASSUME NoNodeIsNoRecord  == NoNode \notin NodeRecord
ASSUME EpochBound        == MaxEpoch \in Nat

VARIABLES
    nodeFiles,  \* node_files: the contributions of each symbol
    nodes,      \* nodes: the row of each symbol, or NoNode
    fts,        \* nodes_fts: the rows of each symbol, oldest first
    hadNode,    \* symbols.had_node: the symbols that ever had a node
    gen         \* symbols.gen: the epoch of each symbol

nodeVars == <<nodeFiles, nodes, fts, hadNode, gen>>

-----------------------------------------------------------------------------
Live(s)    == nodes[s] # NoNode
HomedIn(f) == {s \in Symbols : Live(s) /\ nodes[s].file = f}

\* ORDER BY is_def DESC, file ASC: a definition beats a declaration, then the
\* smallest path.
Preferable(c, d) ==
    \/ c.isDef > d.isDef
    \/ c.isDef = d.isDef /\ c.file < d.file

Preferred(C) == CHOOSE c \in C : \A d \in C \ {c} : Preferable(c, d)

\* The columns of a nodes_fts row that a node record determines.
Doc(row) == [isDef |-> row.isDef, rev |-> row.rev]

-----------------------------------------------------------------------------
(* upsert_nodes.  The argument new[s] holds the records of the call that    *)
(* name symbol s, at most one for each file.                                *)

Contribute(s, recs) ==
    {c \in nodeFiles[s] : \A r \in recs : r.file # c.file} \cup recs

\* Mutant of UpsertRows: the last record written is the one shown.
UpsertRowsLastWins(new) ==
    /\ gen' = gen
    /\ hadNode' = hadNode \cup {s \in Symbols : new[s] # {}}
    /\ nodeFiles' = [s \in Symbols |-> Contribute(s, new[s])]
    /\ nodes' = [s \in Symbols |-> IF new[s] = {} THEN nodes[s]
                                   ELSE CHOOSE r \in new[s] : TRUE]

UpsertRows(new) ==
    /\ \A s \in Symbols : new[s] # {} /\ s \in hadNode /\ ~Live(s)
                             => gen[s] < MaxEpoch
    /\ gen' = [s \in Symbols |-> IF new[s] # {} /\ s \in hadNode /\ ~Live(s)
                                 THEN gen[s] + 1 ELSE gen[s]]
    /\ hadNode' = hadNode \cup {s \in Symbols : new[s] # {}}
    /\ nodeFiles' = [s \in Symbols |-> Contribute(s, new[s])]
    /\ nodes' = [s \in Symbols |-> IF new[s] = {} THEN nodes[s]
                                   ELSE Preferred(Contribute(s, new[s]))]

\* upsert_nodes keeps nodes_fts in step row by row.
UpsertNodeTables(new) ==
    /\ UpsertRows(new)
    /\ fts' = [s \in Symbols |-> IF new[s] = {} THEN fts[s]
                                 ELSE <<Doc(nodes'[s])>>]

\* Mutant of WriteNodeTables: the rebuild inserts without deleting first.
WriteNodeTablesAppends(written, new) ==
    /\ UpsertRows(new)
    /\ fts' = [s \in Symbols |->
                  IF nodes'[s] # NoNode /\ nodes'[s].file \in written
                  THEN Append(fts[s], Doc(nodes'[s])) ELSE fts[s]]

\* upsert_nodes_skip_fts for every file of a write batch, then one
\* bulk_rebuild_fts_for_files over those files: it rewrites the rows of the
\* symbols homed in them after the upsert.
WriteNodeTables(written, new) ==
    /\ UpsertRows(new)
    /\ fts' = [s \in Symbols |->
                  IF nodes'[s] # NoNode /\ nodes'[s].file \in written
                  THEN <<Doc(nodes'[s])>> ELSE fts[s]]

-----------------------------------------------------------------------------
(* remove_file.  Step 1a drops the file's contributions and re-homes the    *)
(* symbols whose row was homed there onto a surviving contribution; step 1b *)
(* (home) keeps an Import node other files still import.                    *)

\* Mutant of Survivors: a contribution survives the removal of its own file.
SurvivorsAll(s, f) == nodeFiles[s]

\* Mutant of Rehomed: a removed file takes every node homed in it.
RehomedNever(f) == {}

Survivors(s, f) == {c \in nodeFiles[s] : c.file # f}
Rehomed(f)      == {s \in HomedIn(f) : Survivors(s, f) # {}}
Orphans(f)      == HomedIn(f) \ Rehomed(f)

\* home[s] is the new home of the Import node s, for the symbols kept.
RemoveFileNodeTables(f, kept, home) ==
    /\ nodeFiles' = [s \in Symbols |-> Survivors(s, f)]
    /\ nodes' = [s \in Symbols |->
                    CASE s \in Rehomed(f)        -> Preferred(Survivors(s, f))
                      [] s \in kept              -> [nodes[s] EXCEPT !.file = home[s]]
                      [] s \in Orphans(f) \ kept -> NoNode
                      [] OTHER                   -> nodes[s]]
    /\ fts' = [s \in Symbols |->
                  CASE s \in Rehomed(f)        -> <<Doc(Preferred(Survivors(s, f)))>>
                    [] s \in Orphans(f) \ kept -> << >>
                    [] OTHER                   -> fts[s]]
    /\ UNCHANGED <<hadNode, gen>>

\* remove_nodes: erasure takes the row, the contributions and the search rows,
\* and leaves the symbol interned with its epoch.
EraseNodeTables(ids) ==
    /\ nodeFiles' = [s \in Symbols |-> IF s \in ids THEN {} ELSE nodeFiles[s]]
    /\ nodes' = [s \in Symbols |-> IF s \in ids THEN NoNode ELSE nodes[s]]
    /\ fts' = [s \in Symbols |-> IF s \in ids THEN << >> ELSE fts[s]]
    /\ UNCHANGED <<hadNode, gen>>

NodeInit ==
    /\ nodeFiles = [s \in Symbols |-> {}]
    /\ nodes = [s \in Symbols |-> NoNode]
    /\ fts = [s \in Symbols |-> << >>]
    /\ hadNode = {}
    /\ gen = [s \in Symbols |-> 0]

NodeTypeOK ==
    /\ nodeFiles \in [Symbols -> SUBSET NodeRecord]
    /\ nodes \in [Symbols -> NodeRecord \cup {NoNode}]
    /\ fts \in [Symbols -> Seq([isDef : {0, 1}, rev : Revs])]
    /\ hadNode \in SUBSET Symbols
    /\ gen \in [Symbols -> 0..MaxEpoch]
=============================================================================
