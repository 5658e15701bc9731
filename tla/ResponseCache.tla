---------------------------- MODULE ResponseCache ----------------------------
(***************************************************************************)
(* The two cache levels of the MCP servers against the processes that write *)
(* the graph.  Every server keeps answers in memory (L1) until it sees the  *)
(* graph version or the time of the database file move, and shares answers  *)
(* through the cache table (L2), whose rows are stamped with the graph      *)
(* version current when they are stored.  Calls do not share entries, so    *)
(* one call is modelled; an answer is the interval of graph revisions its   *)
(* reads saw.                                                              *)
(***************************************************************************)
EXTENDS Integers, FiniteSets

CONSTANTS
    Servers,      \* MCP server processes on one graph database
    Writes,       \* the writers that exist: "index", "evidence", "unversioned"
    NoAnswer,     \* a miss
    NoVersion,    \* the version a server has seen before its first request
    MaxVersion,   \* bound of the model: bumps of graph_version
    MaxRevision,  \* bound of the model: commits that change the graph
    MaxFileTime   \* bound of the model: checkpoints that touch the file

Answer == [from : 0..MaxRevision, to : 0..MaxRevision]

ASSUME BoundsAreNat == MaxVersion \in Nat /\ MaxRevision \in Nat /\ MaxFileTime \in Nat
ASSUME NoAnswerIsNone == NoAnswer \notin Answer
ASSUME NoVersionIsNone == NoVersion \notin Nat

VARIABLES
    graph,     \* the revision of the committed graph
    version,   \* meta.graph_version
    fileTime,  \* mtime of the database file; WAL commits leave it alone
    writer,    \* the writer at work: "idle", "indexing" or "evidence"
    l2,        \* rows of the cache table: [version, answer]
    l1,        \* request_cache of each server
    seenVersion, seenTime,  \* cache_graph_version and cache_db_mtime
    pc,        \* where each server is in its request loop
    answer,    \* the answer of the request in flight
    quiet      \* ghost: see StartRun

db      == <<graph, version, fileTime>>
servers == <<l1, seenVersion, seenTime, pc, answer>>
vars    == <<db, writer, l2, servers, quiet>>

AllIdle == \A s \in Servers : pc[s] = "idle"
Current == [from |-> graph, to |-> graph]

-----------------------------------------------------------------------------
(* One request of server s. *)

\* A request that arrives while a writer is at work may mix revisions.
CheckFileTime(s) ==
    /\ pc[s] = "idle"
    /\ pc' = [pc EXCEPT ![s] = "version"]
    /\ l1' = [l1 EXCEPT ![s] = IF seenTime[s] # fileTime THEN NoAnswer ELSE @]
    /\ seenTime' = [seenTime EXCEPT ![s] = fileTime]
    /\ quiet' = (quiet /\ writer = "idle")
    /\ UNCHANGED <<db, writer, l2, seenVersion, answer>>

\* Mutant of FirstLevel: the version is not compared.
FirstLevelByFileTime(s) == l1[s]

\* What L1 holds once the version has been compared.
FirstLevel(s) == IF seenVersion[s] # version THEN NoAnswer ELSE l1[s]

CheckVersion(s) ==
    /\ pc[s] = "version"
    /\ l1' = [l1 EXCEPT ![s] = FirstLevel(s)]
    /\ seenVersion' = [seenVersion EXCEPT ![s] = version]
    /\ answer' = [answer EXCEPT ![s] = FirstLevel(s)]
    /\ pc' = [pc EXCEPT ![s] = IF FirstLevel(s) = NoAnswer THEN "l2" ELSE "reply"]
    /\ UNCHANGED <<db, writer, l2, seenTime, quiet>>

SecondLevel == {r.answer : r \in {q \in l2 : q.version = version}}

\* An L2 hit warms L1.
LookUp(s) ==
    /\ pc[s] = "l2"
    /\ \/ /\ SecondLevel = {}
          /\ pc' = [pc EXCEPT ![s] = "dispatch"]
          /\ UNCHANGED <<l1, answer>>
       \/ \E a \in SecondLevel :
             /\ pc' = [pc EXCEPT ![s] = "reply"]
             /\ l1' = [l1 EXCEPT ![s] = a]
             /\ answer' = [answer EXCEPT ![s] = a]
    /\ UNCHANGED <<db, writer, l2, seenVersion, seenTime, quiet>>

\* The tool reads the graph with several statements, in no transaction.
BeginAnswer(s) ==
    /\ pc[s] = "dispatch"
    /\ pc' = [pc EXCEPT ![s] = "reading"]
    /\ answer' = [answer EXCEPT ![s] = Current]
    /\ UNCHANGED <<db, writer, l2, l1, seenVersion, seenTime, quiet>>

EndAnswer(s) ==
    LET a == [answer[s] EXCEPT !.to = graph]
    IN /\ pc[s] = "reading"
       /\ pc' = [pc EXCEPT ![s] = "store"]
       /\ answer' = [answer EXCEPT ![s] = a]
       /\ l1' = [l1 EXCEPT ![s] = a]
       /\ UNCHANGED <<db, writer, l2, seenVersion, seenTime, quiet>>

\* Mutant of Stored: a second row under one version.
StoredAgain(a) == l2 \cup {[version |-> version, answer |-> a]}

\* cache_put: the row of the current version, inserted or replaced.
Stored(a) == {r \in l2 : r.version # version} \cup {[version |-> version, answer |-> a]}

\* Best effort: an error of the write is ignored.
Store(s) ==
    /\ pc[s] = "store"
    /\ pc' = [pc EXCEPT ![s] = "reply"]
    /\ l2' \in {l2, Stored(answer[s])}
    /\ UNCHANGED <<db, writer, l1, seenVersion, seenTime, answer, quiet>>

Reply(s) ==
    /\ pc[s] = "reply"
    /\ pc' = [pc EXCEPT ![s] = "idle"]
    /\ answer' = [answer EXCEPT ![s] = NoAnswer]
    /\ UNCHANGED <<db, writer, l2, l1, seenVersion, seenTime, quiet>>

\* The server process ends, at any point, and another one starts.
Restart(s) ==
    /\ pc' = [pc EXCEPT ![s] = "idle"]
    /\ l1' = [l1 EXCEPT ![s] = NoAnswer]
    /\ answer' = [answer EXCEPT ![s] = NoAnswer]
    /\ seenVersion' = [seenVersion EXCEPT ![s] = NoVersion]
    /\ seenTime' = [seenTime EXCEPT ![s] = fileTime]
    /\ UNCHANGED <<db, writer, l2, quiet>>

-----------------------------------------------------------------------------
(* The writers. *)

\* Mutant of StartRun: a run that leaves the version alone.
StartRunWithoutBump ==
    /\ "index" \in Writes
    /\ writer = "idle"
    /\ writer' = "indexing"
    /\ quiet' = AllIdle
    /\ UNCHANGED <<db, l2, servers>>

\* An index run bumps the version before it writes anything.  The ghost quiet
\* says that no request has overlapped a write since the last bump, nor the
\* bump itself.
StartRun ==
    /\ "index" \in Writes
    /\ writer = "idle" /\ version < MaxVersion
    /\ writer' = "indexing"
    /\ version' = version + 1
    /\ quiet' = AllIdle
    /\ UNCHANGED <<graph, fileTime, l2, servers>>

\* Each batch of the run.
CommitBatch ==
    /\ writer = "indexing" /\ graph < MaxRevision
    /\ graph' = graph + 1
    /\ UNCHANGED <<version, fileTime, writer, l2, servers, quiet>>

\* The run ends, by itself or by dying: the version was moved at its start.
EndRun ==
    /\ writer = "indexing"
    /\ writer' = "idle"
    /\ UNCHANGED <<db, l2, servers, quiet>>

\* ingest_semantic_evidence applies the facts of an owner, then bumps.
ApplyEvidence ==
    /\ "evidence" \in Writes
    /\ writer = "idle" /\ graph < MaxRevision /\ version < MaxVersion
    /\ writer' = "evidence"
    /\ graph' = graph + 1
    /\ quiet' = FALSE
    /\ UNCHANGED <<version, fileTime, l2, servers>>

BumpAfterEvidence ==
    /\ writer = "evidence" /\ version < MaxVersion
    /\ writer' = "idle"
    /\ version' = version + 1
    /\ quiet' = AllIdle
    /\ UNCHANGED <<graph, fileTime, l2, servers>>

\* supports retract and ingest_tfstate write the graph and never bump.
WriteUnversioned ==
    /\ "unversioned" \in Writes
    /\ writer = "idle" /\ graph < MaxRevision
    /\ graph' = graph + 1
    /\ quiet' = FALSE
    /\ UNCHANGED <<version, fileTime, writer, l2, servers>>

\* A checkpoint moves WAL frames into the database file.
Checkpoint ==
    /\ fileTime < MaxFileTime
    /\ fileTime' = fileTime + 1
    /\ UNCHANGED <<graph, version, writer, l2, servers, quiet>>

-----------------------------------------------------------------------------
Init ==
    /\ graph = 0 /\ version = 0 /\ fileTime = 0
    /\ writer = "idle"
    /\ l2 = {}
    /\ l1 = [s \in Servers |-> NoAnswer]
    /\ seenVersion = [s \in Servers |-> NoVersion]
    /\ seenTime = [s \in Servers |-> fileTime]
    /\ pc = [s \in Servers |-> "idle"]
    /\ answer = [s \in Servers |-> NoAnswer]
    /\ quiet = TRUE

Serve(s) ==
    \/ CheckFileTime(s) \/ CheckVersion(s) \/ LookUp(s)
    \/ BeginAnswer(s) \/ EndAnswer(s) \/ Store(s) \/ Reply(s)

WriteGraph ==
    \/ StartRun \/ CommitBatch \/ EndRun
    \/ ApplyEvidence \/ BumpAfterEvidence
    \/ WriteUnversioned

Next ==
    \/ \E s \in Servers : Serve(s) \/ Restart(s)
    \/ WriteGraph
    \/ Checkpoint

Spec == Init /\ [][Next]_vars

-----------------------------------------------------------------------------
\* The cache table has one row for each version, none newer than the graph's.
CacheTypeOK ==
    /\ graph \in 0..MaxRevision /\ version \in 0..MaxVersion /\ fileTime \in 0..MaxFileTime
    /\ writer \in {"idle", "indexing", "evidence"}
    /\ l2 \in SUBSET [version : 0..version, answer : Answer]
    /\ \A q, r \in l2 : q.version = r.version => q = r
    /\ l1 \in [Servers -> Answer \cup {NoAnswer}]
    /\ seenVersion \in [Servers -> 0..version \cup {NoVersion}]
    /\ seenTime \in [Servers -> 0..MaxFileTime]
    /\ pc \in [Servers -> {"idle", "version", "l2", "dispatch", "reading", "store", "reply"}]
    /\ answer \in [Servers -> Answer \cup {NoAnswer}]
    /\ \A s \in Servers : pc[s] \in {"reading", "store", "reply"} => answer[s] # NoAnswer
    /\ quiet \in BOOLEAN

\* A bump that no request overlaps heals both levels: whatever was cached
\* before it, by races or by writers that do not bump, every reply from then on
\* shows the current graph until a request overlaps a write again.
QuietBumpHeals ==
    quiet => \A s \in Servers : pc[s] = "reply" => answer[s] = Current

\* The server's promise, "the agent always sees the current graph state": a
\* cached answer is used, while no writer is at work, only if it is current.
HitsAreCurrent ==
    [][\A s \in Servers :
          pc[s] \in {"version", "l2"} /\ pc'[s] = "reply" /\ writer = "idle"
             => answer'[s] = Current]_vars
=============================================================================
