----------------------------- MODULE MemoryTiers -----------------------------
(***************************************************************************)
(* MemoryEngine and MemoryApi: the memories of one engine, the pass behind  *)
(* memory.reflect that moves them up the tiers, and erasure.  A memory is a *)
(* node of the memory store; a sidecar file lists kind, tier, age and       *)
(* reinforcement of every memory and is what a pass selects from; a third   *)
(* file holds the cross-store edges.  No transaction spans two of them, so  *)
(* an operation is a sequence of commits (job.todo) that a failed statement *)
(* or the death of the process can cut anywhere.  Between two commits       *)
(* another server over the same files may erase a memory.                   *)
(*                                                                         *)
(* Confidence and salience are two-valued: a memory confirmed five times    *)
(* (used) passes the floor of promotion and stays above that of archiving,  *)
(* one never confirmed fails both, which is what the default weights give   *)
(* with fewer than MIN_SAMPLES memories.  Embeddings and recall are left    *)
(* out.                                                                    *)
(***************************************************************************)
EXTENDS Integers, Sequences, FiniteSets

CONSTANTS
    Above,         \* pairs of scopes: the first is the second or an ancestor of it
    Root,          \* the root scope
    NoFacets,      \* the empty facet set
    Capturable,    \* [kind, tier, place, text] a caller may capture; a place
                   \* is a scope and a facet set
    FactsIn,       \* the facts heuristic_extract finds in a text
    NamesIn,       \* the entity names it finds
    TTL,           \* WORKING_TTL_SECS
    OldAge,        \* the age at which a pass archives
    Legacy,        \* what 0.29.0 and 0.29.1 may have left: sets of memories
    MaxTime,       \* bounds of the model: the clock; captures, confirmations and
    MaxCalls,      \* erasures, what old releases left included; statements that
    MaxFaults,     \* fail, deaths and erasures by another server; summaries before
    MaxSummaries   \* passes over a sidecar that disagrees stop

Scopes == {p[1] : p \in Above}
Facets == {NoFacets} \cup {c.place.facets : c \in Capturable}
Places == [scope : Scopes, facets : Facets]
Texts  == DOMAIN FactsIn
Kinds  == {"working", "episode", "fact", "entity", "skill", "archive"}
Tiers  == {"working", "episodic", "semantic", "procedural", "archival"}

\* The id of the first memory that this version captures.
FirstId == 10
OldIds  == 1..(FirstId - 1)

ASSUME AboveIsAnOrder ==
    Root \in Scopes /\ \A s \in Scopes : <<s, s>> \in Above /\ <<Root, s>> \in Above
ASSUME TextsAreTexts ==
    {FactsIn, NamesIn} \subseteq [Texts -> SUBSET Texts] /\ "summary" \in Texts
ASSUME CapturableAreTyped ==
    Capturable \subseteq [kind : Kinds, tier : Tiers, place : Places, text : Texts]
ASSUME LegacyIsTyped ==
    \A M \in Legacy :
        /\ M \subseteq [id : OldIds, kind : Kinds, tier : Tiers, place : Places, born : {0},
                        text : Texts, used : BOOLEAN, sources : SUBSET OldIds]
        /\ \A m, n \in M : m.id = n.id => m = n
        /\ Cardinality({m \in M : m.kind # "archive"}) \in 0..MaxCalls
ASSUME AgesAreOrdered == TTL \in Nat /\ OldAge \in Nat /\ TTL < OldAge
ASSUME BoundsAreNat == {MaxTime, MaxCalls, MaxFaults, MaxSummaries} \subseteq Nat

VARIABLES
    store,     \* the memory nodes
    ext,       \* the sidecar rows
    links,     \* derived_from and mentions edges: [from, rel, to]
    cross,     \* the memories that have cross-store edges
    job,       \* the running operation
    now,
    next,      \* ids are uuids and never used again: the next one
    erased,    \* history: the ids that were erased
    taken,     \* history: those of them that another server erased
    calls, faults

files  == <<store, ext, links, cross>>
bounds == <<calls, faults>>
past   == <<erased, taken>>
vars   == <<files, job, now, next, past, bounds>>

Ids(M) == {m.id : m \in M}
Row(m) == [id |-> m.id, kind |-> m.kind, tier |-> m.tier, born |-> m.born, used |-> m.used]
Rows(M) == {Row(m) : m \in M}

\* What reconcile compares of the two files.
Fingerprint(R) == {[id |-> r.id, tier |-> r.tier, used |-> r.used] : r \in R}
Agrees == Fingerprint(ext) = Fingerprint(Rows(store))

\* hydrate: the ids a sidecar query returns, read from the store.
Hydrate(R) == {m \in store : m.id \in Ids(R)}

InScope(s, m) == <<s, m.place.scope>> \in Above
IsScratch(m)  == m.kind = "working" \/ m.tier = "working"

NoJob == [op |-> "none", scope |-> Root, phase |-> "end", round |-> 0, todo |-> <<>>,
          batch |-> {}, groups |-> {}, unsound |-> {}]
Idle  == job = NoJob

-----------------------------------------------------------------------------
(* One commit: of the store, of the sidecar, or of the cross-store edges. *)

Write(do, mems) == [do |-> do, mems |-> mems, edges |-> {}]
Link(edges)     == [do |-> "link", mems |-> {}, edges |-> edges]

\* Mutant of Put: an upsert that inserts.
PutBeside(M) == store \cup M

Put(M) == {m \in store : m.id \notin Ids(M)} \cup M
Without(M) == {m \in store : m.id \notin Ids(M)}

LinksWithout(M) == {e \in links : e.from \notin Ids(M) /\ e.to \notin Ids(M)}

Commit ==
    LET w == Head(job.todo)
    IN /\ job.todo # <<>>
       /\ job' = IF Len(job.todo) = 1 /\ job.phase = "end" THEN NoJob
                 ELSE [job EXCEPT !.todo = Tail(@)]
       /\ store' = CASE w.do = "put"    -> Put(w.mems)
                     [] w.do = "remove" -> Without(w.mems)
                     [] OTHER           -> store
       /\ links' = CASE w.do = "link"   -> links \cup w.edges
                     [] w.do = "remove" -> LinksWithout(w.mems)
                     [] OTHER           -> links
       /\ ext' = CASE w.do = "list"   -> {r \in ext : r.id \notin Ids(w.mems)} \cup Rows(w.mems)
                   [] w.do = "unlist" -> {r \in ext : r.id \notin Ids(w.mems)}
                   [] OTHER           -> ext
       /\ cross' = CASE w.do = "cross"   -> cross \cup Ids(w.mems)
                     [] w.do = "uncross" -> cross \ Ids(w.mems)
                     [] OTHER            -> cross
       /\ erased' = IF job.op = "erase" /\ w.do = "remove" THEN erased \cup Ids(w.mems) ELSE erased
       /\ UNCHANGED <<now, next, taken, bounds>>

New(kind, tier, place, text, sources) ==
    [id |-> next, kind |-> kind, tier |-> tier, place |-> place, born |-> now, text |-> text,
     used |-> FALSE, sources |-> sources]

\* MemoryEngine::capture of a memory made now.
CaptureWrites(m) == <<Write("put", {m}), Write("list", {m})>>

-----------------------------------------------------------------------------
(* memory.capture, learn, reinforce, memory.erase. *)

Capture(c) ==
    LET m == New(c.kind, c.tier, c.place, c.text, {})
    IN /\ Idle /\ calls < MaxCalls
       /\ job' = [NoJob EXCEPT !.op = "capture",
                               !.todo = CaptureWrites(m) \o <<Write("cross", {m})>>]
       /\ next' = next + 1 /\ calls' = calls + 1
       /\ UNCHANGED <<files, now, past, faults>>

\* The record written back is the decoded one: a summary's source ids are not
\* among its fields.
Reinforce(m) ==
    /\ Idle /\ calls < MaxCalls /\ m.kind = "fact" /\ ~m.used
    /\ job' = [NoJob EXCEPT !.op = "reinforce",
                            !.todo = CaptureWrites([m EXCEPT !.used = TRUE, !.sources = {}])]
    /\ calls' = calls + 1
    /\ UNCHANGED <<files, now, next, past, faults>>

\* Mutant of EraseWrites: the rows of the erased memories stay in the sidecar.
EraseWritesListed(M) == <<Write("remove", M), Write("uncross", M)>>

EraseWrites(M) == <<Write("remove", M), Write("unlist", M), Write("uncross", M)>>

Erase(M) ==
    /\ Idle /\ M # {} /\ calls < MaxCalls
    /\ job' = [NoJob EXCEPT !.op = "erase", !.todo = EraseWrites(M)]
    /\ calls' = calls + 1
    /\ UNCHANGED <<files, now, next, past, faults>>

EraseId(m)     == Erase({m})
EraseScope(s)  == s # Root /\ Erase({m \in store : InScope(s, m)})

\* The erase_id of another server: all of it, between two commits of ours.
ErasedElsewhere(m) ==
    /\ job # NoJob /\ faults < MaxFaults
    /\ store' = Without({m}) /\ links' = LinksWithout({m})
    /\ ext' = {r \in ext : r.id # m.id} /\ cross' = cross \ {m.id}
    /\ erased' = erased \cup {m.id} /\ taken' = taken \cup {m.id}
    /\ faults' = faults + 1
    /\ UNCHANGED <<job, now, next, calls>>

-----------------------------------------------------------------------------
(* memory.reflect: drop and repair, consolidate (drop and repair, distil,    *)
(* promote, select, drop and repair, summarize), and last the cross-store    *)
(* edges of what the first repair removed.                                  *)

Reflect(s) ==
    /\ Idle
    /\ Agrees \/ Cardinality({a \in store : a.kind = "archive"}) < MaxSummaries
    /\ job' = [NoJob EXCEPT !.op = "reflect", !.scope = s, !.phase = "expire", !.round = 1]
    /\ UNCHANGED <<files, now, next, past, bounds>>

At(phase) == job.todo = <<>> /\ job.phase = phase
Goto(phase, todo) == job' = [job EXCEPT !.phase = phase, !.todo = todo]

\* expired_working, by kind in every tier or by the tier.
Expired(s) == {m \in Hydrate({r \in ext : r.born <= now - TTL}) : IsScratch(m) /\ InScope(s, m)}

RemoveWrites(M) == IF M = {} THEN <<>> ELSE <<Write("remove", M), Write("unlist", M)>>

\* The first drop's removals are the ones whose cross-store edges go.
Remember(M) == IF job.round = 1 THEN job.unsound \cup M ELSE job.unsound

\* Mutant of Durable: a source counts while its node exists.
DurablePresent(a) == {m \in store : m.id \in a.sources}

Durable(a) == {m \in store : m.id \in a.sources /\ ~IsScratch(m)}
Stale == {a \in store : a.kind = "archive" /\ Ids(Durable(a)) # a.sources}

\* Mutant of Groups: one summary over the whole cluster.
GroupsWhole(M) == IF M = {} THEN {} ELSE {M}

\* archive_cluster: one group for each exact scope and facet set.
Groups(M) == {{m \in M : m.place = p} : p \in {x.place : x \in M}}

\* After a drop: the second one, distillation, or the summaries of the batch.
Dropped ==
    [job EXCEPT !.round = @ + 1, !.phase = <<"expire", "distil", "summarize">>[job.round],
                !.groups = IF job.round = 3 THEN Groups(job.batch) ELSE {}]

\* drop_expired_working, its first half.
DropExpired ==
    LET gone == Expired(job.scope)
    IN /\ At("expire")
       /\ job' = IF gone = {} /\ Stale = {} THEN Dropped
                 ELSE [job EXCEPT !.phase = "repair", !.todo = RemoveWrites(gone),
                                  !.unsound = Remember(gone)]
       /\ UNCHANGED <<files, now, next, past, bounds>>

\* Its second half: the summaries of scratch or of a memory that is gone.
RepairSummaries ==
    /\ At("repair")
    /\ job' = [job EXCEPT !.phase = "rebuild", !.todo = RemoveWrites(Stale),
                          !.unsound = Remember(Stale),
                          !.groups = Groups(UNION {Durable(a) : a \in Stale})]
    /\ UNCHANGED <<files, now, next, past, bounds>>

Moved(g) == {[m EXCEPT !.tier = "archival"] : m \in {x \in g : x.tier # "archival"}}

\* Mutant of FoldWrites: the summary is written before its sources move.
FoldWritesApart(g, a) ==
    <<Write("put", {a}), Write("put", Moved(g)), Write("list", Moved(g) \cup {a}),
      Link({[from |-> a.id, rel |-> "derived_from", to |-> m.id] : m \in g})>>

\* archive_group: the summary and its moved sources in one commit, then the
\* sidecar rows, then the edges.
FoldWrites(g, a) ==
    <<Write("put", Moved(g) \cup {a}), Write("list", Moved(g) \cup {a}),
      Link({[from |-> a.id, rel |-> "derived_from", to |-> m.id] : m \in g})>>

\* The groups in the order of their oldest members.
NextGroup == CHOOSE g \in job.groups :
    \E m \in g : \A x \in UNION job.groups : m.id <= x.id

Fold(g) ==
    LET place == (CHOOSE m \in g : TRUE).place
        a == New("archive", "archival", place, "summary", Ids(g))
    IN /\ job' = [job EXCEPT !.groups = @ \ {g}, !.todo = FoldWrites(g, a)]
       /\ next' = next + 1
       /\ UNCHANGED <<files, now, past, bounds>>

Rebuild ==
    /\ At("rebuild")
    /\ \/ job.groups # {} /\ Fold(NextGroup)
       \/ /\ job.groups = {}
          /\ job' = Dropped
          /\ UNCHANGED <<files, now, next, past, bounds>>

\* Mutant of Episodes: scratch captured without a tier is distilled.
EpisodesAll(s) == {m \in Hydrate({r \in ext : r.tier = "episodic"}) : InScope(s, m)}

\* recall_episodic_batch and what the floor finds in it.
Episodes(s) ==
    {m \in Hydrate({r \in ext : r.tier = "episodic"}) : ~IsScratch(m) /\ InScope(s, m)}

Distil ==
    /\ At("distil")
    /\ job' = [job EXCEPT !.phase = "write", !.batch =
          UNION {[from : {m}, kind : {"fact"}, text : FactsIn[m.text]]
                   \cup [from : {m}, kind : {"entity"}, text : NamesIn[m.text]]
                     : m \in Episodes(job.scope)}]
    /\ UNCHANGED <<files, now, next, past, bounds>>

\* Mutant of Twins: the memories the sidecar lists are looked at.
TwinsListed(kind, x, text) ==
    {m \in Hydrate(ext) : m.kind = kind /\ m.text = text /\ m.place.facets = x.place.facets
                   /\ IF kind = "entity" THEN <<m.place.scope, x.place.scope>> \in Above
                      ELSE m.place.scope = x.place.scope}

\* exists, and merge_candidates: an entity of the same facets at this scope or
\* above it.
Twins(kind, x, text) ==
    {m \in store : /\ m.kind = kind /\ m.text = text /\ m.place.facets = x.place.facets
                   /\ IF kind = "entity" THEN <<m.place.scope, x.place.scope>> \in Above
                      ELSE m.place.scope = x.place.scope}

Tier == [fact |-> "semantic", entity |-> "semantic", skill |-> "procedural"]

Edge(from, rel, to) == Link({[from |-> from.id, rel |-> rel, to |-> to.id]})

\* The commits for batch entry b: m is the memory it would make, e the one to
\* use, m itself unless a twin exists.
WritesOf(b, m, e) ==
    (IF e = m THEN CaptureWrites(m) ELSE <<>>) \o
    (IF b.kind = "entity" THEN <<Edge(b.from, "mentions", e)>>
     ELSE IF e = m THEN <<Edge(m, "derived_from", b.from)>> ELSE <<>>)

\* The oldest source first, its facts before its entities.
NextEntry == CHOOSE b \in job.batch : \A c \in job.batch :
    \/ b.from.id < c.from.id
    \/ b.from.id = c.from.id /\ (b.kind = "entity" => c.kind = "entity")

\* One fact, entity or skill of the batch: reused if there is one, else captured at
\* its source's place, and linked by a commit of its own.
WriteOne ==
    LET b     == NextEntry
        twins == Twins(b.kind, b.from, b.text)
        m     == New(b.kind, Tier[b.kind], b.from.place, b.text, {})
    IN /\ At("write") \/ At("mint")
       /\ job.batch # {}
       /\ job' = [job EXCEPT !.batch = @ \ {b}, !.todo =
                     WritesOf(b, m, IF twins = {} THEN m ELSE CHOOSE e \in twins : TRUE)]
       /\ next' = IF twins = {} THEN next + 1 ELSE next
       /\ UNCHANGED <<files, now, past, bounds>>

\* promote_skills: the facts confirmed often enough.
Promotable(s) ==
    {m \in Hydrate({r \in ext : r.kind = "fact" /\ r.used}) :
        m.kind = "fact" /\ m.used /\ InScope(s, m)}

Promote ==
    /\ At("write") /\ job.batch = {}
    /\ job' = [job EXCEPT !.phase = "mint", !.batch =
          {[from |-> m, kind |-> "skill", text |-> m.text] : m \in Promotable(job.scope)}]
    /\ UNCHANGED <<files, now, next, past, bounds>>

\* archive: the candidates are read before the last drop and folded after it.
Aged(s) ==
    {m \in Hydrate({r \in ext : r.tier \in {"episodic", "semantic"} /\ r.born <= now - OldAge}) :
        ~IsScratch(m) /\ InScope(s, m) /\ ~m.used}

Select ==
    /\ At("mint") /\ job.batch = {}
    /\ job' = [job EXCEPT !.phase = "expire", !.batch = Aged(job.scope)]
    /\ UNCHANGED <<files, now, next, past, bounds>>

Summarize ==
    /\ At("summarize")
    /\ \/ job.groups # {} /\ Fold(NextGroup)
       \/ /\ job.groups = {}
          /\ Goto("end", <<Write("uncross", job.unsound)>>)
          /\ UNCHANGED <<files, now, next, past, bounds>>

Pass ==
    \/ DropExpired \/ RepairSummaries \/ Rebuild
    \/ Distil \/ WriteOne \/ Promote \/ Select \/ Summarize

-----------------------------------------------------------------------------
(* Faults, restarts and time. *)

\* A statement fails: the operation returns the error, the engine goes on.
Fail ==
    /\ job # NoJob /\ faults < MaxFaults
    /\ job' = NoJob /\ faults' = faults + 1
    /\ UNCHANGED <<files, now, next, past, calls>>

\* Mutant of Reconciled: only an empty sidecar is rebuilt.
ReconciledWhenEmpty == IF ext = {} THEN Rows(store) ELSE ext

Reconciled == IF Agrees THEN ext ELSE Rows(store)

\* MemoryEngine::open by the next process, after this one ended or died.
Restart ==
    /\ job # NoJob => faults < MaxFaults
    /\ faults' = IF job = NoJob THEN faults ELSE faults + 1
    /\ job' = NoJob
    /\ ext' = Reconciled
    /\ UNCHANGED <<store, links, cross, now, next, past, calls>>

Tick ==
    /\ job = NoJob /\ now < MaxTime
    /\ now' = now + 1
    /\ UNCHANGED <<files, job, next, past, bounds>>

-----------------------------------------------------------------------------
Init ==
    /\ store \in Legacy
    /\ ext = Rows(store)
    /\ links = {} /\ cross = {}
    /\ job = NoJob /\ now = 0 /\ next = FirstId
    /\ erased = {} /\ taken = {} /\ faults = 0
    /\ calls = Cardinality({m \in store : m.kind # "archive"})

Next ==
    \/ Commit \/ Pass
    \/ \E c \in Capturable : Capture(c)
    \/ \E m \in store : Reinforce(m) \/ EraseId(m) \/ ErasedElsewhere(m)
    \/ \E s \in Scopes : EraseScope(s) \/ Reflect(s)
    \/ Fail \/ Restart \/ Tick

Spec == Init /\ [][Next]_vars

\* A started operation goes on, memory.reflect is asked for over the root again
\* and again, and servers are restarted.
FairSpec == Spec /\ WF_vars(Commit \/ Pass) /\ SF_vars(Reflect(Root)) /\ SF_vars(Idle /\ Restart)

-----------------------------------------------------------------------------
TiersTypeOK ==
    /\ \A m \in store : /\ m.id \in 1..next /\ m.kind \in Kinds /\ m.tier \in Tiers
                        /\ m.born \in 0..now /\ m.used \in BOOLEAN
                        /\ m.sources \in SUBSET (1..next)
    /\ \A m, n \in store : m.id = n.id => m = n
    /\ \A r, q \in ext : r.id = q.id => r = q
    /\ Ids(ext) \subseteq 1..next /\ cross \subseteq 1..next
    /\ job = NoJob \/ job.todo # <<>> \/ job.op = "reflect"
    /\ calls \in 0..MaxCalls /\ faults \in 0..MaxFaults

\* The queries a memory answers: those below its scope that carry its facets.
Recalls(m) == {q \in Scopes \X Facets : /\ <<m.place.scope, q[1]>> \in Above
                                        /\ m.place.facets \in {NoFacets, q[2]}}

Ours(a) == a.kind = "archive" /\ a.id >= FirstId
MadeFrom(d, m) ==
    \/ [from |-> d.id, rel |-> "derived_from", to |-> m.id] \in links
    \/ Ours(d) /\ m.id \in d.sources

\* Consolidation never widens who sees a memory: whatever was cut short, a fact,
\* a skill or a summary answers no query that its source would not.
NothingWidens ==
    \A d, m \in store :
        /\ MadeFrom(d, m) => Recalls(d) \subseteq Recalls(m)
        /\ [from |-> m.id, rel |-> "mentions", to |-> d.id] \in links => d.place.facets = m.place.facets

\* Session scratch leaves no trace: nothing is distilled from it, and no summary
\* that a pass of this version wrote covers it.
ScratchLeavesNoTrace ==
    \A m \in store : IsScratch(m) =>
        /\ \A d \in store : ~MadeFrom(d, m)
        /\ ~ \E e \in links : e.from = m.id /\ e.rel = "mentions"

\* A fact or a skill is kept once per place, however often passes are cut and
\* repeated.
DerivedOnce ==
    \A a, b \in store : (a.kind = b.kind /\ a.kind \in {"fact", "skill"}
                              /\ a.text = b.text /\ a.place = b.place) => a = b

\* No pass takes up a memory to fold that a summary of ours covers, whatever
\* passes died: unless the sidecar lists it as it was, which the next start repairs.
FoldedOnce ==
    [][(job.phase = "mint" /\ job'.phase = "expire") =>
          \A x \in job'.batch, a \in store :
              (Ours(a) /\ x.id \in a.sources) => Row(x) \notin ext]_vars

\* Between operations, and until a first fault, the three files agree: the sidecar
\* lists every memory as it is, and cross-store edges are of memories there are.
FilesAgree == (job = NoJob /\ faults = 0) => ext = Rows(store) /\ cross \subseteq Ids(store)

\* A pass that ends by itself leaves no expired scratch of its scope that the
\* sidecar lists, and no summary of scratch or of a memory that is gone.
PassCleans ==
    [][(job.op = "reflect" /\ job' = NoJob /\ faults' = faults) =>
          /\ \A m \in store' : IsScratch(m) /\ m.born <= now - TTL /\ InScope(job.scope, m)
                                => m.id \in taken \/ m.id \notin Ids(ext')
          /\ \A a \in store' : a.kind = "archive" =>
                \A i \in a.sources : i \in taken \/ \E m \in store' : m.id = i /\ ~IsScratch(m)]_vars

\* Once nothing is captured or erased and faults stop, expired scratch goes and
\* every summary becomes sound, whatever the sidecar had missed.
ScratchGoes ==
    <>[](Stale = {} /\ \A m \in store : ~(IsScratch(m) /\ m.born <= now - TTL))

\* memory.erase is a hard delete: an erased memory does not come back.
ErasedIsGone == erased \cap Ids(store) = {}
=============================================================================
