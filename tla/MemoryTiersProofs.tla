-------------------------- MODULE MemoryTiersProofs --------------------------
(***************************************************************************)
(* What the memories of one engine can never show, whatever operation was   *)
(* cut short and whatever another server erased meanwhile.                  *)
(*                                                                         *)
(* A memory that was erased may come back: an operation holds copies, in    *)
(* the commits it has still to make, in the groups it will fold and in its  *)
(* batch.  So the invariants speak of every memory that is known, stored or *)
(* held, and of every edge, stored or about to be.  What they rest on is    *)
(* that two known memories with one id have one place, and that a new       *)
(* memory takes an id that no known memory, edge or summary names.          *)
(*                                                                         *)
(* What the three files say of each other rests on the order of an          *)
(* operation's commits (Shape, PairInv): the later sections follow a pass   *)
(* from its first drop to its last commit over the files a fault may have   *)
(* left.                                                                   *)
(***************************************************************************)
EXTENDS MemoryTiers, FiniteSetTheorems, SequenceTheorems, WellFoundedInduction, TLAPS

Id     == Nat \ {0}
Memory == [id : Id, kind : Kinds, tier : Tiers, place : Places, born : Nat, text : Texts,
           used : BOOLEAN, sources : SUBSET Id]
Listed == [id : Id, kind : Kinds, tier : Tiers, born : Nat, used : BOOLEAN]
Edges  == [from : Nat, rel : {"derived_from", "mentions"}, to : Nat]
Entry  == [from : Memory, kind : {"fact", "entity", "skill"}, text : Texts]
Writes == [do : {"put", "list", "link", "remove", "unlist", "cross", "uncross"},
           mems : SUBSET Memory, edges : SUBSET Edges]

Drop   == {"expire", "repair", "rebuild"}
Making == {"write", "mint"}
Phases == Drop \cup Making \cup {"distil", "summarize", "end"}

OneEach(M) == \A m, n \in M : m.id = n.id => m = n

\* A group to be folded: durable memories of one place.
Group(g) ==
    /\ g # {} /\ g \in SUBSET Memory /\ OneEach(g)
    /\ \A m, n \in g : m.place = n.place
    /\ \A m \in g : ~IsScratch(m)

\* What a commit writes; a list of commits, each of one copy of a memory.
Copies(w) == IF w.do \in {"put", "list", "cross"} THEN w.mems ELSE {}
Todo(s)   == s \in Seq(Writes) /\ \A i \in 1..Len(s) : OneEach(Copies(s[i]))

JobRecord == [op : {"none", "capture", "reinforce", "erase", "reflect"}, scope : Scopes,
              phase : Phases, round : 0..4, todo : Seq(Writes),
              batch : SUBSET (Memory \cup Entry), groups : SUBSET (SUBSET Memory),
              unsound : SUBSET Memory]

\* The steps of a pass: what its batch holds follows from where it is.
GoodJob(j) ==
    /\ j \in JobRecord
    /\ Todo(j.todo)
    /\ \A g \in j.groups : Group(g)
    /\ j.phase \in Drop => j.round \in 1..3
    /\ j.phase \in {"distil"} \cup Making => j.round = 3 /\ j.groups = {}
    /\ IF j.phase \in Making
       THEN /\ j.batch \in SUBSET Entry
            /\ \A b \in j.batch : IF b.kind = "skill" THEN b.from.kind = "fact" ELSE ~IsScratch(b.from)
       ELSE j.batch \in SUBSET Memory /\ OneEach(j.batch) /\ \A m \in j.batch : ~IsScratch(m)
    /\ j.op # "reflect" => j.phase = "end"
    /\ j = NoJob \/ j.todo # <<>> \/ j.op = "reflect"

StoreTyped ==
    /\ store \in SUBSET Memory /\ OneEach(store)
    /\ ext \in SUBSET Listed /\ OneEach(ext)
    /\ links \in SUBSET Edges /\ cross \in SUBSET Id
    /\ now \in Nat /\ next \in Nat /\ next >= FirstId
    /\ calls \in 0..MaxCalls /\ faults \in 0..MaxFaults

-----------------------------------------------------------------------------
(* What is known.                                                           *)

InWrites(s)  == UNION {Copies(s[i]) : i \in 1..Len(s)}
ToLink(s)    == UNION {s[i].edges : i \in 1..Len(s)}
Batched(j)   == IF j.phase \in Making THEN {b.from : b \in j.batch} ELSE j.batch
\* The memories that an operation may still write, and those it refers to.
Held(j)      == InWrites(j.todo) \cup (UNION j.groups) \cup Batched(j)
Known        == store \cup Held(job)
AllLinks     == links \cup ToLink(job.todo)

\* Two copies of a memory: used and tier change, but scratch stays scratch; only
\* a fact can lose its sources.
SameMemory(a, b) ==
    /\ a.id = b.id /\ a.place = b.place /\ a.kind = b.kind /\ a.text = b.text /\ a.born = b.born
    /\ a.kind = "archive" => a.sources = b.sources
    /\ IsScratch(a) <=> IsScratch(b)

\* Memories M and edges E are sound before id n, at time t: a derived memory is
\* at the place of its source, and its source is scratch only if it was a fact.
OldEnough(M, n, t) ==
    \A m \in M : m.id < n /\ m.born <= t /\ \A i \in m.sources : i < n
OneMemoryEach(M) == \A a, b \in M : a.id = b.id => SameMemory(a, b)
LinksSound(M, E, n) ==
    \A e \in E :
        /\ e.from < n /\ e.to < n
        /\ \A d, m \in M : d.id = e.from /\ m.id = e.to =>
              IF e.rel = "derived_from" THEN d.place = m.place
              ELSE d.place.facets = m.place.facets
        /\ \A m \in M :
              /\ e.rel = "derived_from" /\ m.id = e.to => (IsScratch(m) => m.kind = "fact")
              /\ e.rel = "mentions" /\ m.id = e.from => ~IsScratch(m)
SourcesSound(M) ==
    \A a, m \in M : Ours(a) /\ m.id \in a.sources => a.place = m.place /\ ~IsScratch(m)

\* What a host does that keeps facts out of the working tier: it captures none
\* there, and has none from an older release.  promote_skills does not look.
NoScratchFacts ==
    \A M \in {Capturable} \cup Legacy : \A m \in M : m.kind = "fact" => m.tier # "working"
FactsLast(M) == NoScratchFacts => \A m \in M : m.kind = "fact" => ~IsScratch(m)

Sound(M, E, n, t) ==
    M \in SUBSET Memory /\ E \in SUBSET Edges
      /\ OldEnough(M, n, t) /\ OneMemoryEach(M) /\ LinksSound(M, E, n) /\ SourcesSound(M)
      /\ FactsLast(M)

KnownSound == Sound(Known, AllLinks, next, now)
SidecarOld == \A r \in ext : r.id < next
CrossOld   == \A i \in cross : i < next

TiersInv == StoreTyped /\ GoodJob(job) /\ KnownSound /\ SidecarOld /\ CrossOld

LEMMA HeldParts ==
    ASSUME NEW j
    PROVE  /\ InWrites(j.todo) \subseteq Held(j) /\ Batched(j) \subseteq Held(j)
           /\ \A g \in j.groups : g \subseteq Held(j)
           /\ \A H : /\ InWrites(j.todo) \subseteq H /\ Batched(j) \subseteq H
                     /\ \A g \in j.groups : g \subseteq H
                     => Held(j) \subseteq H
<1>1. Held(j) = InWrites(j.todo) \cup (UNION j.groups) \cup Batched(j)
  BY DEF Held
<1>2. InWrites(j.todo) \subseteq Held(j) /\ Batched(j) \subseteq Held(j)
  BY <1>1
<1>3. UNION j.groups \subseteq Held(j)
  BY <1>1
<1>4. \A g \in j.groups : g \subseteq UNION j.groups
  OBVIOUS
<1>5. ASSUME NEW H, InWrites(j.todo) \subseteq H, Batched(j) \subseteq H,
             \A g \in j.groups : g \subseteq H
      PROVE  Held(j) \subseteq H
  <2>1. UNION j.groups \subseteq H
    BY <1>5
  <2>. QED BY <1>1, <1>5, <2>1
<1>. QED BY <1>2, <1>3, <1>4, <1>5

-----------------------------------------------------------------------------
LEMMA HasLeast ==
    ASSUME NEW S \in SUBSET Nat, S # {}
    PROVE  \E n \in S : \A m \in S : n <= m
<1> DEFINE R == OpToRel(<, Nat)
<1>1. IsWellFoundedOn(R, Nat)
  BY NatLessThanWellFounded
<1>2. \A a, b \in Nat : a < b => <<a, b>> \in R
  BY DEF OpToRel
<1> HIDE DEF R
<1>3. PICK n \in S : \A m \in S : <<m, n>> \notin R
  BY <1>1, WFMin
<1>4. ASSUME NEW m \in S PROVE n <= m
  <2>1. m \in Nat /\ n \in Nat
    OBVIOUS
  <2>2. ~(m < n)
    BY <1>2, <1>3, <2>1, Zenon
  <2>. QED BY <2>1, <2>2
<1>. QED BY <1>4

\* The invariant of fewer memories and edges.
LEMMA SoundShrinks ==
    ASSUME NEW M, NEW E, NEW n, NEW t, Sound(M, E, n, t), NEW N \in SUBSET M, NEW F \in SUBSET E
    PROVE  Sound(N, F, n, t)
<1>1. N \in SUBSET Memory /\ F \in SUBSET Edges
  BY DEF Sound
<1>. QED BY <1>1 DEF Sound, OldEnough, OneMemoryEach, LinksSound, SourcesSound, FactsLast

\* Other copies of memories that are known.
LEMMA SoundCopies ==
    ASSUME NEW M, NEW E, NEW n, NEW t, Sound(M, E, n, t), NEW C \in SUBSET Memory,
           \A c \in C : \E m \in M : SameMemory(c, m) /\ c.born = m.born /\ c.sources \subseteq m.sources
    PROVE  Sound(M \cup C, E, n, t)
<1> DEFINE Like(c) == CHOOSE m \in M : SameMemory(c, m) /\ c.born = m.born /\ c.sources \subseteq m.sources
<1>1. \A c \in C : /\ Like(c) \in M /\ SameMemory(c, Like(c)) /\ c.born = Like(c).born
                   /\ c.sources \subseteq Like(c).sources
  OBVIOUS
<1>2. \A c \in M : SameMemory(c, c)
  BY DEF SameMemory
<1>3. \A c \in M \cup C : \E m \in M : SameMemory(c, m) /\ c.born = m.born /\ c.sources \subseteq m.sources
  BY <1>1, <1>2
<1>4. OldEnough(M \cup C, n, t)
  BY <1>3 DEF Sound, OldEnough, SameMemory
<1>5. OneMemoryEach(M \cup C)
  BY <1>3 DEF Sound, OneMemoryEach, SameMemory
<1>6. LinksSound(M \cup C, E, n)
  BY <1>3 DEF Sound, LinksSound, SameMemory
<1>7. SourcesSound(M \cup C)
  BY <1>3 DEF Sound, SourcesSound, SameMemory, Ours
<1>8. FactsLast(M \cup C)
  BY <1>3 DEF Sound, FactsLast, SameMemory
<1>. QED BY <1>4, <1>5, <1>6, <1>7, <1>8 DEF Sound

\* A memory made now, under the next id.
LEMMA SoundNew ==
    ASSUME NEW n \in Nat, NEW t \in Nat, NEW M, NEW E, Sound(M, E, n, t),
           NEW a \in Memory, a.id = n, a.born = t,
           \A i \in a.sources : i < n,
           NoScratchFacts => (a.kind = "fact" => ~IsScratch(a)),
           Ours(a) => \A m \in M : m.id \in a.sources => a.place = m.place /\ ~IsScratch(m)
    PROVE  Sound(M \cup {a}, E, n + 1, t)
<1>0. M \in SUBSET Memory /\ E \in SUBSET Edges /\ \A m \in M : m.id \in Nat /\ m.id < n
  BY DEF Sound, OldEnough, Memory, Id
<1>1. OldEnough(M \cup {a}, n + 1, t)
  <2>1. a.sources \in SUBSET Nat
    BY DEF Memory, Id
  <2>2. \A m \in M : m.sources \in SUBSET Nat
    BY <1>0 DEF Memory, Id
  <2>. QED BY <1>0, <2>1, <2>2 DEF Sound, OldEnough
<1>2. \A m \in M : m.id # a.id
  BY <1>0
<1>3. OneMemoryEach(M \cup {a})
  BY <1>2 DEF Sound, OneMemoryEach, SameMemory
<1>4. \A e \in E : e.from # n /\ e.to # n /\ e.from < n + 1 /\ e.to < n + 1
  BY <1>0 DEF Sound, LinksSound, Edges
<1>5. LinksSound(M \cup {a}, E, n + 1)
  BY <1>4 DEF Sound, LinksSound
<1>6. \A m \in M : n \notin m.sources
  BY <1>0 DEF Sound, OldEnough
<1>7. SourcesSound(M \cup {a})
  BY <1>6 DEF Sound, SourcesSound
<1>8. FactsLast(M \cup {a})
  BY DEF Sound, FactsLast
<1>. QED BY <1>0, <1>1, <1>3, <1>5, <1>7, <1>8 DEF Sound

\* Edges that are sound among the memories.
LEMMA SoundLinks ==
    ASSUME NEW M, NEW E, NEW n, NEW t, Sound(M, E, n, t), NEW F \in SUBSET Edges, LinksSound(M, F, n)
    PROVE  Sound(M, E \cup F, n, t)
  BY DEF Sound, LinksSound

\* Sets of writes.
LEMMA FirstWrite ==
    ASSUME NEW s \in Seq(Writes), s # <<>>
    PROVE  /\ Head(s) \in Writes /\ Tail(s) \in Seq(Writes)
           /\ Copies(Head(s)) \subseteq InWrites(s) /\ Head(s).edges \subseteq ToLink(s)
           /\ InWrites(Tail(s)) \subseteq InWrites(s) /\ ToLink(Tail(s)) \subseteq ToLink(s)
<1>1. Len(s) \in Nat \ {0} /\ Head(s) = s[1] /\ Tail(s) \in Seq(Writes) /\ Len(Tail(s)) = Len(s) - 1
  OBVIOUS
<1>2. \A i \in 1..Len(Tail(s)) : Tail(s)[i] = s[i + 1] /\ i + 1 \in 1..Len(s)
  BY <1>1
<1>. QED BY <1>1, <1>2 DEF InWrites, ToLink

LEMMA NoWrites == InWrites(<<>>) = {} /\ ToLink(<<>>) = {}
  BY DEF InWrites, ToLink

LEMMA OneWrite ==
    ASSUME NEW w
    PROVE  InWrites(<<w>>) = Copies(w) /\ ToLink(<<w>>) = w.edges
  BY DEF InWrites, ToLink

LEMMA WritesConcat ==
    ASSUME NEW s \in Seq(Writes), NEW r \in Seq(Writes)
    PROVE  /\ s \o r \in Seq(Writes)
           /\ InWrites(s \o r) = InWrites(s) \cup InWrites(r)
           /\ ToLink(s \o r) = ToLink(s) \cup ToLink(r)
           /\ \A i \in 1..Len(s \o r) :
                 \/ \E k \in 1..Len(s) : (s \o r)[i] = s[k]
                 \/ \E k \in 1..Len(r) : (s \o r)[i] = r[k]
<1>1. /\ s \o r \in Seq(Writes) /\ Len(s \o r) = Len(s) + Len(r)
      /\ \A i \in 1..Len(s) : (s \o r)[i] = s[i]
      /\ \A i \in 1..Len(r) : (s \o r)[Len(s) + i] = r[i]
      /\ Len(s) \in Nat /\ Len(r) \in Nat
  OBVIOUS
<1>2. \A i \in 1..Len(s \o r) : i \in 1..Len(s) \/ (i - Len(s) \in 1..Len(r) /\ i = Len(s) + (i - Len(s)))
  BY <1>1
<1>3. \A i \in 1..Len(s \o r) :
         \/ \E k \in 1..Len(s) : (s \o r)[i] = s[k]
         \/ \E k \in 1..Len(r) : (s \o r)[i] = r[k]
  BY <1>1, <1>2
<1>4. /\ \A i \in 1..Len(s) : i \in 1..Len(s \o r)
      /\ \A i \in 1..Len(r) : Len(s) + i \in 1..Len(s \o r)
  BY <1>1
<1>5. InWrites(s \o r) \subseteq InWrites(s) \cup InWrites(r)
  BY <1>3 DEF InWrites
<1>6. InWrites(s) \subseteq InWrites(s \o r) /\ InWrites(r) \subseteq InWrites(s \o r)
  BY <1>1, <1>4 DEF InWrites
<1>7. ToLink(s \o r) \subseteq ToLink(s) \cup ToLink(r)
  BY <1>3 DEF ToLink
<1>8. ToLink(s) \subseteq ToLink(s \o r) /\ ToLink(r) \subseteq ToLink(s \o r)
  BY <1>1, <1>4 DEF ToLink
<1>. QED BY <1>1, <1>3, <1>5, <1>6, <1>7, <1>8

LEMMA TodoNone == Todo(<<>>)
  BY DEF Todo

LEMMA TodoOne ==
    ASSUME NEW w \in Writes, OneEach(Copies(w))
    PROVE  Todo(<<w>>)
  BY DEF Todo

LEMMA TodoConcat ==
    ASSUME NEW s, NEW r, Todo(s), Todo(r)
    PROVE  /\ Todo(s \o r)
           /\ InWrites(s \o r) = InWrites(s) \cup InWrites(r)
           /\ ToLink(s \o r) = ToLink(s) \cup ToLink(r)
<1>1. s \in Seq(Writes) /\ r \in Seq(Writes)
  BY DEF Todo
<1>. QED BY <1>1, WritesConcat DEF Todo

LEMMA TodoTail ==
    ASSUME NEW s, Todo(s), s # <<>>
    PROVE  Todo(Tail(s))
<1>1. /\ s \in Seq(Writes) /\ Len(s) \in Nat \ {0} /\ Len(Tail(s)) = Len(s) - 1
      /\ \A i \in 1..Len(Tail(s)) : Tail(s)[i] = s[i + 1] /\ i + 1 \in 1..Len(s)
  BY DEF Todo
<1>. QED BY <1>1, FirstWrite DEF Todo

LEMMA WriteIsTyped ==
    ASSUME NEW do \in {"put", "list", "cross"}, NEW M \in SUBSET Memory, OneEach(M)
    PROVE  /\ Todo(<<Write(do, M)>>) /\ InWrites(<<Write(do, M)>>) = M
           /\ ToLink(<<Write(do, M)>>) = {}
<1>1. Write(do, M) \in Writes /\ Copies(Write(do, M)) = M /\ Write(do, M).edges = {}
  BY DEF Write, Writes, Copies
<1>. QED BY <1>1, TodoOne, OneWrite

LEMMA RemovalIsTyped ==
    ASSUME NEW do \in {"remove", "unlist", "uncross"}, NEW M \in SUBSET Memory
    PROVE  /\ Todo(<<Write(do, M)>>) /\ InWrites(<<Write(do, M)>>) = {}
           /\ ToLink(<<Write(do, M)>>) = {} /\ <<Write(do, M)>> # <<>>
<1>1. /\ Write(do, M) \in Writes /\ Copies(Write(do, M)) = {} /\ Write(do, M).edges = {}
      /\ OneEach({})
  BY DEF Write, Writes, Copies, OneEach
<1>. QED BY <1>1, TodoOne, OneWrite

LEMMA LinkIsTyped ==
    ASSUME NEW E \in SUBSET Edges
    PROVE  Todo(<<Link(E)>>) /\ InWrites(<<Link(E)>>) = {} /\ ToLink(<<Link(E)>>) = E
<1>1. Link(E) \in Writes /\ Copies(Link(E)) = {} /\ Link(E).edges = E /\ OneEach({})
  BY DEF Link, Writes, Copies, OneEach
<1>. QED BY <1>1, TodoOne, OneWrite

LEMMA CaptureWritesTyped ==
    ASSUME NEW m \in Memory
    PROVE  /\ Todo(CaptureWrites(m)) /\ InWrites(CaptureWrites(m)) = {m} /\ ToLink(CaptureWrites(m)) = {}
           /\ LET s == CaptureWrites(m) \o <<Write("cross", {m})>>
              IN Todo(s) /\ InWrites(s) = {m} /\ ToLink(s) = {}
<1>1. CaptureWrites(m) = <<Write("put", {m})>> \o <<Write("list", {m})>>
  BY DEF CaptureWrites
<1>2. OneEach({m})
  BY DEF OneEach
<1>3. Todo(CaptureWrites(m)) /\ InWrites(CaptureWrites(m)) = {m} /\ ToLink(CaptureWrites(m)) = {}
  BY <1>1, <1>2, WriteIsTyped, TodoConcat
<1> DEFINE w == <<Write("cross", {m})>>
<1>4. Todo(w) /\ InWrites(w) = {m} /\ ToLink(w) = {}
  BY <1>2, WriteIsTyped
<1> HIDE DEF w
<1>5. Todo(CaptureWrites(m) \o w) /\ InWrites(CaptureWrites(m) \o w) = {m}
      /\ ToLink(CaptureWrites(m) \o w) = {}
  BY <1>3, <1>4, TodoConcat
<1>. QED BY <1>3, <1>5 DEF w

LEMMA RemoveWritesTyped ==
    ASSUME NEW M \in SUBSET Memory
    PROVE  Todo(RemoveWrites(M)) /\ InWrites(RemoveWrites(M)) = {} /\ ToLink(RemoveWrites(M)) = {}
<1>1. CASE M = {}
  BY <1>1, TodoNone, NoWrites DEF RemoveWrites
<1>2. CASE M # {}
  <2> DEFINE a == <<Write("remove", M)>>
             b == <<Write("unlist", M)>>
  <2>1. RemoveWrites(M) = a \o b
    BY <1>2 DEF RemoveWrites
  <2>2. /\ Todo(a) /\ InWrites(a) = {} /\ ToLink(a) = {}
        /\ Todo(b) /\ InWrites(b) = {} /\ ToLink(b) = {}
    BY RemovalIsTyped
  <2> HIDE DEF a, b
  <2>3. Todo(a \o b) /\ InWrites(a \o b) = {} /\ ToLink(a \o b) = {}
    BY <2>2, TodoConcat
  <2>. QED BY <2>1, <2>3
<1>. QED BY <1>1, <1>2

LEMMA EraseWritesTyped ==
    ASSUME NEW M \in SUBSET Memory
    PROVE  /\ Todo(EraseWrites(M)) /\ InWrites(EraseWrites(M)) = {} /\ ToLink(EraseWrites(M)) = {}
           /\ EraseWrites(M) # <<>>
<1> DEFINE a == <<Write("remove", M)>>
           b == <<Write("unlist", M)>>
           c == <<Write("uncross", M)>>
<1>1. EraseWrites(M) = (a \o b) \o c /\ EraseWrites(M) # <<>>
  BY DEF EraseWrites
<1>2. /\ Todo(a) /\ InWrites(a) = {} /\ ToLink(a) = {}
      /\ Todo(b) /\ InWrites(b) = {} /\ ToLink(b) = {}
      /\ Todo(c) /\ InWrites(c) = {} /\ ToLink(c) = {}
  BY RemovalIsTyped
<1> HIDE DEF a, b, c
<1>3. Todo(a \o b) /\ InWrites(a \o b) = {} /\ ToLink(a \o b) = {}
  BY <1>2, TodoConcat
<1>4. Todo((a \o b) \o c) /\ InWrites((a \o b) \o c) = {} /\ ToLink((a \o b) \o c) = {}
  BY <1>2, <1>3, TodoConcat
<1>. QED BY <1>1, <1>4

LEMMA RowsAreListed ==
    ASSUME NEW M \in SUBSET Memory, OneEach(M)
    PROVE  /\ Rows(M) \in SUBSET Listed /\ OneEach(Rows(M)) /\ Ids(Rows(M)) = Ids(M)
<1>1. \A m \in M : Row(m) \in Listed /\ Row(m).id = m.id
  BY DEF Row, Memory, Id, Listed
<1>2. Ids(Rows(M)) = Ids(M)
  BY <1>1 DEF Ids, Rows
<1>3. OneEach(Rows(M))
  BY <1>1 DEF Rows, OneEach
<1>. QED BY <1>1, <1>2, <1>3 DEF Rows

-----------------------------------------------------------------------------
LEMMA NoJobIsGood == GoodJob(NoJob) /\ Held(NoJob) = {} /\ ToLink(NoJob.todo) = {}
<1>1. /\ NoJob.op = "none" /\ NoJob.phase = "end" /\ NoJob.todo = <<>> /\ NoJob.batch = {}
      /\ NoJob.groups = {}
  BY DEF NoJob
<1>2. NoJob \in JobRecord
  BY AboveIsAnOrder DEF NoJob, Phases, JobRecord
<1>3. GoodJob(NoJob)
  BY <1>1, <1>2, TodoNone DEF GoodJob, Drop, Making, OneEach
<1>. QED BY <1>1, <1>3, NoWrites DEF Held, Batched, Making

\* The job without its first commit.
LEMMA TailIsGood ==
    ASSUME NEW j, GoodJob(j), j.todo # <<>>,
           NEW k, k = IF Len(j.todo) = 1 /\ j.phase = "end" THEN NoJob ELSE [j EXCEPT !.todo = Tail(@)]
    PROVE  /\ GoodJob(k) /\ Held(k) \subseteq Held(j) /\ ToLink(k.todo) \subseteq ToLink(j.todo)
           /\ Head(j.todo) \in Writes /\ OneEach(Copies(Head(j.todo)))
           /\ Copies(Head(j.todo)) \subseteq Held(j) /\ Head(j.todo).edges \subseteq ToLink(j.todo)
<1>1. /\ j.todo \in Seq(Writes) /\ Todo(j.todo) /\ Len(j.todo) \in Nat \ {0} /\ Head(j.todo) = j.todo[1]
      /\ Len(Tail(j.todo)) = Len(j.todo) - 1
  BY DEF GoodJob, JobRecord
<1>2. /\ Head(j.todo) \in Writes /\ OneEach(Copies(Head(j.todo)))
      /\ Copies(Head(j.todo)) \subseteq Held(j) /\ Head(j.todo).edges \subseteq ToLink(j.todo)
  BY <1>1, FirstWrite DEF Todo, Held
<1>3. CASE k = NoJob
  BY <1>2, <1>3, NoJobIsGood
<1>4. CASE k = [j EXCEPT !.todo = Tail(@)] /\ ~(Len(j.todo) = 1 /\ j.phase = "end")
  <2>1. Todo(Tail(j.todo)) /\ Tail(j.todo) \in Seq(Writes)
    BY <1>1, TodoTail, FirstWrite
  <2>2. /\ k.todo = Tail(j.todo) /\ k.op = j.op /\ k.phase = j.phase /\ k.round = j.round
        /\ k.batch = j.batch /\ k.groups = j.groups
    BY <1>4 DEF GoodJob, JobRecord
  <2>3. k.todo # <<>> \/ k.op = "reflect"
    <3>1. j.op = "reflect" \/ Len(j.todo) # 1
      BY <1>4 DEF GoodJob
    <3>2. Len(j.todo) # 1 => Len(Tail(j.todo)) # 0
      BY <1>1
    <3>3. Len(<<>>) = 0
      OBVIOUS
    <3>. QED BY <2>2, <3>1, <3>2, <3>3
  <2>4. k \in JobRecord
    BY <1>4, <2>1 DEF GoodJob, JobRecord
  <2>5. GoodJob(k)
    BY <2>1, <2>2, <2>3, <2>4 DEF GoodJob
  <2>. QED BY <1>1, <1>2, <2>2, <2>5, FirstWrite DEF Held, Batched
<1>. QED BY <1>3, <1>4

\* A sidecar statement over memories that are known.
LEMMA ListIsTyped ==
    ASSUME NEW R \in SUBSET Listed, OneEach(R), NEW M \in SUBSET Memory, OneEach(M)
    PROVE  LET L == {r \in R : r.id \notin Ids(M)} \cup Rows(M)
           IN L \in SUBSET Listed /\ OneEach(L)
<1>1. Rows(M) \in SUBSET Listed /\ OneEach(Rows(M)) /\ Ids(Rows(M)) = Ids(M)
  BY RowsAreListed
<1>2. \A r \in Rows(M) : r.id \in Ids(M)
  BY <1>1 DEF Ids
<1>. QED BY <1>1, <1>2 DEF OneEach

LEMMA CommitKeeps ==
    ASSUME TiersInv, Commit
    PROVE  TiersInv'
<1> DEFINE w == Head(job.todo)
<1>1. /\ GoodJob(job') /\ Held(job') \subseteq Held(job) /\ ToLink(job'.todo) \subseteq ToLink(job.todo)
      /\ w \in Writes /\ OneEach(Copies(w)) /\ Copies(w) \subseteq Held(job) /\ w.edges \subseteq ToLink(job.todo)
  BY TailIsGood DEF TiersInv, Commit
<1>2. /\ w.mems \in SUBSET Memory /\ w.edges \in SUBSET Edges
      /\ \A m \in w.mems : m.id \in Id
      /\ \A m \in Copies(w) : m \in Known /\ m.id < next
  BY <1>1 DEF Writes, Copies, Memory, Id, Known, TiersInv, KnownSound, Sound, OldEnough
<1>3. /\ store' = CASE w.do = "put"    -> Put(w.mems)
                    [] w.do = "remove" -> Without(w.mems)
                    [] OTHER           -> store
      /\ links' = CASE w.do = "link"   -> links \cup w.edges
                    [] w.do = "remove" -> LinksWithout(w.mems)
                    [] OTHER           -> links
      /\ ext' = CASE w.do = "list"   -> {r \in ext : r.id \notin Ids(w.mems)} \cup Rows(w.mems)
                  [] w.do = "unlist" -> {r \in ext : r.id \notin Ids(w.mems)}
                  [] OTHER           -> ext
      /\ cross' = CASE w.do = "cross"   -> cross \cup Ids(w.mems)
                    [] w.do = "uncross" -> cross \ Ids(w.mems)
                    [] OTHER            -> cross
      /\ UNCHANGED <<now, next, calls, faults>>
  BY DEF Commit, bounds
<1> HIDE DEF w
<1>a. w.do \in {"put", "list", "cross"} => Copies(w) = w.mems
  BY DEF Copies
<1>4. /\ store' \subseteq store \cup Copies(w) /\ OneEach(store')
  <2>1. w.do = "put" => OneEach(Put(w.mems))
    BY <1>1, <1>a DEF TiersInv, StoreTyped, OneEach, Put, Ids
  <2>2. OneEach(Without(w.mems)) /\ OneEach(store)
    BY DEF TiersInv, StoreTyped, OneEach, Without
  <2>. QED BY <1>3, <1>a, <2>1, <2>2 DEF Put, Without
<1>5. links' \subseteq links \cup w.edges
  BY <1>3 DEF LinksWithout
<1>6. ext' \in SUBSET Listed /\ OneEach(ext') /\ \A r \in ext' : r.id < next
  <2> DEFINE less == {r \in ext : r.id \notin Ids(w.mems)}
  <2>1. ext \in SUBSET Listed /\ OneEach(ext) /\ \A r \in ext : r.id < next
    BY DEF TiersInv, StoreTyped, SidecarOld
  <2>2. w.do = "list" =>
           less \cup Rows(w.mems) \in SUBSET Listed /\ OneEach(less \cup Rows(w.mems))
    BY <1>1, <1>2, <1>a, <2>1, ListIsTyped
  <2>3. w.do = "list" => \A r \in Rows(w.mems) : r.id < next
    BY <1>2, <1>a DEF Rows, Row
  <2>4. less \in SUBSET Listed /\ OneEach(less)
    BY <2>1 DEF OneEach
  <2>5. ext' \in {ext, less} \/ (w.do = "list" /\ ext' = less \cup Rows(w.mems))
    BY <1>3
  <2>. QED BY <2>1, <2>2, <2>3, <2>4, <2>5
<1>7. cross' \in SUBSET Id /\ \A i \in cross' : i < next
  BY <1>2, <1>3, <1>a DEF Ids, TiersInv, StoreTyped, CrossOld
<1>8. Known' \subseteq Known /\ AllLinks' \subseteq AllLinks
  BY <1>1, <1>4, <1>5 DEF Known, AllLinks
<1>9. KnownSound'
  BY <1>3, <1>8, SoundShrinks DEF TiersInv, KnownSound
<1>10. StoreTyped'
  BY <1>1, <1>2, <1>3, <1>4, <1>5, <1>6, <1>7, <1>8 DEF TiersInv, StoreTyped, KnownSound, Sound, AllLinks
<1>. QED BY <1>1, <1>3, <1>6, <1>7, <1>9, <1>10 DEF TiersInv, SidecarOld, CrossOld

-----------------------------------------------------------------------------
\* A step that leaves the files alone: what the operation holds is among
\* memories that are sound together.
LEMMA HeldKeeps ==
    ASSUME TiersInv, UNCHANGED files, UNCHANGED now, GoodJob(job'),
           calls' \in 0..MaxCalls, faults' \in 0..MaxFaults, next' \in {next, next + 1},
           NEW N, NEW F, Sound(N, F, next', now),
           store \cup Held(job') \subseteq N, links \cup ToLink(job'.todo) \subseteq F
    PROVE  TiersInv'
<1>1. Sound(Known', AllLinks', next', now')
  BY SoundShrinks DEF Known, AllLinks, files
<1>2. StoreTyped'
  BY DEF TiersInv, StoreTyped, files, FirstId
<1>3. SidecarOld' /\ CrossOld'
  BY DEF TiersInv, StoreTyped, SidecarOld, CrossOld, files, Listed, Id
<1>. QED BY <1>1, <1>2, <1>3 DEF TiersInv, KnownSound

\* ... as when it only holds what was known.
LEMMA LessKeeps ==
    ASSUME TiersInv, UNCHANGED files, UNCHANGED <<now, next>>, GoodJob(job'),
           calls' \in 0..MaxCalls, faults' \in 0..MaxFaults,
           Held(job') \subseteq Known, ToLink(job'.todo) \subseteq AllLinks
    PROVE  TiersInv'
<1>1. store \subseteq Known /\ links \subseteq AllLinks
  BY DEF Known, AllLinks
<1>2. Sound(Known, AllLinks, next', now)
  BY DEF TiersInv, KnownSound
<1>. QED BY <1>1, <1>2, HeldKeeps

LEMMA NewIsTyped ==
    ASSUME TiersInv, NEW kind \in Kinds, NEW tier \in Tiers, NEW place \in Places, NEW text \in Texts,
           NEW S \in SUBSET Id
    PROVE  LET m == New(kind, tier, place, text, S)
           IN /\ m \in Memory /\ m.id = next /\ m.born = now /\ m.kind = kind /\ m.tier = tier
              /\ m.place = place /\ m.text = text /\ m.sources = S
  BY DEF New, Memory, Id, TiersInv, StoreTyped, FirstId

\* An operation other than a pass: the commits it has to make.
LEMMA CallIsGood ==
    ASSUME NEW op \in {"capture", "reinforce", "erase"}, NEW s, Todo(s), s # <<>>
    PROVE  LET j == [NoJob EXCEPT !.op = op, !.todo = s]
           IN GoodJob(j) /\ Held(j) = InWrites(s) /\ j.todo = s
<1> DEFINE j == [NoJob EXCEPT !.op = op, !.todo = s]
<1>1. /\ j.op = op /\ j.phase = "end" /\ j.todo = s /\ j.batch = {} /\ j.groups = {}
      /\ s \in Seq(Writes)
  BY DEF NoJob, Todo
<1>2. j \in JobRecord
  <2>1. NoJob \in JobRecord
    BY NoJobIsGood DEF GoodJob
  <2>. QED BY <1>1, <2>1 DEF JobRecord
<1> HIDE DEF j
<1>3. GoodJob(j)
  BY <1>1, <1>2 DEF GoodJob, Drop, Making, OneEach
<1>4. Held(j) = InWrites(s)
  BY <1>1 DEF Held, Batched, Making
<1>. QED BY <1>1, <1>3, <1>4 DEF j

LEMMA CaptureKeeps ==
    ASSUME TiersInv, NEW c \in Capturable, Capture(c)
    PROVE  TiersInv'
<1> DEFINE m == New(c.kind, c.tier, c.place, c.text, {})
           s == CaptureWrites(m) \o <<Write("cross", {m})>>
<1>1. /\ c.kind \in Kinds /\ c.tier \in Tiers /\ c.place \in Places /\ c.text \in Texts
  BY CapturableAreTyped
<1>2. /\ m \in Memory /\ m.id = next /\ m.born = now /\ m.sources = {}
      /\ m.kind = c.kind /\ m.tier = c.tier
  BY <1>1, NewIsTyped
<1>3. /\ job' = [NoJob EXCEPT !.op = "capture", !.todo = s]
      /\ next' = next + 1 /\ calls' \in 0..MaxCalls /\ faults' \in 0..MaxFaults
      /\ UNCHANGED <<files, now>>
  BY BoundsAreNat DEF Capture, TiersInv, StoreTyped
<1>4. next \in Nat /\ now \in Nat /\ Sound(Known, AllLinks, next, now)
  BY DEF TiersInv, StoreTyped, KnownSound
<1> HIDE DEF m
<1>5. Sound(Known \cup {m}, AllLinks, next + 1, now)
  <2>1. NoScratchFacts => (m.kind = "fact" => ~IsScratch(m))
    BY <1>2 DEF NoScratchFacts, IsScratch
  <2>2. (\A i \in m.sources : i < next) /\ \A k \in Known : k.id \notin m.sources
    BY <1>2
  <2>. QED BY <1>2, <1>4, <2>1, <2>2, SoundNew
<1>6. Todo(s) /\ InWrites(s) = {m} /\ ToLink(s) = {} /\ s # <<>>
  <2>1. Todo(s) /\ InWrites(s) = {m} /\ ToLink(s) = {}
    BY <1>2, CaptureWritesTyped
  <2> HIDE DEF s
  <2>. QED BY <2>1, NoWrites
<1> HIDE DEF s
<1>7. GoodJob(job') /\ Held(job') = {m} /\ job'.todo = s
  BY <1>3, <1>6, CallIsGood
<1>8. /\ store \cup Held(job') \subseteq Known \cup {m}
      /\ links \cup ToLink(job'.todo) \subseteq AllLinks
  BY <1>6, <1>7 DEF Known, AllLinks
<1>. QED BY <1>3, <1>5, <1>7, <1>8, HeldKeeps

LEMMA ReinforceKeeps ==
    ASSUME TiersInv, NEW m \in store, Reinforce(m)
    PROVE  TiersInv'
<1> DEFINE c == [m EXCEPT !.used = TRUE, !.sources = {}]
<1>1. m \in Memory /\ m \in Known
  BY DEF TiersInv, StoreTyped, Known
<1>2. c \in Memory /\ SameMemory(c, m) /\ c.born = m.born /\ c.sources \subseteq m.sources
  BY <1>1 DEF Memory, Id, SameMemory, IsScratch, Reinforce
<1>3. /\ job' = [NoJob EXCEPT !.op = "reinforce", !.todo = CaptureWrites(c)]
      /\ next' = next /\ calls' \in 0..MaxCalls /\ faults' \in 0..MaxFaults
      /\ UNCHANGED <<files, now>>
  BY BoundsAreNat DEF Reinforce, TiersInv, StoreTyped
<1> HIDE DEF c
<1>4. Sound(Known \cup {c}, AllLinks, next, now)
  BY <1>1, <1>2, SoundCopies DEF TiersInv, KnownSound
<1>5. /\ Todo(CaptureWrites(c)) /\ InWrites(CaptureWrites(c)) = {c} /\ ToLink(CaptureWrites(c)) = {}
      /\ CaptureWrites(c) # <<>>
  BY <1>2, CaptureWritesTyped, NoWrites
<1>6. GoodJob(job') /\ Held(job') = {c} /\ job'.todo = CaptureWrites(c)
  BY <1>3, <1>5, CallIsGood
<1>7. /\ store \cup Held(job') \subseteq Known \cup {c}
      /\ links \cup ToLink(job'.todo) \subseteq AllLinks
  BY <1>5, <1>6 DEF Known, AllLinks
<1>. QED BY <1>3, <1>4, <1>6, <1>7, HeldKeeps

LEMMA EraseKeeps ==
    ASSUME TiersInv, NEW M \in SUBSET store, Erase(M)
    PROVE  TiersInv'
<1>1. /\ job' = [NoJob EXCEPT !.op = "erase", !.todo = EraseWrites(M)]
      /\ next' = next /\ calls' \in 0..MaxCalls /\ faults' \in 0..MaxFaults
      /\ UNCHANGED <<files, now>> /\ M \in SUBSET Memory
  BY BoundsAreNat DEF Erase, TiersInv, StoreTyped
<1>2. /\ Todo(EraseWrites(M)) /\ InWrites(EraseWrites(M)) = {} /\ ToLink(EraseWrites(M)) = {}
      /\ EraseWrites(M) # <<>>
  BY <1>1, EraseWritesTyped
<1>3. GoodJob(job') /\ Held(job') = {} /\ job'.todo = EraseWrites(M)
  BY <1>1, <1>2, CallIsGood
<1>. QED BY <1>1, <1>2, <1>3, LessKeeps DEF Known

LEMMA ErasedElsewhereKeeps ==
    ASSUME TiersInv, NEW m \in store, ErasedElsewhere(m)
    PROVE  TiersInv'
<1>1. /\ store' \subseteq store /\ links' \subseteq links /\ ext' \subseteq ext /\ cross' \subseteq cross
      /\ UNCHANGED <<job, now, next, calls>> /\ faults' \in 0..MaxFaults
  BY BoundsAreNat DEF ErasedElsewhere, Without, LinksWithout, TiersInv, StoreTyped
<1>2. Known' \subseteq Known /\ AllLinks' \subseteq AllLinks
  BY <1>1 DEF Known, AllLinks
<1>3. KnownSound'
  BY <1>1, <1>2, SoundShrinks DEF TiersInv, KnownSound
<1>4. StoreTyped'
  BY <1>1 DEF TiersInv, StoreTyped, OneEach
<1>. QED BY <1>1, <1>3, <1>4 DEF TiersInv, SidecarOld, CrossOld

\* The end of an operation, or its death.
LEMMA DeathKeeps ==
    ASSUME TiersInv, Fail \/ Restart
    PROVE  TiersInv'
<1>1. /\ job' = NoJob /\ ext' \in {ext, Rows(store)} /\ faults' \in 0..MaxFaults
      /\ UNCHANGED <<store, links, cross, now, next, calls>>
  BY BoundsAreNat DEF Fail, Restart, Reconciled, files, TiersInv, StoreTyped
<1>2. GoodJob(job') /\ Known' \subseteq Known /\ AllLinks' \subseteq AllLinks
  BY <1>1, NoJobIsGood DEF Known, AllLinks
<1>3. KnownSound'
  BY <1>1, <1>2, SoundShrinks DEF TiersInv, KnownSound
<1>4. ext' \in SUBSET Listed /\ OneEach(ext') /\ SidecarOld'
  <2>1. Rows(store) \in SUBSET Listed /\ OneEach(Rows(store))
    BY RowsAreListed DEF TiersInv, StoreTyped
  <2>2. \A m \in store : m.id < next
    BY DEF TiersInv, KnownSound, Sound, OldEnough, Known
  <2>3. \A r \in Rows(store) : r.id < next
    BY <2>2 DEF Rows, Row
  <2>. QED BY <1>1, <2>1, <2>3 DEF TiersInv, StoreTyped, SidecarOld
<1>. QED BY <1>1, <1>2, <1>3, <1>4 DEF TiersInv, StoreTyped, CrossOld

LEMMA TickKeeps ==
    ASSUME TiersInv, Tick
    PROVE  TiersInv'
<1>1. now' = now + 1 /\ UNCHANGED <<store, ext, links, cross, job, next, calls, faults>>
  BY DEF Tick, files, bounds
<1>2. Known' = Known /\ AllLinks' = AllLinks
  BY <1>1 DEF Known, AllLinks
<1>3. OldEnough(Known, next, now + 1)
  BY DEF TiersInv, StoreTyped, KnownSound, Sound, OldEnough, Memory, Id
<1>4. KnownSound'
  BY <1>1, <1>2, <1>3 DEF TiersInv, KnownSound, Sound
<1>. QED BY <1>1, <1>4 DEF TiersInv, StoreTyped, SidecarOld, CrossOld

LEMMA ReflectKeeps ==
    ASSUME TiersInv, NEW s \in Scopes, Reflect(s)
    PROVE  TiersInv'
<1>1. /\ job' = [NoJob EXCEPT !.op = "reflect", !.scope = s, !.phase = "expire", !.round = 1]
      /\ UNCHANGED <<files, now, next, calls, faults>>
  BY DEF Reflect, bounds
<1>2. NoJob \in JobRecord /\ NoJob.todo = <<>> /\ NoJob.batch = {} /\ NoJob.groups = {}
  BY NoJobIsGood DEF GoodJob, NoJob
<1>3. /\ job'.op = "reflect" /\ job'.phase = "expire" /\ job'.round = 1
      /\ job'.todo = <<>> /\ job'.batch = {} /\ job'.groups = {}
  BY <1>1, <1>2 DEF NoJob
<1>a. job' \in JobRecord
  <2>1. "reflect" \in {"none", "capture", "reinforce", "erase", "reflect"} /\ "expire" \in Phases /\ 1 \in 0..4
    BY DEF Phases, Drop
  <2>. QED BY <1>1, <1>2, <2>1 DEF JobRecord
<1>4. GoodJob(job')
  BY <1>3, <1>a, TodoNone DEF GoodJob, Drop, Making, OneEach
<1>5. Held(job') = {} /\ ToLink(job'.todo) = {}
  BY <1>3, NoWrites DEF Held, Batched, Making
<1>. QED BY <1>1, <1>4, <1>5, LessKeeps DEF TiersInv, StoreTyped

-----------------------------------------------------------------------------
(* The steps of a pass.                                                     *)

LEMMA JobFacts ==
    ASSUME TiersInv
    PROVE  /\ job \in JobRecord /\ job.op \in {"none", "capture", "reinforce", "erase", "reflect"}
           /\ job.scope \in Scopes /\ job.phase \in Phases /\ job.round \in 0..4
           /\ job.todo \in Seq(Writes) /\ job.groups \in SUBSET (SUBSET Memory)
           /\ job.unsound \in SUBSET Memory
           /\ store \in SUBSET Memory /\ OneEach(store) /\ store \subseteq Known
  BY DEF TiersInv, GoodJob, JobRecord, StoreTyped, Known

\* Each place of a set of durable memories is a group.
LEMMA GroupsAreGroups ==
    ASSUME NEW M \in SUBSET Memory, OneEach(M), \A m \in M : ~IsScratch(m)
    PROVE  /\ \A g \in Groups(M) : Group(g)
           /\ UNION Groups(M) \subseteq M /\ Groups(M) \in SUBSET (SUBSET Memory)
<1>1. ASSUME NEW g \in Groups(M) PROVE Group(g) /\ g \subseteq M
  <2>1. PICK x \in M : g = {m \in M : m.place = x.place}
    BY <1>1 DEF Groups
  <2>. QED BY <2>1 DEF Group, OneEach
<1>. QED BY <1>1

LEMMA DroppedIsGood ==
    ASSUME TiersInv, job.phase \in Drop, job.todo = <<>>
    PROVE  GoodJob(Dropped) /\ Held(Dropped) \subseteq Held(job) /\ Dropped.todo = <<>>
<1> DEFINE G == IF job.round = 3 THEN Groups(job.batch) ELSE {}
           ph == <<"expire", "distil", "summarize">>[job.round]
<1>1. /\ job.round \in 1..3 /\ job.batch \in SUBSET Memory /\ OneEach(job.batch)
      /\ \A m \in job.batch : ~IsScratch(m)
      /\ job.op = "reflect" /\ job.phase # "end"
  BY DEF TiersInv, GoodJob, Drop, Making
<1>2. /\ ph \in {"expire", "distil", "summarize"}
      /\ ph = "expire" => job.round = 1
      /\ ph = "distil" => job.round = 2
  <2>1. job.round = 1 \/ job.round = 2 \/ job.round = 3
    BY <1>1
  <2>. QED BY <2>1
<1>3. (\A g \in G : Group(g)) /\ UNION G \subseteq job.batch /\ G \in SUBSET (SUBSET Memory)
  BY <1>1, GroupsAreGroups
<1>4. Dropped = [job EXCEPT !.round = @ + 1, !.phase = ph, !.groups = G]
  BY DEF Dropped
<1>5. job.round = 3 \/ G = {}
  OBVIOUS
<1> HIDE DEF G, ph
<1>6. /\ Dropped.round = job.round + 1 /\ Dropped.phase = ph /\ Dropped.groups = G
      /\ Dropped.todo = <<>> /\ Dropped.batch = job.batch /\ Dropped.op = "reflect"
  BY <1>1, <1>4, JobFacts DEF JobRecord
<1>a. Dropped \in JobRecord
  <2>1. ph \in Phases /\ job.round + 1 \in 0..4
    BY <1>1, <1>2 DEF Phases, Drop
  <2>. QED BY <1>3, <1>4, <2>1, JobFacts DEF JobRecord
<1>7. GoodJob(Dropped)
  BY <1>1, <1>2, <1>3, <1>5, <1>6, <1>a, TodoNone DEF GoodJob, Drop, Making
<1>8. Held(Dropped) \subseteq Held(job)
  <2>1. Batched(job) = job.batch /\ Batched(Dropped) = job.batch
    BY <1>2, <1>6 DEF Batched, Making, Drop
  <2>2. job.batch \subseteq Held(job)
    BY <2>1, HeldParts
  <2>3. \A g \in G : g \subseteq Held(job)
    BY <1>3, <2>2
  <2>. QED BY <1>6, <2>1, <2>2, <2>3, NoWrites, HeldParts
<1>. QED BY <1>6, <1>7, <1>8

LEMMA DropExpiredKeeps ==
    ASSUME TiersInv, DropExpired
    PROVE  TiersInv'
<1> DEFINE gone == Expired(job.scope)
<1>1. /\ job.todo = <<>> /\ job.phase = "expire" /\ UNCHANGED <<files, now, next, calls, faults>>
      /\ job' = IF gone = {} /\ Stale = {} THEN Dropped
                ELSE [job EXCEPT !.phase = "repair", !.todo = RemoveWrites(gone),
                                 !.unsound = Remember(gone)]
  BY DEF DropExpired, At, bounds
<1>2. gone \in SUBSET store /\ gone \in SUBSET Memory
  BY JobFacts DEF Expired, Hydrate
<1> HIDE DEF gone
<1>3. CASE job' = Dropped
  <2>1. GoodJob(job') /\ Held(job') \subseteq Held(job) /\ job'.todo = <<>>
    BY <1>1, <1>3, DroppedIsGood DEF Drop
  <2>. QED BY <1>1, <2>1, LessKeeps, NoWrites DEF Known, TiersInv, StoreTyped
<1>4. CASE job' = [job EXCEPT !.phase = "repair", !.todo = RemoveWrites(gone),
                              !.unsound = Remember(gone)]
  <2>1. /\ Todo(RemoveWrites(gone)) /\ InWrites(RemoveWrites(gone)) = {}
        /\ ToLink(RemoveWrites(gone)) = {}
    BY <1>2, RemoveWritesTyped
  <2>2. /\ job'.phase = "repair" /\ job'.todo = RemoveWrites(gone) /\ job'.batch = job.batch
        /\ job'.groups = job.groups /\ job'.op = job.op /\ job'.round = job.round
    BY <1>4, JobFacts DEF JobRecord
  <2>3. job' \in JobRecord
    <3>1. Remember(gone) \in SUBSET Memory
      BY <1>2, JobFacts DEF Remember
    <3>2. "repair" \in Phases
      BY DEF Phases, Drop
    <3>. QED BY <1>4, <2>1, <3>1, <3>2, JobFacts DEF JobRecord, Todo
  <2>4. GoodJob(job')
    BY <1>1, <2>1, <2>2, <2>3 DEF TiersInv, GoodJob, Drop, Making
  <2>5. Held(job') \subseteq Held(job)
    BY <1>1, <2>1, <2>2, NoWrites DEF Held, Batched, Making
  <2>. QED BY <1>1, <2>1, <2>2, <2>4, <2>5, LessKeeps DEF Known, TiersInv, StoreTyped
<1>. QED BY <1>1, <1>3, <1>4

LEMMA RepairKeeps ==
    ASSUME TiersInv, RepairSummaries
    PROVE  TiersInv'
<1> DEFINE M == UNION {Durable(a) : a \in Stale}
<1>1. /\ job.todo = <<>> /\ job.phase = "repair" /\ UNCHANGED <<files, now, next, calls, faults>>
      /\ job' = [job EXCEPT !.phase = "rebuild", !.todo = RemoveWrites(Stale),
                            !.unsound = Remember(Stale), !.groups = Groups(M)]
  BY DEF RepairSummaries, At, bounds
<1>2. /\ M \in SUBSET Memory /\ OneEach(M) /\ M \subseteq store /\ \A m \in M : ~IsScratch(m)
      /\ Stale \in SUBSET Memory
  <2>1. /\ M \subseteq store /\ Stale \subseteq store /\ \A m \in M : ~IsScratch(m)
    BY DEF Durable, Stale
  <2>2. store \in SUBSET Memory /\ OneEach(store)
    BY JobFacts
  <2> HIDE DEF M
  <2>. QED BY <2>1, <2>2 DEF OneEach
<1>3. (\A g \in Groups(M) : Group(g)) /\ UNION Groups(M) \subseteq M /\ Groups(M) \in SUBSET (SUBSET Memory)
  BY <1>2, GroupsAreGroups
<1>4. Todo(RemoveWrites(Stale)) /\ InWrites(RemoveWrites(Stale)) = {} /\ ToLink(RemoveWrites(Stale)) = {}
  BY <1>2, RemoveWritesTyped
<1> HIDE DEF M
<1>5. /\ job'.phase = "rebuild" /\ job'.todo = RemoveWrites(Stale) /\ job'.batch = job.batch
      /\ job'.groups = Groups(M) /\ job'.op = job.op /\ job'.round = job.round
  BY <1>1, JobFacts DEF JobRecord
<1>6. job' \in JobRecord
  <2>1. Remember(Stale) \in SUBSET Memory
    BY <1>2, JobFacts DEF Remember
  <2>2. "rebuild" \in Phases
    BY DEF Phases, Drop
  <2>. QED BY <1>1, <1>3, <1>4, <2>1, <2>2, JobFacts DEF JobRecord, Todo
<1>7. GoodJob(job')
  BY <1>1, <1>3, <1>4, <1>5, <1>6 DEF TiersInv, GoodJob, Drop, Making
<1>8. Held(job') \subseteq Known
  <2>1. Batched(job') = job.batch /\ Batched(job) = job.batch
    BY <1>1, <1>5 DEF Batched, Making
  <2>2. job.batch \subseteq Known
    BY <2>1, HeldParts DEF Known
  <2>3. \A g \in Groups(M) : g \subseteq Known
    BY <1>2, <1>3 DEF Known
  <2>4. InWrites(job'.todo) \subseteq Known
    BY <1>4, <1>5
  <2>. QED BY <1>5, <2>1, <2>2, <2>3, <2>4, HeldParts
<1>. QED BY <1>1, <1>4, <1>5, <1>7, <1>8, LessKeeps DEF TiersInv, StoreTyped

LEMMA NextGroupIsOne ==
    ASSUME TiersInv, job.groups # {}
    PROVE  NextGroup \in job.groups /\ Group(NextGroup)
<1>1. \A g \in job.groups : Group(g)
  BY DEF TiersInv, GoodJob
<1>2. (UNION job.groups) \in SUBSET Memory /\ UNION job.groups # {}
  BY <1>1, JobFacts DEF Group
<1> DEFINE S == {x.id : x \in UNION job.groups}
<1>3. S \in SUBSET Nat /\ S # {}
  BY <1>2 DEF Memory, Id
<1>4. PICK n \in S : \A k \in S : n <= k
  BY <1>3, HasLeast
<1>5. PICK m \in UNION job.groups : m.id = n
  BY <1>4
<1>6. PICK g \in job.groups : m \in g
  BY <1>5
<1>7. \A x \in UNION job.groups : m.id <= x.id
  BY <1>4, <1>5
<1>8. \E h \in job.groups : \E y \in h : \A x \in UNION job.groups : y.id <= x.id
  BY <1>6, <1>7
<1>. QED BY <1>1, <1>8 DEF NextGroup

\* What a fold writes: the summary and its moved sources, and the edges between.
LEMMA FoldWritesTyped ==
    ASSUME NEW g, Group(g), NEW a \in Memory, \A m \in g : m.id # a.id
    PROVE  /\ Todo(FoldWrites(g, a)) /\ InWrites(FoldWrites(g, a)) = Moved(g) \cup {a}
           /\ ToLink(FoldWrites(g, a)) =
                 {[from |-> a.id, rel |-> "derived_from", to |-> m.id] : m \in g}
<1> DEFINE X == Moved(g) \cup {a}
           L == {[from |-> a.id, rel |-> "derived_from", to |-> m.id] : m \in g}
           p == <<Write("put", X)>>
           q == <<Write("list", X)>>
           r == <<Link(L)>>
<1>1. \A c \in Moved(g) : \E m \in g : c \in Memory /\ c.id = m.id /\ c = [m EXCEPT !.tier = "archival"]
  BY DEF Moved, Group, Memory, Id, Tiers
<1>2. X \in SUBSET Memory /\ OneEach(X)
  BY <1>1 DEF OneEach, Group
<1>3. L \in SUBSET Edges
  BY DEF Edges, Group, Memory, Id
<1>4. FoldWrites(g, a) = (p \o q) \o r
  BY DEF FoldWrites
<1> HIDE DEF X, L
<1>5. /\ Todo(p) /\ InWrites(p) = X /\ ToLink(p) = {}
      /\ Todo(q) /\ InWrites(q) = X /\ ToLink(q) = {}
      /\ Todo(r) /\ InWrites(r) = {} /\ ToLink(r) = L
  BY <1>2, <1>3, WriteIsTyped, LinkIsTyped
<1> HIDE DEF p, q, r
<1>6. Todo(p \o q) /\ InWrites(p \o q) = X /\ ToLink(p \o q) = {}
  BY <1>5, TodoConcat
<1>7. Todo((p \o q) \o r) /\ InWrites((p \o q) \o r) = X /\ ToLink((p \o q) \o r) = L
  BY <1>5, <1>6, TodoConcat
<1>. QED BY <1>4, <1>7 DEF X, L

LEMMA FoldKeeps ==
    ASSUME TiersInv, job.phase \in {"rebuild", "summarize"}, job.todo = <<>>, job.groups # {},
           Fold(NextGroup)
    PROVE  TiersInv'
<1> DEFINE g == NextGroup
           place == (CHOOSE m \in g : TRUE).place
           a == New("archive", "archival", place, "summary", Ids(g))
           L == {[from |-> a.id, rel |-> "derived_from", to |-> m.id] : m \in g}
<1>1. g \in job.groups /\ Group(g)
  BY NextGroupIsOne
<1>2. /\ job' = [job EXCEPT !.groups = @ \ {g}, !.todo = FoldWrites(g, a)]
      /\ next' = next + 1 /\ UNCHANGED <<files, now, calls, faults>>
  BY DEF Fold, bounds
<1>3. g \subseteq Known /\ g \in SUBSET Memory /\ \A m \in g : place = m.place /\ place \in Places
  <2>1. g \subseteq Known /\ g \in SUBSET Memory
    BY <1>1, HeldParts DEF Known, Group
  <2>2. (CHOOSE m \in g : TRUE) \in g
    BY <1>1 DEF Group
  <2>. QED BY <1>1, <2>1, <2>2 DEF Group, Memory, Id
<1>4. /\ a \in Memory /\ a.id = next /\ a.born = now /\ a.sources = Ids(g) /\ a.place = place
      /\ a.kind = "archive"
  <2>1. Ids(g) \in SUBSET Id /\ "archive" \in Kinds /\ "archival" \in Tiers /\ "summary" \in Texts
    BY <1>3, TextsAreTexts DEF Ids, Memory, Id, Kinds, Tiers
  <2>2. place \in Places
    BY <1>1, <1>3 DEF Group
  <2> HIDE DEF place, g
  <2>. QED BY <2>1, <2>2, NewIsTyped
<1> HIDE DEF a, place, g
<1>5. /\ next \in Nat /\ now \in Nat /\ Sound(Known, AllLinks, next, now)
      /\ \A m \in Known : m.id < next /\ m.id \in Nat
  BY DEF TiersInv, StoreTyped, KnownSound, Sound, OldEnough, Memory, Id
<1>6. Sound(Known \cup Moved(g), AllLinks, next, now)
  <2>1. \A m \in g : LET c == [m EXCEPT !.tier = "archival"]
                     IN c \in Memory /\ SameMemory(c, m) /\ c.born = m.born /\ c.sources = m.sources
    BY <1>1 DEF Group, Memory, Id, Tiers, SameMemory, IsScratch
  <2>2. \A c \in Moved(g) : c \in Memory /\
           \E m \in Known : SameMemory(c, m) /\ c.born = m.born /\ c.sources \subseteq m.sources
    BY <1>3, <2>1 DEF Moved
  <2>3. Moved(g) \in SUBSET Memory
    BY <2>2
  <2>. QED BY <1>5, <2>2, <2>3, SoundCopies
<1>7. \A x \in g : \A m \in Known \cup Moved(g) : m.id = x.id => m.place = place /\ ~IsScratch(m)
  <2>1. ASSUME NEW x \in g, NEW m \in Known \cup Moved(g), m.id = x.id
        PROVE  m.place = place /\ ~IsScratch(m)
    <3>1. SameMemory(m, x)
      BY <1>3, <1>6, <2>1 DEF Sound, OneMemoryEach
    <3>. QED BY <1>1, <1>3, <3>1 DEF SameMemory, Group
  <2>. QED BY <2>1
<1>8. Sound(Known \cup Moved(g) \cup {a}, AllLinks, next + 1, now)
  <2>1. \A i \in a.sources : i < next
    BY <1>3, <1>4, <1>5 DEF Ids
  <2>2. \A m \in Known \cup Moved(g) : m.id \in a.sources => a.place = m.place /\ ~IsScratch(m)
    BY <1>4, <1>7 DEF Ids
  <2>. QED BY <1>4, <1>5, <1>6, <2>1, <2>2, SoundNew
<1>9. LinksSound(Known \cup Moved(g) \cup {a}, L, next + 1) /\ L \in SUBSET Edges
  <2>1. \A m \in Known \cup Moved(g) : m.id # next
    BY <1>5, <1>6 DEF Sound, OldEnough
  <2>2. ASSUME NEW e \in L
        PROVE  /\ e \in Edges /\ e.from < next + 1 /\ e.to < next + 1 /\ e.rel = "derived_from"
               /\ \A d, m \in Known \cup Moved(g) \cup {a} :
                     d.id = e.from /\ m.id = e.to => d.place = m.place /\ ~IsScratch(m)
               /\ \A m \in Known \cup Moved(g) \cup {a} : m.id = e.to => ~IsScratch(m)
    <3>1. PICK x \in g : e = [from |-> a.id, rel |-> "derived_from", to |-> x.id]
      BY <2>2
    <3>2. e.from = next /\ e.to = x.id /\ x.id \in Nat /\ x.id < next /\ e.rel = "derived_from"
      BY <1>3, <1>4, <1>5, <3>1
    <3>3. e \in Edges
      BY <1>5, <3>1, <3>2, <1>4 DEF Edges
    <3>4. \A m \in Known \cup Moved(g) \cup {a} : m.id = e.to => m.place = place /\ ~IsScratch(m)
      BY <1>4, <1>5, <1>7, <3>2
    <3>5. \A d \in Known \cup Moved(g) \cup {a} : d.id = e.from => d.place = place
      BY <1>4, <2>1, <3>2
    <3>. QED BY <1>5, <3>2, <3>3, <3>4, <3>5
  <2> HIDE DEF L
  <2>3. L \in SUBSET Edges
    BY <2>2
  <2>. QED BY <2>2, <2>3 DEF LinksSound
<1>10. Sound(Known \cup Moved(g) \cup {a}, AllLinks \cup L, next + 1, now)
  BY <1>8, <1>9, SoundLinks
<1>11. /\ Todo(FoldWrites(g, a)) /\ InWrites(FoldWrites(g, a)) = Moved(g) \cup {a}
       /\ ToLink(FoldWrites(g, a)) = L
  BY <1>1, <1>3, <1>4, <1>5, FoldWritesTyped
<1> HIDE DEF L
<1>12. /\ job'.groups = job.groups \ {g} /\ job'.todo = FoldWrites(g, a) /\ job'.op = job.op
       /\ job'.phase = job.phase /\ job'.round = job.round /\ job'.batch = job.batch
  BY <1>2, JobFacts DEF JobRecord
<1>13. GoodJob(job')
  <2>1. job' \in JobRecord
    BY <1>2, <1>11, JobFacts DEF JobRecord, Todo
  <2>. QED BY <1>11, <1>12, <2>1 DEF TiersInv, GoodJob, Drop, Making
<1>14. Held(job') \subseteq Known \cup Moved(g) \cup {a}
  <2>1. Batched(job') = Batched(job)
    BY <1>12 DEF Batched
  <2>2. \A h \in job'.groups : h \subseteq Known
    BY <1>12, HeldParts DEF Known
  <2>3. Batched(job') \subseteq Known
    BY <2>1, HeldParts DEF Known
  <2> DEFINE H == Known \cup Moved(g) \cup {a}
  <2>4. /\ InWrites(job'.todo) \subseteq H /\ Batched(job') \subseteq H
        /\ \A h \in job'.groups : h \subseteq H
    BY <1>11, <1>12, <2>2, <2>3
  <2> HIDE DEF H
  <2>5. Held(job') \subseteq H
    BY <2>4, HeldParts
  <2>. QED BY <2>5 DEF H
<1>15. store \subseteq Known /\ links \cup ToLink(job'.todo) \subseteq AllLinks \cup L
  BY <1>11, <1>12 DEF Known, AllLinks
<1>. QED BY <1>2, <1>10, <1>13, <1>14, <1>15, HeldKeeps DEF TiersInv, StoreTyped

LEMMA RebuildKeeps ==
    ASSUME TiersInv, Rebuild
    PROVE  TiersInv'
<1>1. job.todo = <<>> /\ job.phase = "rebuild"
  BY DEF Rebuild, At
<1>2. CASE job.groups # {} /\ Fold(NextGroup)
  BY <1>1, <1>2, FoldKeeps
<1>3. CASE job' = Dropped /\ UNCHANGED <<files, now, next, past, bounds>>
  <2>1. GoodJob(job') /\ Held(job') \subseteq Held(job) /\ job'.todo = <<>>
    BY <1>1, <1>3, DroppedIsGood DEF Drop
  <2>2. UNCHANGED <<files, now, next, calls, faults>>
    BY <1>3 DEF bounds
  <2>. QED BY <2>1, <2>2, LessKeeps, NoWrites DEF Known, TiersInv, StoreTyped
<1>. QED BY <1>2, <1>3 DEF Rebuild

LEMMA SummarizeKeeps ==
    ASSUME TiersInv, Summarize
    PROVE  TiersInv'
<1>1. job.todo = <<>> /\ job.phase = "summarize"
  BY DEF Summarize, At
<1>2. CASE job.groups # {} /\ Fold(NextGroup)
  BY <1>1, <1>2, FoldKeeps
<1>3. CASE /\ Goto("end", <<Write("uncross", job.unsound)>>)
           /\ UNCHANGED <<files, now, next, past, bounds>>
  <2> DEFINE s == <<Write("uncross", job.unsound)>>
  <2>1. /\ job' = [job EXCEPT !.phase = "end", !.todo = s]
        /\ UNCHANGED <<files, now, next, calls, faults>>
    BY <1>3 DEF Goto, bounds
  <2>2. Todo(s) /\ InWrites(s) = {} /\ ToLink(s) = {} /\ s # <<>>
    BY JobFacts, RemovalIsTyped
  <2> HIDE DEF s
  <2>3. /\ job'.phase = "end" /\ job'.todo = s /\ job'.batch = job.batch
        /\ job'.groups = job.groups /\ job'.op = job.op /\ job'.round = job.round
    BY <2>1, JobFacts DEF JobRecord
  <2>4. job' \in JobRecord
    <3>1. "end" \in Phases
      BY DEF Phases
    <3>. QED BY <2>1, <2>2, <3>1, JobFacts DEF JobRecord, Todo
  <2>5. GoodJob(job')
    BY <1>1, <2>2, <2>3, <2>4 DEF TiersInv, GoodJob, Drop, Making
  <2>6. Held(job') \subseteq Known
    <3>1. Batched(job') = Batched(job)
      BY <1>1, <2>3 DEF Batched, Making
    <3>. QED BY <2>2, <2>3, <3>1, HeldParts DEF Known
  <2>. QED BY <2>1, <2>2, <2>3, <2>5, <2>6, LessKeeps DEF TiersInv, StoreTyped
<1>. QED BY <1>2, <1>3 DEF Summarize

\* A step that chooses the next batch, and commits nothing.
LEMMA BatchKeeps ==
    ASSUME TiersInv, job.phase \in {"distil"} \cup Making, job.todo = <<>>,
           UNCHANGED <<files, now, next, past, bounds>>,
           NEW ph \in {"write", "mint", "expire"}, NEW B,
           job' = [job EXCEPT !.phase = ph, !.batch = B],
           IF ph = "expire" THEN B \in SUBSET store /\ \A m \in B : ~IsScratch(m)
           ELSE /\ B \in SUBSET Entry
                /\ \A b \in B : /\ b.from \in store
                                /\ IF b.kind = "skill" THEN b.from.kind = "fact"
                                   ELSE ~IsScratch(b.from)
    PROVE  TiersInv'
<1>1. job.groups = {} /\ job.round = 3 /\ job.op = "reflect"
  BY DEF TiersInv, GoodJob, Making
<1>2. /\ job'.phase = ph /\ job'.todo = <<>> /\ job'.batch = B
      /\ job'.groups = {} /\ job'.op = "reflect" /\ job'.round = 3
  BY <1>1, JobFacts DEF JobRecord
<1>3. B \in SUBSET (Memory \cup Entry) /\ ph \in Phases
  BY JobFacts DEF Phases, Making, Drop
<1>4. job' \in JobRecord
  BY <1>3, JobFacts DEF JobRecord
<1>5. GoodJob(job')
  <2>1. ph = "expire" => B \in SUBSET Memory /\ OneEach(B)
    BY JobFacts DEF OneEach
  <2>. QED BY <1>2, <1>4, <2>1, TodoNone DEF GoodJob, Drop, Making
<1>6. Held(job') \subseteq Known
  <2>1. Batched(job') \subseteq store
    BY <1>2 DEF Batched, Making
  <2>. QED BY <1>2, <2>1, NoWrites, HeldParts DEF Known
<1>7. UNCHANGED <<files, now, next, calls, faults>>
  BY DEF bounds
<1>. QED BY <1>2, <1>5, <1>6, <1>7, NoWrites, LessKeeps DEF TiersInv, StoreTyped

LEMMA DistilKeeps ==
    ASSUME TiersInv, Distil
    PROVE  TiersInv'
<1> DEFINE B == UNION {[from : {m}, kind : {"fact"}, text : FactsIn[m.text]]
                          \cup [from : {m}, kind : {"entity"}, text : NamesIn[m.text]]
                             : m \in Episodes(job.scope)}
<1>1. /\ job.todo = <<>> /\ job.phase = "distil" /\ job' = [job EXCEPT !.phase = "write", !.batch = B]
      /\ UNCHANGED <<files, now, next, past, bounds>>
  BY DEF Distil, At
<1>2. Episodes(job.scope) \subseteq store /\ \A m \in Episodes(job.scope) : m \in Memory /\ ~IsScratch(m)
  BY JobFacts DEF Episodes, Hydrate
<1>3. ASSUME NEW b \in B
      PROVE  b \in Entry /\ b.from \in store /\ ~IsScratch(b.from) /\ b.kind # "skill"
  <2>1. PICK m \in Episodes(job.scope) :
           b \in [from : {m}, kind : {"fact"}, text : FactsIn[m.text]]
              \/ b \in [from : {m}, kind : {"entity"}, text : NamesIn[m.text]]
    BY <1>3
  <2>2. FactsIn[m.text] \subseteq Texts /\ NamesIn[m.text] \subseteq Texts
    BY <1>2, TextsAreTexts DEF Memory, Id
  <2>3. b \in Entry
    BY <1>2, <2>1, <2>2 DEF Entry
  <2>4. b.from = m /\ b.kind \in {"fact", "entity"}
    BY <2>1
  <2>. QED BY <1>2, <2>3, <2>4
<1> HIDE DEF B
<1>. QED BY <1>1, <1>3, BatchKeeps

LEMMA PromoteKeeps ==
    ASSUME TiersInv, Promote
    PROVE  TiersInv'
<1> DEFINE B == {[from |-> m, kind |-> "skill", text |-> m.text] : m \in Promotable(job.scope)}
<1>1. /\ job.todo = <<>> /\ job.phase = "write" /\ job' = [job EXCEPT !.phase = "mint", !.batch = B]
      /\ UNCHANGED <<files, now, next, past, bounds>>
  BY DEF Promote, At
<1>2. \A m \in Promotable(job.scope) : m \in store /\ m \in Memory /\ m.kind = "fact" /\ m.text \in Texts
  BY JobFacts DEF Promotable, Hydrate, Memory, Id
<1>3. \A b \in B : b \in Entry /\ b.from \in store /\ b.from.kind = "fact" /\ b.kind = "skill"
  BY <1>2 DEF Entry
<1> HIDE DEF B
<1>. QED BY <1>1, <1>3, BatchKeeps DEF Making

LEMMA SelectKeeps ==
    ASSUME TiersInv, Select
    PROVE  TiersInv'
<1>1. /\ job.todo = <<>> /\ job.phase = "mint"
      /\ job' = [job EXCEPT !.phase = "expire", !.batch = Aged(job.scope)]
      /\ UNCHANGED <<files, now, next, past, bounds>>
  BY DEF Select, At
<1>2. Aged(job.scope) \in SUBSET store /\ \A m \in Aged(job.scope) : ~IsScratch(m)
  BY DEF Aged, Hydrate
<1>. QED BY <1>1, <1>2, BatchKeeps DEF Making

LEMMA NextEntryIsOne ==
    ASSUME TiersInv, job.phase \in Making, job.batch # {}
    PROVE  NextEntry \in job.batch
<1>1. \A b \in job.batch : b.from.id \in Nat
  BY DEF TiersInv, GoodJob, Entry, Memory, Id
<1> DEFINE S == {b.from.id : b \in job.batch}
<1>2. PICK n \in S : \A k \in S : n <= k
  <2>1. S \in SUBSET Nat /\ S # {}
    BY <1>1
  <2> HIDE DEF S
  <2>. QED BY <2>1, HasLeast
<1>3. \A c \in job.batch : n < c.from.id \/ n = c.from.id
  <2>1. n \in Nat /\ \A c \in job.batch : c.from.id \in S
    BY <1>1, <1>2
  <2> HIDE DEF S
  <2>. QED BY <1>1, <1>2, <2>1
<1>4. PICK a \in job.batch : a.from.id = n
  BY <1>2
<1>5. PICK b \in job.batch :
         b.from.id = n /\ (b.kind = "entity" => \A c \in job.batch : c.from.id = n => c.kind = "entity")
  BY <1>4
<1>6. \A c \in job.batch : \/ b.from.id < c.from.id
                           \/ b.from.id = c.from.id /\ (b.kind = "entity" => c.kind = "entity")
  BY <1>3, <1>5
<1>. QED BY <1>5, <1>6 DEF NextEntry

\* The commits that make m of a batch entry b, and those that find a twin e.
LEMMA WritesOfTyped ==
    ASSUME NEW b \in Entry, NEW m \in Memory, NEW e \in Memory
    PROVE  /\ Todo(WritesOf(b, m, e)) /\ InWrites(WritesOf(b, m, e)) = IF e = m THEN {m} ELSE {}
           /\ ToLink(WritesOf(b, m, e)) =
                 IF b.kind = "entity" THEN {[from |-> b.from.id, rel |-> "mentions", to |-> e.id]}
                 ELSE IF e = m THEN {[from |-> m.id, rel |-> "derived_from", to |-> b.from.id]}
                 ELSE {}
<1> DEFINE p == IF e = m THEN CaptureWrites(m) ELSE <<>>
           q == IF b.kind = "entity" THEN <<Edge(b.from, "mentions", e)>>
                ELSE IF e = m THEN <<Edge(m, "derived_from", b.from)>> ELSE <<>>
           L == IF b.kind = "entity" THEN {[from |-> b.from.id, rel |-> "mentions", to |-> e.id]}
                ELSE IF e = m THEN {[from |-> m.id, rel |-> "derived_from", to |-> b.from.id]}
                ELSE {}
<1>1. WritesOf(b, m, e) = p \o q
  BY DEF WritesOf
<1>2. Todo(p) /\ InWrites(p) = (IF e = m THEN {m} ELSE {}) /\ ToLink(p) = {}
  BY CaptureWritesTyped, TodoNone, NoWrites
<1>3. L \in SUBSET Edges /\ b.from \in Memory
  BY DEF Edges, Entry, Memory, Id
<1>4. Todo(q) /\ InWrites(q) = {} /\ ToLink(q) = L
  <2>1. L # {} => q = <<Link(L)>>
    BY DEF Edge
  <2>2. L = {} => q = <<>>
    OBVIOUS
  <2> HIDE DEF q, L
  <2>. QED BY <1>3, <2>1, <2>2, LinkIsTyped, TodoNone, NoWrites
<1> HIDE DEF p, q
<1>5. Todo(p \o q) /\ InWrites(p \o q) = (IF e = m THEN {m} ELSE {}) /\ ToLink(p \o q) = L
  BY <1>2, <1>4, TodoConcat
<1>. QED BY <1>1, <1>5

LEMMA WriteOneHolds ==
    ASSUME TiersInv, job.phase \in Making, job.todo = <<>>, NEW b, NEW s, Todo(s),
           job' = [job EXCEPT !.batch = @ \ {b}, !.todo = s],
           next' \in {next, next + 1}, UNCHANGED <<files, now, calls, faults>>,
           NEW N, NEW F, Sound(N, F, next', now),
           Known \cup InWrites(s) \subseteq N, links \cup ToLink(s) \subseteq F
    PROVE  TiersInv'
<1>1. /\ job'.groups = job.groups /\ job'.todo = s /\ job'.op = job.op /\ job'.batch = job.batch \ {b}
      /\ job'.phase = job.phase /\ job'.round = job.round
  BY JobFacts DEF JobRecord
<1>2. job' \in JobRecord
  BY JobFacts DEF JobRecord, Todo
<1>3. job.op = "reflect"
  BY DEF TiersInv, GoodJob, Making
<1>4. GoodJob(job')
  BY <1>1, <1>2, <1>3 DEF TiersInv, GoodJob, Drop, Making
<1>5. Held(job') \subseteq N
  <2>1. Batched(job') \subseteq Batched(job)
    BY <1>1 DEF Batched
  <2>2. \A h \in job'.groups : h \subseteq N
    BY <1>1, HeldParts DEF Known
  <2>3. Batched(job') \subseteq N
    BY <2>1, HeldParts DEF Known
  <2>4. InWrites(job'.todo) \subseteq N
    BY <1>1
  <2>. QED BY <2>2, <2>3, <2>4, HeldParts
<1>6. store \subseteq N
  BY DEF Known
<1>. QED BY <1>1, <1>4, <1>5, <1>6, HeldKeeps DEF TiersInv, StoreTyped

LEMMA WriteOneKeeps ==
    ASSUME TiersInv, WriteOne
    PROVE  TiersInv'
<1> DEFINE b     == NextEntry
           twins == Twins(b.kind, b.from, b.text)
           m     == New(b.kind, Tier[b.kind], b.from.place, b.text, {})
           e     == IF twins = {} THEN m ELSE CHOOSE t \in twins : TRUE
           s     == WritesOf(b, m, e)
<1>1. /\ job.phase \in Making /\ job.todo = <<>> /\ job.batch # {}
      /\ job' = [job EXCEPT !.batch = @ \ {b}, !.todo = s]
      /\ next' = (IF twins = {} THEN next + 1 ELSE next) /\ UNCHANGED <<files, now, calls, faults>>
  BY DEF WriteOne, At, Making, bounds
<1>2. /\ b \in job.batch /\ b \in Entry /\ b.from \in Known
      /\ IF b.kind = "skill" THEN b.from.kind = "fact" ELSE ~IsScratch(b.from)
  <2>1. b \in job.batch
    BY <1>1, NextEntryIsOne
  <2>2. b.from \in Batched(job)
    BY <1>1, <2>1 DEF Batched
  <2>. QED BY <1>1, <2>1, <2>2, HeldParts DEF TiersInv, GoodJob, Known
<1> HIDE DEF b
<1>3. /\ m \in Memory /\ m.id = next /\ m.born = now /\ m.place = b.from.place /\ m.sources = {}
      /\ ~IsScratch(m)
  <2>1. /\ b.kind \in {"fact", "entity", "skill"} /\ b.text \in Texts /\ b.from \in Memory
        /\ b.from.place \in Places
    BY <1>2 DEF Entry, Memory, Id
  <2>2. b.kind \in Kinds /\ Tier[b.kind] \in Tiers \ {"working"}
    BY <2>1 DEF Tier, Kinds, Tiers
  <2>3. {} \in SUBSET Id
    OBVIOUS
  <2>4. /\ m \in Memory /\ m.id = next /\ m.born = now /\ m.place = b.from.place /\ m.sources = {}
        /\ m.kind = b.kind /\ m.tier = Tier[b.kind]
    BY <2>1, <2>2, <2>3, NewIsTyped
  <2>. QED BY <2>1, <2>2, <2>4 DEF IsScratch
<1>4. \A t \in twins : /\ t \in Known /\ t \in Memory
                       /\ t.place.facets = b.from.place.facets
  BY JobFacts DEF Twins
<1>5. /\ next \in Nat /\ now \in Nat /\ Sound(Known, AllLinks, next, now)
      /\ \A k \in Known : k.id < next /\ k.id \in Nat
  BY DEF TiersInv, StoreTyped, KnownSound, Sound, OldEnough, Memory, Id
<1> HIDE DEF m, twins
<1>6. CASE twins = {}
  <2>1. Sound(Known \cup {m}, AllLinks, next + 1, now)
    BY <1>3, <1>5, SoundNew
  <2>2. e = m
    BY <1>6
  <2> DEFINE L == IF b.kind = "entity" THEN {[from |-> b.from.id, rel |-> "mentions", to |-> m.id]}
                  ELSE {[from |-> m.id, rel |-> "derived_from", to |-> b.from.id]}
  <2>3. Todo(s) /\ InWrites(s) = {m} /\ ToLink(s) = L
    BY <1>2, <1>3, <2>2, WritesOfTyped
  <2>4. \A k \in Known \cup {m} : k.id = b.from.id => SameMemory(k, b.from)
    BY <1>2, <1>3, <1>5, <2>1 DEF Sound, OneMemoryEach
  <2>5. \A k \in Known \cup {m} : k.id = next => k = m
    BY <1>5
  <2>6. LinksSound(Known \cup {m}, L, next + 1) /\ L \in SUBSET Edges
    <3>1. b.from.id \in Nat /\ b.from.id < next
      BY <1>2, <1>5
    <3>2. CASE b.kind = "entity"
      <4>1. L = {[from |-> b.from.id, rel |-> "mentions", to |-> next]}
        BY <1>3, <3>2
      <4>2. ~IsScratch(b.from)
        BY <1>2, <3>2
      <4>3. \A k \in Known \cup {m} : k.id = b.from.id => ~IsScratch(k) /\ k.place = m.place
        BY <1>3, <2>4, <4>2 DEF SameMemory
      <4>4. \A c \in L : c \in Edges /\ c.from = b.from.id /\ c.rel = "mentions" /\ c.to = next
        BY <1>5, <3>1, <4>1 DEF Edges
      <4> HIDE DEF L
      <4>. QED BY <1>5, <2>5, <3>1, <4>3, <4>4 DEF LinksSound
    <3>3. CASE b.kind # "entity"
      <4>1. L = {[from |-> next, rel |-> "derived_from", to |-> b.from.id]}
        BY <1>3, <3>3
      <4>2. IsScratch(b.from) => b.from.kind = "fact"
        BY <1>2, <3>3
      <4>3. \A k \in Known \cup {m} :
               k.id = b.from.id => (IsScratch(k) => k.kind = "fact") /\ k.place = m.place
        BY <1>3, <2>4, <4>2 DEF SameMemory
      <4>4. \A c \in L : c \in Edges /\ c.from = next /\ c.rel = "derived_from" /\ c.to = b.from.id
        BY <1>5, <3>1, <4>1 DEF Edges
      <4> HIDE DEF L
      <4>. QED BY <1>5, <2>5, <3>1, <4>3, <4>4 DEF LinksSound
    <3>. QED BY <3>2, <3>3
  <2> HIDE DEF L
  <2>7. Sound(Known \cup {m}, AllLinks \cup L, next', now)
    BY <1>1, <1>6, <2>1, <2>6, SoundLinks
  <2>8. /\ Known \cup InWrites(s) \subseteq Known \cup {m}
        /\ links \cup ToLink(s) \subseteq AllLinks \cup L
    BY <2>3 DEF AllLinks
  <2> HIDE DEF s
  <2>9. next' \in {next, next + 1}
    BY <1>1
  <2>. QED BY <1>1, <2>3, <2>7, <2>8, <2>9, WriteOneHolds
<1>7. CASE twins # {}
  <2>1. e \in twins /\ e \in Known /\ e \in Memory /\ e # m
    BY <1>3, <1>4, <1>5, <1>7
  <2> DEFINE L == IF b.kind = "entity" THEN {[from |-> b.from.id, rel |-> "mentions", to |-> e.id]}
                  ELSE {}
  <2> HIDE DEF e
  <2>2. Todo(s) /\ InWrites(s) = {} /\ ToLink(s) = L
    <3>1. /\ Todo(WritesOf(b, m, e))
          /\ InWrites(WritesOf(b, m, e)) = IF e = m THEN {m} ELSE {}
          /\ ToLink(WritesOf(b, m, e)) =
                IF b.kind = "entity" THEN {[from |-> b.from.id, rel |-> "mentions", to |-> e.id]}
                ELSE IF e = m THEN {[from |-> m.id, rel |-> "derived_from", to |-> b.from.id]}
                ELSE {}
      BY <1>2, <1>3, <2>1, WritesOfTyped
    <3>. QED BY <2>1, <3>1
  <2>3. LinksSound(Known, L, next) /\ L \in SUBSET Edges
    <3>1. /\ b.from.id \in Nat /\ b.from.id < next /\ e.id \in Nat /\ e.id < next
      BY <1>2, <1>5, <2>1
    <3>2. \A c \in L : /\ c \in Edges /\ c.from = b.from.id /\ c.rel = "mentions" /\ c.to = e.id
                       /\ b.kind = "entity"
      BY <3>1 DEF Edges
    <3>3. \A k \in Known : k.id = b.from.id =>
             k.place.facets = e.place.facets /\ (b.kind = "entity" => ~IsScratch(k))
      BY <1>2, <1>4, <1>5, <2>1 DEF Sound, OneMemoryEach, SameMemory
    <3>4. \A k \in Known : k.id = e.id => k.place.facets = e.place.facets
      BY <1>5, <2>1 DEF Sound, OneMemoryEach, SameMemory
    <3> HIDE DEF L
    <3>. QED BY <3>1, <3>2, <3>3, <3>4 DEF LinksSound
  <2> HIDE DEF L
  <2>4. Sound(Known, AllLinks \cup L, next', now)
    BY <1>1, <1>5, <1>7, <2>3, SoundLinks
  <2>5. Known \cup InWrites(s) \subseteq Known /\ links \cup ToLink(s) \subseteq AllLinks \cup L
    BY <2>2 DEF AllLinks
  <2> HIDE DEF s
  <2>6. next' \in {next, next + 1}
    BY <1>1
  <2>. QED BY <1>1, <2>2, <2>4, <2>5, <2>6, WriteOneHolds
<1>. QED BY <1>6, <1>7

-----------------------------------------------------------------------------
LEMMA PassKeeps ==
    ASSUME TiersInv, Pass
    PROVE  TiersInv'
  BY DropExpiredKeeps, RepairKeeps, RebuildKeeps, DistilKeeps, WriteOneKeeps, PromoteKeeps,
     SelectKeeps, SummarizeKeeps DEF Pass

LEMMA NextKeeps ==
    ASSUME TiersInv, [Next]_vars
    PROVE  TiersInv'
<1>1. CASE Commit \/ Pass
  BY <1>1, CommitKeeps, PassKeeps
<1>2. ASSUME NEW c \in Capturable, Capture(c) PROVE TiersInv'
  BY <1>2, CaptureKeeps
<1>3. ASSUME NEW m \in store, Reinforce(m) \/ EraseId(m) \/ ErasedElsewhere(m) PROVE TiersInv'
  BY <1>3, ReinforceKeeps, EraseKeeps, ErasedElsewhereKeeps DEF EraseId
<1>4. ASSUME NEW s \in Scopes, EraseScope(s) \/ Reflect(s) PROVE TiersInv'
  BY <1>4, EraseKeeps, ReflectKeeps DEF EraseScope
<1>5. CASE Fail \/ Restart \/ Tick
  BY <1>5, DeathKeeps, TickKeeps
<1>6. CASE UNCHANGED vars
  <2>1. UNCHANGED <<store, ext, links, cross, job, now, next, calls, faults>>
    BY <1>6 DEF vars, files, bounds
  <2>2. Known' = Known /\ AllLinks' = AllLinks
    BY <2>1 DEF Known, AllLinks
  <2>. QED BY <2>1, <2>2 DEF TiersInv, StoreTyped, KnownSound, SidecarOld, CrossOld
<1>. QED BY <1>1, <1>2, <1>3, <1>4, <1>5, <1>6 DEF Next

LEMMA InitHolds ==
    ASSUME Init
    PROVE  TiersInv
<1>1. /\ store \in SUBSET Memory /\ OneEach(store)
      /\ \A m \in store : /\ m.id \in OldIds /\ m.born = 0 /\ m.sources \in SUBSET OldIds
                          /\ NoScratchFacts => (m.kind = "fact" => m.tier # "working")
  BY LegacyIsTyped DEF Init, OldIds, FirstId, Memory, Id, OneEach, NoScratchFacts
<1>2. /\ job = NoJob /\ now = 0 /\ next = FirstId /\ links = {} /\ cross = {} /\ faults = 0
      /\ ext = Rows(store) /\ calls \in 0..MaxCalls
  BY LegacyIsTyped DEF Init
<1>3. Known = store /\ AllLinks = {} /\ GoodJob(job)
  BY <1>2, NoJobIsGood DEF Known, AllLinks
<1>4. ext \in SUBSET Listed /\ OneEach(ext) /\ SidecarOld
  <2>1. \A r \in ext : \E m \in store : r.id = m.id
    BY <1>2 DEF Rows, Row
  <2>. QED BY <1>1, <1>2, <2>1, RowsAreListed DEF SidecarOld, OldIds, FirstId
<1>5. StoreTyped /\ CrossOld
  BY <1>1, <1>2, <1>4, BoundsAreNat DEF StoreTyped, CrossOld, FirstId
<1>6. OldEnough(store, next, now)
  BY <1>1, <1>2 DEF OldEnough, OldIds, FirstId
<1>7. OneMemoryEach(store)
  BY <1>1 DEF OneMemoryEach, OneEach, SameMemory
<1>8. SourcesSound(store)
  BY <1>1 DEF SourcesSound, Ours, OldIds, FirstId
<1>9. FactsLast(store) /\ LinksSound(store, {}, next)
  BY <1>1 DEF FactsLast, IsScratch, LinksSound
<1>. QED BY <1>1, <1>3, <1>4, <1>5, <1>6, <1>7, <1>8, <1>9 DEF TiersInv, KnownSound, Sound

LEMMA AlwaysTiersInv == Spec => []TiersInv
  BY InitHolds, NextKeeps, PTL DEF Spec

\* Every memory of the engine has one record, made before now under an id used
\* once; no file names an id that is still to come.
THEOREM TiersTypeCorrect == Spec => []TiersTypeOK
<1>1. ASSUME TiersInv PROVE TiersTypeOK
  <2>1. \A m \in store : m \in Memory /\ m.id < next /\ m.born <= now /\ \A i \in m.sources : i < next
    BY <1>1 DEF TiersInv, StoreTyped, KnownSound, Sound, OldEnough, Known
  <2>2. next \in Nat /\ now \in Nat /\ OneEach(store) /\ OneEach(ext)
        /\ calls \in 0..MaxCalls /\ faults \in 0..MaxFaults
    BY <1>1 DEF TiersInv, StoreTyped
  <2>3. \A m \in store : /\ m.id \in 1..next /\ m.kind \in Kinds /\ m.tier \in Tiers
                         /\ m.born \in 0..now /\ m.used \in BOOLEAN /\ m.sources \in SUBSET (1..next)
    BY <2>1, <2>2 DEF Memory, Id
  <2>4. Ids(ext) \subseteq 1..next /\ cross \subseteq 1..next
    BY <1>1 DEF TiersInv, StoreTyped, SidecarOld, CrossOld, Ids, Listed, Id
  <2>5. job = NoJob \/ job.todo # <<>> \/ job.op = "reflect"
    BY <1>1 DEF TiersInv, GoodJob
  <2>. QED BY <2>2, <2>3, <2>4, <2>5 DEF TiersTypeOK, OneEach
<1>. QED BY <1>1, AlwaysTiersInv, PTL

LEMMA MadeIsSound ==
    ASSUME TiersInv, NEW d \in store, NEW m \in store, MadeFrom(d, m)
    PROVE  d.place = m.place /\ (IsScratch(m) => m.kind = "fact")
<1>1. d \in Known /\ m \in Known /\ links \subseteq AllLinks
  BY DEF Known, AllLinks
<1>2. LinksSound(Known, AllLinks, next) /\ SourcesSound(Known)
  BY DEF TiersInv, KnownSound, Sound
<1>3. CASE [from |-> d.id, rel |-> "derived_from", to |-> m.id] \in links
  BY <1>1, <1>2, <1>3 DEF LinksSound
<1>4. CASE Ours(d) /\ m.id \in d.sources
  BY <1>1, <1>2, <1>4 DEF SourcesSound
<1>. QED BY <1>3, <1>4 DEF MadeFrom

LEMMA MentionIsSound ==
    ASSUME TiersInv, NEW e \in links, e.rel = "mentions"
    PROVE  /\ \A m \in store : m.id = e.from => ~IsScratch(m)
           /\ \A d, m \in store : m.id = e.from /\ d.id = e.to => d.place.facets = m.place.facets
<1>1. store \subseteq Known /\ e \in AllLinks
  BY DEF Known, AllLinks
<1>2. LinksSound(Known, AllLinks, next)
  BY DEF TiersInv, KnownSound, Sound
<1>. QED BY <1>1, <1>2 DEF LinksSound

\* Consolidation never widens who sees a memory, for any scopes, facets and
\* texts and any number of passes, deaths and erasures by other servers: a
\* derived memory is at the very place of its source.
THEOREM NothingIsWidened == Spec => []NothingWidens
<1>1. ASSUME TiersInv PROVE NothingWidens
  <2>1. \A d, m \in store : MadeFrom(d, m) => Recalls(d) \subseteq Recalls(m)
    BY <1>1, MadeIsSound DEF Recalls
  <2>2. ASSUME NEW d \in store, NEW m \in store,
               [from |-> m.id, rel |-> "mentions", to |-> d.id] \in links
        PROVE  d.place.facets = m.place.facets
    BY <1>1, <2>2, MentionIsSound
  <2>. QED BY <2>1, <2>2 DEF NothingWidens
<1>. QED BY <1>1, AlwaysTiersInv, PTL

\* Nothing that a pass writes comes from scratch, if no fact is ever captured
\* into the working tier.  The hypothesis is needed: promote_skills looks at a
\* fact's confirmations and not at its tier.
THEOREM ScratchIsForgotten ==
    ASSUME NoScratchFacts
    PROVE  Spec => []ScratchLeavesNoTrace
<1>1. ASSUME TiersInv PROVE ScratchLeavesNoTrace
  <2>1. \A m \in store : m.kind = "fact" => ~IsScratch(m)
    BY <1>1 DEF TiersInv, KnownSound, Sound, FactsLast, Known
  <2>2. \A d, m \in store : IsScratch(m) => ~MadeFrom(d, m)
    BY <1>1, <2>1, MadeIsSound
  <2>3. \A m \in store, e \in links : IsScratch(m) => ~(e.from = m.id /\ e.rel = "mentions")
    BY <1>1, MentionIsSound
  <2>. QED BY <2>2, <2>3 DEF ScratchLeavesNoTrace
<1>. QED BY <1>1, AlwaysTiersInv, PTL

-----------------------------------------------------------------------------
(* A fact or a skill is kept once.  What an operation may still write, and   *)
(* not what it refers to, is what counts: while a pass mints, its batch       *)
(* names facts that another server may have erased.                          *)

Lasting(j) == InWrites(j.todo) \cup (UNION j.groups) \cup (IF j.phase \in Making THEN {} ELSE j.batch)
Remains    == store \cup Lasting(job)

\* Those of them that it may fold.
ToMove(j) == (UNION j.groups) \cup (IF j.phase \in Making THEN {} ELSE j.batch)

Alike(a, b) ==
    a.kind = b.kind /\ a.kind \in {"fact", "skill"} /\ a.text = b.text /\ a.place = b.place
KeptOnce(M) == \A a, b \in M : Alike(a, b) => a.id = b.id

\* What a host does that leaves facts and skills to the passes.
OnlyPassesDerive ==
    /\ \A c \in Capturable : c.kind \notin {"fact", "skill"}
    /\ \A M \in Legacy : KeptOnce(M)

\* A memory that may be stored after a step is a copy of one that might be before
\* it, or new.
Carried(x) ==
    \E y \in Remains : /\ SameMemory(x, y) /\ x.sources \subseteq y.sources
                      /\ x.tier \in {y.tier, "archival"}
Fresh(x) ==
    /\ x.id = next
    /\ x.sources # {} => x.tier = "archival" /\ x.sources \subseteq Ids(ToMove(job))
    /\ OnlyPassesDerive => \A y \in Remains : ~Alike(x, y)

Grows == \A x \in store' \cup Lasting(job') : Carried(x) \/ Fresh(x)

LEMMA LessGrows ==
    ASSUME store' \subseteq Remains, Lasting(job') \subseteq Remains
    PROVE  Grows
  BY DEF Grows, Carried, SameMemory

LEMMA LastingParts ==
    ASSUME NEW j, NEW H, InWrites(j.todo) \subseteq H, \A g \in j.groups : g \subseteq H,
           j.phase \notin Making => j.batch \subseteq H
    PROVE  Lasting(j) \subseteq H
<1>1. (UNION j.groups) \subseteq H
  OBVIOUS
<1>. QED BY <1>1 DEF Lasting

LEMMA LastingHolds ==
    /\ \A j : InWrites(j.todo) \subseteq Lasting(j)
    /\ \A j : j.phase \notin Making => j.batch \subseteq Lasting(j)
    /\ \A j : \A g \in j.groups : g \subseteq Lasting(j)
<1>1. ASSUME NEW j, NEW g \in j.groups PROVE g \subseteq Lasting(j)
  <2>1. g \subseteq (UNION j.groups)
    OBVIOUS
  <2>. QED BY <2>1 DEF Lasting
<1>. QED BY <1>1 DEF Lasting

LEMMA CallLasts ==
    ASSUME NEW op, NEW s
    PROVE  Lasting([NoJob EXCEPT !.op = op, !.todo = s]) = InWrites(s)
  BY DEF Lasting, NoJob, Making

LEMMA NoJobLasts == Lasting(NoJob) = {}
  BY NoWrites DEF Lasting, NoJob, Making

LEMMA CommitGrows ==
    ASSUME TiersInv, Commit
    PROVE  Grows
<1> DEFINE w == Head(job.todo)
<1>1. job.todo \in Seq(Writes) /\ job.todo # <<>>
  BY JobFacts DEF Commit
<1>2. Copies(w) \subseteq InWrites(job.todo) /\ InWrites(Tail(job.todo)) \subseteq InWrites(job.todo)
  BY <1>1, FirstWrite
<1>3. store' \subseteq store \cup Copies(w)
  <2>1. store' = CASE w.do = "put" -> Put(w.mems) [] w.do = "remove" -> Without(w.mems) [] OTHER -> store
    BY DEF Commit
  <2>2. w.do = "put" => Copies(w) = w.mems
    BY DEF Copies
  <2>. QED BY <2>1, <2>2 DEF Put, Without
<1>4. Lasting(job') \subseteq Lasting(job)
  <2>1. CASE job' = NoJob
    BY <2>1, NoJobLasts
  <2>2. CASE job' = [job EXCEPT !.todo = Tail(@)]
    <3>1. /\ job'.todo = Tail(job.todo) /\ job'.groups = job.groups /\ job'.batch = job.batch
          /\ job'.phase = job.phase
      BY <2>2, JobFacts DEF JobRecord
    <3>. QED BY <1>2, <3>1 DEF Lasting
  <2>. QED BY <2>1, <2>2 DEF Commit
<1> HIDE DEF w
<1>5. store' \subseteq Remains /\ Lasting(job') \subseteq Remains
  BY <1>2, <1>3, <1>4, LastingHolds DEF Remains
<1>. QED BY <1>5, LessGrows

LEMMA CallsGrow ==
    ASSUME TiersInv,
           \/ \E c \in Capturable : Capture(c)
           \/ \E m \in store : Reinforce(m) \/ EraseId(m) \/ ErasedElsewhere(m)
           \/ \E s \in Scopes : EraseScope(s)
    PROVE  Grows
<1>1. ASSUME NEW c \in Capturable, Capture(c) PROVE Grows
  <2> DEFINE m == New(c.kind, c.tier, c.place, c.text, {})
             s == CaptureWrites(m) \o <<Write("cross", {m})>>
  <2>1. /\ m \in Memory /\ m.id = next /\ m.kind = c.kind /\ m.sources = {}
    <3>1. {} \in SUBSET Id
      OBVIOUS
    <3>. QED BY <3>1, CapturableAreTyped, NewIsTyped
  <2>2. store' = store /\ job' = [NoJob EXCEPT !.op = "capture", !.todo = s]
    BY <1>1 DEF Capture, files
  <2> HIDE DEF m
  <2>3. InWrites(s) = {m}
    BY <2>1, CaptureWritesTyped
  <2> HIDE DEF s
  <2>4. Lasting(job') = {m}
    BY <2>2, <2>3, CallLasts
  <2>5. Fresh(m)
    BY <2>1 DEF Fresh, Alike, OnlyPassesDerive
  <2>. QED BY <2>2, <2>4, <2>5 DEF Grows, Carried, Remains, SameMemory
<1>2. ASSUME NEW m \in store, Reinforce(m) PROVE Grows
  <2> DEFINE c == [m EXCEPT !.used = TRUE, !.sources = {}]
  <2>1. m \in Memory
    BY JobFacts
  <2>2. c \in Memory /\ SameMemory(c, m) /\ c.sources \subseteq m.sources /\ c.tier = m.tier
    BY <1>2, <2>1 DEF Memory, Id, SameMemory, IsScratch, Reinforce
  <2>3. store' = store /\ job' = [NoJob EXCEPT !.op = "reinforce", !.todo = CaptureWrites(c)]
    BY <1>2 DEF Reinforce, files
  <2> HIDE DEF c
  <2>4. Lasting(job') = {c}
    BY <2>2, <2>3, CallLasts, CaptureWritesTyped
  <2>. QED BY <2>2, <2>3, <2>4 DEF Grows, Carried, Remains, SameMemory
<1>3. ASSUME NEW M \in SUBSET store, Erase(M) PROVE Grows
  <2>1. store' = store /\ job' = [NoJob EXCEPT !.op = "erase", !.todo = EraseWrites(M)] /\ M \in SUBSET Memory
    BY <1>3, JobFacts DEF Erase, files
  <2>2. Lasting(job') = {}
    BY <2>1, CallLasts, EraseWritesTyped
  <2>. QED BY <2>1, <2>2, LessGrows DEF Remains
<1>4. ASSUME NEW m \in store, ErasedElsewhere(m) PROVE Grows
  BY <1>4, LessGrows DEF ErasedElsewhere, Without, Remains
<1>. QED BY <1>1, <1>2, <1>3, <1>4 DEF EraseId, EraseScope

LEMMA OthersGrow ==
    ASSUME TiersInv, Fail \/ Restart \/ Tick \/ \E s \in Scopes : Reflect(s)
    PROVE  Grows
<1>1. store' = store
  BY DEF Fail, Restart, Tick, Reflect, files
<1>2. CASE job' = NoJob
  BY <1>1, <1>2, NoJobLasts, LessGrows DEF Remains
<1>3. CASE job' = job
  BY <1>1, <1>3, LessGrows DEF Remains
<1>4. ASSUME NEW s \in Scopes, Reflect(s) PROVE Grows
  <2>1. job' = [NoJob EXCEPT !.op = "reflect", !.scope = s, !.phase = "expire", !.round = 1]
    BY <1>4 DEF Reflect
  <2>2. job'.todo = <<>> /\ job'.batch = {} /\ job'.groups = {}
    BY <2>1 DEF NoJob
  <2>3. Lasting(job') = {}
    BY <2>2, NoWrites DEF Lasting
  <2>. QED BY <1>1, <2>3, LessGrows DEF Remains
<1>. QED BY <1>2, <1>3, <1>4 DEF Fail, Restart, Tick

LEMMA DroppedGrows ==
    ASSUME TiersInv, job.phase \in Drop, job.todo = <<>>, job' = Dropped, store' = store
    PROVE  Grows
<1> DEFINE G == IF job.round = 3 THEN Groups(job.batch) ELSE {}
           ph == <<"expire", "distil", "summarize">>[job.round]
<1>1. /\ job.round \in 1..3 /\ job.batch \in SUBSET Memory /\ OneEach(job.batch)
      /\ \A m \in job.batch : ~IsScratch(m)
  BY DEF TiersInv, GoodJob, Drop, Making
<1>2. UNION G \subseteq job.batch
  BY <1>1, GroupsAreGroups
<1>3. job' = [job EXCEPT !.round = @ + 1, !.phase = ph, !.groups = G]
  BY DEF Dropped
<1> HIDE DEF G, ph
<1>4. job'.groups = G /\ job'.todo = <<>> /\ job'.batch = job.batch
  BY <1>3, JobFacts DEF JobRecord
<1>5. job.batch \subseteq Remains
  BY LastingHolds DEF Remains, Drop, Making
<1>6. Lasting(job') \subseteq Remains
  BY <1>2, <1>4, <1>5, NoWrites DEF Lasting
<1>. QED BY <1>6, LessGrows DEF Remains

LEMMA DropsGrow ==
    ASSUME TiersInv, DropExpired \/ RepairSummaries
    PROVE  Grows
<1>1. job.todo = <<>> /\ job.phase \in Drop /\ store' = store
  BY DEF DropExpired, RepairSummaries, At, Drop, files
<1>2. job.batch \subseteq Remains /\ \A g \in job.groups : g \subseteq Remains
  BY <1>1, LastingHolds DEF Remains, Drop, Making
<1>3. CASE job' = Dropped
  BY <1>1, <1>3, DroppedGrows
<1>4. ASSUME NEW M \in SUBSET store, NEW u,
             job' = [job EXCEPT !.phase = "repair", !.todo = RemoveWrites(M), !.unsound = u]
      PROVE  Grows
  <2>1. M \in SUBSET Memory
    BY JobFacts
  <2>2. InWrites(job'.todo) = {} /\ job'.groups = job.groups /\ job'.batch = job.batch
    BY <1>4, <2>1, RemoveWritesTyped, JobFacts DEF JobRecord
  <2>3. Lasting(job') \subseteq Remains
    BY <1>2, <2>2, LastingParts
  <2>. QED BY <1>1, <2>3, LessGrows DEF Remains
<1>5. ASSUME NEW M \in SUBSET store, NEW u, RepairSummaries, M = UNION {Durable(a) : a \in Stale},
             job' = [job EXCEPT !.phase = "rebuild", !.todo = RemoveWrites(Stale), !.unsound = u,
                                !.groups = Groups(M)]
      PROVE  Grows
  <2>1. Stale \in SUBSET Memory /\ M \in SUBSET Memory /\ OneEach(M) /\ \A m \in M : ~IsScratch(m)
    <3>1. Stale \in SUBSET store /\ \A m \in M : ~IsScratch(m)
      BY <1>5 DEF Stale, Durable
    <3>. QED BY <3>1, JobFacts DEF OneEach
  <2>2. UNION Groups(M) \subseteq M
    BY <2>1, GroupsAreGroups
  <2>3. InWrites(job'.todo) = {} /\ job'.groups = Groups(M) /\ job'.batch = job.batch
    BY <1>5, <2>1, RemoveWritesTyped, JobFacts DEF JobRecord
  <2>4. Lasting(job') \subseteq Remains
    BY <1>2, <2>2, <2>3 DEF Lasting, Remains
  <2>. QED BY <1>1, <2>4, LessGrows DEF Remains
<1>6. Expired(job.scope) \in SUBSET store /\ (UNION {Durable(a) : a \in Stale}) \in SUBSET store
  BY DEF Expired, Hydrate, Durable
<1>. QED BY <1>3, <1>4, <1>5, <1>6 DEF DropExpired, RepairSummaries

LEMMA FoldGrows ==
    ASSUME TiersInv, job.phase \in {"rebuild", "summarize"}, job.groups # {}, Fold(NextGroup)
    PROVE  Grows
<1> DEFINE g == NextGroup
           place == (CHOOSE m \in g : TRUE).place
           a == New("archive", "archival", place, "summary", Ids(g))
<1>1. g \in job.groups /\ Group(g)
  BY NextGroupIsOne
<1>2. job' = [job EXCEPT !.groups = @ \ {g}, !.todo = FoldWrites(g, a)] /\ store' = store
  BY DEF Fold, files
<1>3. place \in Places /\ Ids(g) \in SUBSET Id /\ \A m \in g : m \in Memory
  <2>1. (CHOOSE m \in g : TRUE) \in g /\ \A m \in g : m \in Memory
    BY <1>1 DEF Group
  <2> HIDE DEF g
  <2>. QED BY <2>1 DEF Ids, Memory
<1>4. a \in Memory /\ a.id = next /\ a.kind = "archive" /\ a.tier = "archival" /\ a.sources = Ids(g)
  <2>1. "archive" \in Kinds /\ "archival" \in Tiers /\ "summary" \in Texts
    BY TextsAreTexts DEF Kinds, Tiers
  <2> HIDE DEF place, g
  <2>. QED BY <1>3, <2>1, NewIsTyped
<1> HIDE DEF a, place, g
<1>5. \A m \in g : m.id # a.id
  <2>1. g \subseteq Known
    BY <1>1, HeldParts DEF Known
  <2>. QED BY <1>4, <2>1 DEF TiersInv, KnownSound, Sound, OldEnough, StoreTyped
<1>6. InWrites(FoldWrites(g, a)) = Moved(g) \cup {a}
  BY <1>1, <1>4, <1>5, FoldWritesTyped
<1>7. g \subseteq Remains
  BY <1>1, LastingHolds DEF Remains
<1>8. \A c \in Moved(g) : Carried(c)
  <2>1. ASSUME NEW m \in g, NEW c, c = [m EXCEPT !.tier = "archival"]
        PROVE  SameMemory(c, m) /\ c.sources \subseteq m.sources /\ c.tier = "archival"
    <3>1. m.tier # "working" /\ m.kind # "working" /\ m \in Memory
      BY <1>1 DEF Group, IsScratch
    <3>. QED BY <2>1, <3>1 DEF SameMemory, IsScratch, Memory
  <2>2. \A c \in Moved(g) : \E m \in g : c = [m EXCEPT !.tier = "archival"]
    BY DEF Moved
  <2>. QED BY <1>7, <2>1, <2>2 DEF Carried
<1>9. Fresh(a)
  <2>1. g \subseteq ToMove(job)
    BY <1>1 DEF ToMove
  <2>. QED BY <1>4, <2>1 DEF Fresh, Alike, Ids
<1>10. /\ job'.todo = FoldWrites(g, a) /\ job'.groups = job.groups \ {g} /\ job'.batch = job.batch
       /\ job'.phase = job.phase
  BY <1>2, JobFacts DEF JobRecord
<1>11. Lasting(job') \subseteq Remains \cup Moved(g) \cup {a}
  <2> DEFINE H == Remains \cup Moved(g) \cup {a}
  <2>1. /\ InWrites(job'.todo) \subseteq H /\ (job'.phase \notin Making => job'.batch \subseteq H)
        /\ \A h \in job'.groups : h \subseteq H
    BY <1>6, <1>10, LastingHolds DEF Remains
  <2> HIDE DEF H
  <2>2. Lasting(job') \subseteq H
    BY <2>1, LastingParts
  <2>. QED BY <2>2 DEF H
<1>12. store \subseteq Remains /\ \A x \in Remains : Carried(x)
  BY DEF Remains, Carried, SameMemory
<1>. QED BY <1>2, <1>8, <1>9, <1>11, <1>12 DEF Grows

LEMMA FoldsGrow ==
    ASSUME TiersInv, Rebuild \/ Summarize
    PROVE  Grows
<1>1. job.todo = <<>> /\ job.phase \in {"rebuild", "summarize"}
  BY DEF Rebuild, Summarize, At
<1>2. CASE job.groups # {} /\ Fold(NextGroup)
  BY <1>1, <1>2, FoldGrows
<1>3. CASE job.phase = "rebuild" /\ job' = Dropped /\ store' = store
  BY <1>1, <1>3, DroppedGrows DEF Drop
<1>4. CASE Goto("end", <<Write("uncross", job.unsound)>>) /\ store' = store
  <2> DEFINE s == <<Write("uncross", job.unsound)>>
  <2>1. InWrites(s) = {}
    BY JobFacts, RemovalIsTyped
  <2>2. job' = [job EXCEPT !.phase = "end", !.todo = s]
    BY <1>4 DEF Goto
  <2> HIDE DEF s
  <2>3. job'.todo = s /\ job'.groups = job.groups /\ job'.batch = job.batch
    BY <2>2, JobFacts DEF JobRecord
  <2>4. job.batch \subseteq Remains /\ \A g \in job.groups : g \subseteq Remains
    BY <1>1, LastingHolds DEF Remains, Making
  <2>5. Lasting(job') \subseteq Remains
    BY <2>1, <2>3, <2>4, LastingParts
  <2>. QED BY <1>4, <2>5, LessGrows DEF Remains
<1>. QED BY <1>1, <1>2, <1>3, <1>4 DEF Rebuild, Summarize, files, At

\* Between the summaries of a pass no group is left.
LEMMA BatchesGrow ==
    ASSUME TiersInv, Distil \/ Promote \/ Select
    PROVE  Grows
<1>1. job.todo = <<>> /\ job.phase \in {"distil"} \cup Making /\ store' = store
  BY DEF Distil, Promote, Select, At, Making, files
<1>2. job.groups = {}
  BY <1>1 DEF TiersInv, GoodJob
<1>3. ASSUME NEW ph \in {"write", "mint"}, NEW B, job' = [job EXCEPT !.phase = ph, !.batch = B]
      PROVE  Grows
  <2>1. job'.todo = <<>> /\ job'.groups = {} /\ job'.phase \in Making
    BY <1>1, <1>2, <1>3, JobFacts DEF JobRecord, Making
  <2>2. Lasting(job') = {}
    BY <2>1, NoWrites DEF Lasting
  <2>. QED BY <1>1, <2>2, LessGrows DEF Remains
<1>4. CASE job' = [job EXCEPT !.phase = "expire", !.batch = Aged(job.scope)]
  <2>1. job'.todo = <<>> /\ job'.groups = {} /\ job'.batch = Aged(job.scope)
    BY <1>1, <1>2, <1>4, JobFacts DEF JobRecord
  <2>2. Aged(job.scope) \subseteq Remains
    BY DEF Aged, Hydrate, Remains
  <2>3. Lasting(job') \subseteq Remains
    BY <2>1, <2>2, NoWrites, LastingParts
  <2>. QED BY <1>1, <2>3, LessGrows DEF Remains
<1>. QED BY <1>3, <1>4 DEF Distil, Promote, Select

\* What is minted has no twin, and while a pass mints nothing else is to be
\* written.
LEMMA WriteOneGrows ==
    ASSUME TiersInv, WriteOne
    PROVE  Grows
<1> DEFINE b     == NextEntry
           twins == Twins(b.kind, b.from, b.text)
           m     == New(b.kind, Tier[b.kind], b.from.place, b.text, {})
           e     == IF twins = {} THEN m ELSE CHOOSE t \in twins : TRUE
           s     == WritesOf(b, m, e)
<1>1. /\ job.phase \in Making /\ job.todo = <<>> /\ job.batch # {} /\ store' = store
      /\ job' = [job EXCEPT !.batch = @ \ {b}, !.todo = s]
  BY DEF WriteOne, At, Making, files
<1>2. job.groups = {} /\ Remains = store
  BY <1>1, NoWrites DEF TiersInv, GoodJob, Remains, Lasting
<1>3. b \in Entry
  BY <1>1, NextEntryIsOne DEF TiersInv, GoodJob
<1>4. twins = {} => \A y \in store : ~(y.kind = b.kind /\ b.kind \in {"fact", "skill"}
                                        /\ y.text = b.text /\ y.place = b.from.place)
  BY DEF Twins
<1>5. twins \subseteq store
  BY DEF Twins
<1> HIDE DEF b
<1>6. /\ m \in Memory /\ m.id = next /\ m.kind = b.kind /\ m.text = b.text
      /\ m.place = b.from.place /\ m.sources = {}
  <2>1. /\ b.kind \in {"fact", "entity", "skill"} /\ b.text \in Texts /\ b.from.place \in Places
    BY <1>3 DEF Entry, Memory
  <2>2. b.kind \in Kinds /\ Tier[b.kind] \in Tiers /\ {} \in SUBSET Id
    BY <2>1 DEF Tier, Kinds, Tiers
  <2>. QED BY <2>1, <2>2, NewIsTyped
<1> HIDE DEF m, twins
<1>7. e = m \/ e \in store
  BY <1>5
<1>8. e \in Memory
  BY <1>6, <1>7, JobFacts
<1>9. InWrites(s) = IF e = m THEN {m} ELSE {}
  BY <1>3, <1>6, <1>8, WritesOfTyped
<1>10. e = m => twins = {}
  <2>1. \A y \in store : y.id < next /\ y.id \in Nat
    BY JobFacts DEF TiersInv, KnownSound, Sound, OldEnough, Memory, Id
  <2>2. next \in Nat
    BY DEF TiersInv, StoreTyped
  <2>3. m \notin store
    BY <1>6, <2>1, <2>2
  <2>. QED BY <1>5, <2>3
<1> HIDE DEF e, s
<1>11. job'.todo = s /\ job'.groups = {} /\ job'.phase \in Making
  BY <1>1, <1>2, JobFacts DEF JobRecord
<1>12. Lasting(job') = IF e = m THEN {m} ELSE {}
  BY <1>9, <1>11 DEF Lasting
<1>13. e = m => Fresh(m)
  BY <1>2, <1>4, <1>6, <1>10 DEF Fresh, Alike
<1>14. \A x \in store : Carried(x)
  BY DEF Remains, Carried, SameMemory
<1>. QED BY <1>1, <1>12, <1>13, <1>14 DEF Grows

LEMMA EveryStepGrows ==
    ASSUME TiersInv, [Next]_vars
    PROVE  Grows
<1>1. CASE UNCHANGED vars
  BY <1>1, LessGrows DEF vars, files, Remains
<1>2. CASE Commit \/ Pass
  BY <1>2, CommitGrows, DropsGrow, FoldsGrow, BatchesGrow, WriteOneGrows DEF Pass
<1>3. CASE Next /\ ~(Commit \/ Pass)
  BY <1>3, CallsGrow, OthersGrow DEF Next
<1>. QED BY <1>1, <1>2, <1>3

\* A fact or a skill is kept once per place, however passes are cut, repeated
\* and mixed with erasures by other servers, if only passes make them: what is
\* about to be stored is never another copy of what was, or will be, stored.
THEOREM DerivedStaysOnce ==
    ASSUME OnlyPassesDerive
    PROVE  Spec => []DerivedOnce
<1>1. Init => KeptOnce(Remains)
  <2>1. Init => Remains = store
    BY NoJobLasts DEF Init, Remains
  <2>. QED BY <2>1 DEF Init, OnlyPassesDerive
<1>2. ASSUME TiersInv, KeptOnce(Remains), [Next]_vars PROVE KeptOnce(Remains)'
  <2>1. \A x \in Remains' : Carried(x) \/ Fresh(x)
    BY <1>2, EveryStepGrows DEF Grows, Remains
  <2>2. ASSUME NEW x \in Remains', NEW y \in Remains', Alike(x, y) PROVE x.id = y.id
    <3>1. CASE Carried(x) /\ Carried(y)
      BY <1>2, <2>2, <3>1 DEF Carried, SameMemory, KeptOnce, Alike
    <3>2. CASE Fresh(x) /\ Fresh(y)
      BY <3>2 DEF Fresh
    <3>3. Carried(x) => ~Fresh(y)
      BY <2>2 DEF Carried, SameMemory, Fresh, Alike
    <3>4. Carried(y) => ~Fresh(x)
      BY <2>2 DEF Carried, SameMemory, Fresh, Alike
    <3>. QED BY <2>1, <3>1, <3>2, <3>3, <3>4
  <2>. QED BY <2>2 DEF KeptOnce
<1>3. ASSUME TiersInv, KeptOnce(Remains) PROVE DerivedOnce
  BY <1>3, JobFacts DEF DerivedOnce, KeptOnce, Alike, Remains, OneEach
<1>. QED BY <1>1, <1>2, <1>3, AlwaysTiersInv, PTL DEF Spec

-----------------------------------------------------------------------------
(* The order of the commits.  A memory that is put is listed by the next      *)
(* commit, one that is removed is unlisted by it; links and cross-store edges *)
(* come last.                                                                *)

Shape(s) ==
    \A i \in 1..Len(s) :
        /\ s[i].do \in {"put", "remove"} =>
              /\ i = 1 /\ Len(s) >= 2 /\ s[2].mems = s[1].mems
              /\ s[2].do = IF s[1].do = "put" THEN "list" ELSE "unlist"
        /\ s[i].do \in {"list", "unlist"} => i = 1 \/ (i = 2 /\ s[1].do \in {"put", "remove"})
        /\ s[i].do = "cross" => s[1].do # "remove"

\* What the first commit puts, or removes, and the memories whose cross-store
\* edges a commit writes, or removes.
Putting(s)    == IF s # <<>> /\ s[1].do = "put" THEN s[1].mems ELSE {}
Leaving(s)    == IF s # <<>> /\ s[1].do = "remove" THEN s[1].mems ELSE {}
Crossing(s)   == UNION {s[i].mems : i \in {k \in 1..Len(s) : s[k].do = "cross"}}
Uncrossing(s) == UNION {s[i].mems : i \in {k \in 1..Len(s) : s[k].do = "uncross"}}

Shaped(s, P, L, C, U) ==
    Shape(s) /\ Putting(s) = P /\ Leaving(s) = L /\ Crossing(s) = C /\ Uncrossing(s) = U

LEMMA NoShape == Shaped(<<>>, {}, {}, {}, {})
  BY DEF Shaped, Shape, Putting, Leaving, Crossing, Uncrossing

LEMMA UncrossShape ==
    ASSUME NEW M
    PROVE  Shaped(<<Write("uncross", M)>>, {}, {}, {}, M)
<1> DEFINE s == <<Write("uncross", M)>>
<1>1. s # <<>> /\ Len(s) = 1 /\ s[1].do = "uncross" /\ s[1].mems = M
  BY DEF Write
<1> HIDE DEF s
<1>2. 1..Len(s) = {1}
  BY <1>1
<1>3. {k \in 1..Len(s) : s[k].do = "uncross"} = {1} /\ {k \in 1..Len(s) : s[k].do = "cross"} = {}
  BY <1>1, <1>2
<1>4. Uncrossing(s) = M /\ Crossing(s) = {}
  BY <1>1, <1>3, Zenon DEF Crossing, Uncrossing
<1>5. Shape(s) /\ Putting(s) = {} /\ Leaving(s) = {}
  BY <1>1, <1>2 DEF Shape, Putting, Leaving
<1>. QED BY <1>4, <1>5 DEF Shaped, s

\* Two commits, and what may follow them.
LEMMA PairFirst ==
    ASSUME NEW u, NEW v, NEW S, u \in S, v \in S, NEW r \in Seq(S)
    PROVE  LET s == <<u, v>> \o r
           IN /\ s # <<>> /\ Len(s) = Len(r) + 2 /\ s[1] = u /\ s[2] = v
              /\ \A i \in 1..Len(s) : i > 2 => i - 2 \in 1..Len(r) /\ s[i] = r[i - 2]
              /\ \A k \in 1..Len(r) : k + 2 \in 1..Len(s) /\ s[k + 2] = r[k]
  OBVIOUS

LEMMA PairShape ==
    ASSUME NEW M, NEW r \in Seq(Writes),
           \A i \in 1..Len(r) : r[i].do \in {"link", "cross", "uncross"},
           NEW do \in {"put", "remove"}, do = "remove" => \A i \in 1..Len(r) : r[i].do # "cross",
           M \in SUBSET Memory
    PROVE  LET s == <<Write(do, M), Write(IF do = "put" THEN "list" ELSE "unlist", M)>> \o r
           IN Shaped(s, IF do = "put" THEN M ELSE {}, IF do = "remove" THEN M ELSE {},
                     Crossing(r), Uncrossing(r))
<1> DEFINE u == Write(do, M)
           v == Write(IF do = "put" THEN "list" ELSE "unlist", M)
           s == <<u, v>> \o r
<1>1. /\ u \in Writes /\ v \in Writes /\ u.do = do /\ u.mems = M
      /\ v.do = (IF do = "put" THEN "list" ELSE "unlist") /\ v.mems = M
  BY DEF Write, Writes
<1> HIDE DEF u, v
<1>2. /\ s # <<>> /\ Len(s) = Len(r) + 2 /\ s[1] = u /\ s[2] = v /\ Len(r) \in Nat
      /\ \A i \in 1..Len(s) : i > 2 => i - 2 \in 1..Len(r) /\ s[i] = r[i - 2]
      /\ \A k \in 1..Len(r) : k + 2 \in 1..Len(s) /\ s[k + 2] = r[k]
  BY <1>1, PairFirst
<1> HIDE DEF s
<1>3. \A i \in 1..Len(s) : i = 1 \/ i = 2 \/ i > 2
  BY <1>2
<1>4. \A i \in 1..Len(s) : i > 2 => s[i].do \in {"link", "cross", "uncross"}
  BY <1>2
<1>5. Shape(s)
  BY <1>1, <1>2, <1>3, <1>4 DEF Shape
<1>6. \A d \in {"cross", "uncross"} :
        UNION {s[i].mems : i \in {k \in 1..Len(s) : s[k].do = d}} =
        UNION {r[i].mems : i \in {k \in 1..Len(r) : r[k].do = d}}
  <2> SUFFICES ASSUME NEW d \in {"cross", "uncross"}
               PROVE  {s[i].mems : i \in {k \in 1..Len(s) : s[k].do = d}} =
                      {r[i].mems : i \in {k \in 1..Len(r) : r[k].do = d}}
    OBVIOUS
  <2>1. ASSUME NEW i \in 1..Len(s), s[i].do = d
        PROVE  \E k \in 1..Len(r) : r[k].do = d /\ r[k].mems = s[i].mems
    <3>1. i > 2
      BY <1>1, <1>2, <1>3, <2>1
    <3>. QED BY <1>2, <2>1, <3>1
  <2>2. \A k \in 1..Len(r) : r[k].do = d => \E i \in 1..Len(s) : s[i].do = d /\ s[i].mems = r[k].mems
    BY <1>2
  <2> DEFINE A == {s[i].mems : i \in {k \in 1..Len(s) : s[k].do = d}}
             B == {r[i].mems : i \in {k \in 1..Len(r) : r[k].do = d}}
  <2>3. A \subseteq B
    BY <2>1
  <2>4. B \subseteq A
    BY <2>2
  <2> HIDE DEF A, B
  <2>5. A = B
    BY <2>3, <2>4
  <2>. QED BY <2>5 DEF A, B
<1>7. Putting(s) = (IF do = "put" THEN M ELSE {}) /\ Leaving(s) = (IF do = "remove" THEN M ELSE {})
  BY <1>1, <1>2 DEF Putting, Leaving
<1>. QED BY <1>5, <1>6, <1>7 DEF Shaped, Crossing, Uncrossing, s, u, v

LEMMA CaptureShape ==
    ASSUME NEW m \in Memory
    PROVE  /\ Shaped(CaptureWrites(m), {m}, {}, {}, {})
           /\ Shaped(CaptureWrites(m) \o <<Write("cross", {m})>>, {m}, {}, {m}, {})
<1> DEFINE u == Write("put", {m})
           v == Write("list", {m})
           c == <<Write("cross", {m})>>
<1>1. <<>> \in Seq(Writes) /\ {m} \in SUBSET Memory
  OBVIOUS
<1>2. c \in Seq(Writes) /\ c[1].do = "cross" /\ c[1].mems = {m} /\ Len(c) = 1
  BY DEF Write, Writes
<1>3. Crossing(<<>>) = {} /\ Uncrossing(<<>>) = {} /\ \A i \in 1..Len(<<>>) : <<>>[i].do = "link"
  BY NoShape DEF Shaped
<1>4. Crossing(c) = {m} /\ Uncrossing(c) = {}
  <2> HIDE DEF c
  <2>1. {k \in 1..Len(c) : c[k].do = "cross"} = {1} /\ {k \in 1..Len(c) : c[k].do = "uncross"} = {}
    BY <1>2
  <2>. QED BY <1>2, <2>1, ZenonT(40) DEF Crossing, Uncrossing
<1>5. Shaped(<<u, v>> \o <<>>, {m}, {}, {}, {})
  BY <1>1, <1>3, PairShape
<1>6. Shaped(<<u, v>> \o c, {m}, {}, {m}, {})
  <2> HIDE DEF c
  <2>1. \A i \in 1..Len(c) : c[i].do = "cross"
    BY <1>2
  <2>. QED BY <1>1, <1>2, <1>4, <2>1, PairShape
<1>7. CaptureWrites(m) = <<u, v>> \o <<>> /\ CaptureWrites(m) \o c = <<u, v>> \o c
  BY DEF CaptureWrites
<1>. QED BY <1>5, <1>6, <1>7

LEMMA EraseShape ==
    ASSUME NEW M \in SUBSET Memory
    PROVE  Shaped(EraseWrites(M), {}, M, {}, M)
<1> DEFINE c == <<Write("uncross", M)>>
<1>1. c \in Seq(Writes) /\ c[1].do = "uncross" /\ Len(c) = 1
  BY DEF Write, Writes
<1>2. Crossing(c) = {} /\ Uncrossing(c) = M
  BY UncrossShape DEF Shaped
<1>3. EraseWrites(M) = <<Write("remove", M), Write("unlist", M)>> \o c
  BY DEF EraseWrites
<1> HIDE DEF c
<1>4. \A i \in 1..Len(c) : c[i].do = "uncross"
  BY <1>1
<1>. QED BY <1>1, <1>2, <1>3, <1>4, PairShape

LEMMA RemoveShape ==
    ASSUME NEW M \in SUBSET Memory
    PROVE  Shaped(RemoveWrites(M), {}, M, {}, {})
<1>1. CASE M = {}
  BY <1>1, NoShape DEF RemoveWrites
<1>2. CASE M # {}
  <2>1. RemoveWrites(M) = <<Write("remove", M), Write("unlist", M)>> \o <<>>
    BY <1>2 DEF RemoveWrites
  <2>2. Crossing(<<>>) = {} /\ Uncrossing(<<>>) = {} /\ <<>> \in Seq(Writes)
    BY NoShape DEF Shaped
  <2>3. \A i \in 1..Len(<<>>) : <<>>[i].do = "link"
    OBVIOUS
  <2>4. Shaped(<<Write("remove", M), Write("unlist", M)>> \o <<>>, {}, M, {}, {})
    BY <2>2, <2>3, PairShape
  <2>. QED BY <2>1, <2>4
<1>. QED BY <1>1, <1>2

\* Links write no memory.
LEMMA LinkShape ==
    ASSUME NEW E \in SUBSET Edges
    PROVE  /\ <<Link(E)>> \in Seq(Writes) /\ \A i \in 1..Len(<<Link(E)>>) : <<Link(E)>>[i].do = "link"
           /\ Shaped(<<Link(E)>>, {}, {}, {}, {})
<1> DEFINE s == <<Link(E)>>
<1>1. s \in Seq(Writes) /\ Len(s) = 1 /\ s[1].do = "link"
  BY DEF Link, Writes
<1> HIDE DEF s
<1>2. 1..Len(s) = {1}
  BY <1>1
<1>3. {k \in 1..Len(s) : s[k].do = "cross"} = {} /\ {k \in 1..Len(s) : s[k].do = "uncross"} = {}
  BY <1>1, <1>2
<1>4. Crossing(s) = {} /\ Uncrossing(s) = {}
  BY <1>3 DEF Crossing, Uncrossing
<1>5. Shape(s) /\ Putting(s) = {} /\ Leaving(s) = {} /\ \A i \in 1..Len(s) : s[i].do = "link"
  BY <1>1, <1>2 DEF Shape, Putting, Leaving
<1>. QED BY <1>1, <1>4, <1>5 DEF Shaped, s

LEMMA FoldShape ==
    ASSUME NEW g, Group(g), NEW a \in Memory
    PROVE  Shaped(FoldWrites(g, a), Moved(g) \cup {a}, {}, {}, {})
<1> DEFINE M == Moved(g) \cup {a}
           E == {[from |-> a.id, rel |-> "derived_from", to |-> m.id] : m \in g}
<1>1. M \in SUBSET Memory
  BY DEF Moved, Memory, Group, Tiers
<1>2. E \in SUBSET Edges
  BY DEF Edges, Group, Memory, Id
<1>3. FoldWrites(g, a) = <<Write("put", M), Write("list", M)>> \o <<Link(E)>>
  BY DEF FoldWrites
<1> HIDE DEF M, E
<1>4. /\ <<Link(E)>> \in Seq(Writes) /\ \A i \in 1..Len(<<Link(E)>>) : <<Link(E)>>[i].do = "link"
      /\ Crossing(<<Link(E)>>) = {} /\ Uncrossing(<<Link(E)>>) = {}
  BY <1>2, LinkShape DEF Shaped
<1>5. Shaped(FoldWrites(g, a), M, {}, {}, {})
  <2> DEFINE r == <<Link(E)>>
  <2> HIDE DEF r
  <2>1. /\ r \in Seq(Writes) /\ \A i \in 1..Len(r) : r[i].do = "link"
        /\ Crossing(r) = {} /\ Uncrossing(r) = {}
    BY <1>4 DEF r
  <2>2. Shaped(<<Write("put", M), Write("list", M)>> \o r, M, {}, {}, {})
    BY <1>1, <2>1, PairShape
  <2>. QED BY <1>3, <2>2 DEF r
<1>. QED BY <1>5 DEF M

LEMMA WritesOfShape ==
    ASSUME NEW b \in Entry, NEW m \in Memory, NEW e \in Memory
    PROVE  /\ Shaped(WritesOf(b, m, e), IF e = m THEN {m} ELSE {}, {}, {}, {})
           /\ WritesOf(b, m, e) = <<>> \/ WritesOf(b, m, e)[1].do \in {"put", "link"}
<1> DEFINE r == IF b.kind = "entity" THEN <<Edge(b.from, "mentions", e)>>
                ELSE IF e = m THEN <<Edge(m, "derived_from", b.from)>> ELSE <<>>
<1>1. /\ r \in Seq(Writes) /\ (\A i \in 1..Len(r) : r[i].do = "link")
      /\ Shaped(r, {}, {}, {}, {})
  <2>1. /\ {[from |-> b.from.id, rel |-> "mentions", to |-> e.id]} \in SUBSET Edges
        /\ {[from |-> m.id, rel |-> "derived_from", to |-> b.from.id]} \in SUBSET Edges
    BY DEF Edges, Entry, Memory, Id
  <2>2. <<>> \in Seq(Writes) /\ (\A i \in 1..Len(<<>>) : <<>>[i].do = "link") /\ Shaped(<<>>, {}, {}, {}, {})
    BY NoShape
  <2>. QED BY <2>1, <2>2, LinkShape DEF Edge
<1>2. WritesOf(b, m, e) = (IF e = m THEN CaptureWrites(m) ELSE <<>>) \o r
  BY DEF WritesOf
<1> HIDE DEF r
<1>3. CASE e = m
  <2>1. Crossing(r) = {} /\ Uncrossing(r) = {} /\ {m} \in SUBSET Memory
    BY <1>1 DEF Shaped
  <2>2. Shaped(<<Write("put", {m}), Write("list", {m})>> \o r, {m}, {}, {}, {})
    BY <1>1, <2>1, PairShape
  <2>3. (<<Write("put", {m}), Write("list", {m})>> \o r)[1].do = "put"
    BY <1>1 DEF Write
  <2>. QED BY <1>2, <1>3, <2>2, <2>3 DEF CaptureWrites
<1>4. CASE e # m
  <2>1. WritesOf(b, m, e) = r
    BY <1>1, <1>2, <1>4
  <2>2. r = <<>> \/ r[1].do = "link"
    BY <1>1
  <2>. QED BY <1>1, <1>4, <2>1, <2>2
<1>. QED BY <1>3, <1>4

\* The rest of the commits, once the first is made.
LEMMA RestShape ==
    ASSUME NEW s \in Seq(Writes), s # <<>>, Shape(s)
    PROVE  LET w == s[1]
               r == Tail(s)
           IN /\ Shape(r) /\ Putting(r) = {} /\ Leaving(r) = {}
              /\ Head(s) = w
              /\ Crossing(r) \subseteq Crossing(s)
              /\ w.do = "cross" => w.mems \subseteq Crossing(s)
              /\ Uncrossing(s) \subseteq Uncrossing(r) \cup (IF w.do = "uncross" THEN w.mems ELSE {})
              /\ w.do = "remove" => Crossing(r) = {}
              /\ w.do \in {"put", "remove"} =>
                    /\ Len(s) # 1 /\ r # <<>> /\ r[1].mems = w.mems
                    /\ r[1].do = IF w.do = "put" THEN "list" ELSE "unlist"
              /\ w.do \notin {"put", "remove"} => r = <<>> \/ r[1].do \notin {"list", "unlist"}
<1> DEFINE w == s[1]
           r == Tail(s)
<1>1. /\ Head(s) = w /\ Len(r) = Len(s) - 1 /\ Len(s) \in Nat \ {0} /\ r \in Seq(Writes)
      /\ \A i \in 1..Len(r) : i + 1 \in 1..Len(s) /\ r[i] = s[i + 1] /\ i + 1 # 1
      /\ \A i \in 1..Len(s) : i = 1 \/ (i - 1 \in 1..Len(r) /\ s[i] = r[i - 1])
  OBVIOUS
<1>2. r # <<>> => Len(r) > 0 /\ 1 \in 1..Len(r) /\ r[1] = s[2] /\ 2 \in 1..Len(s)
  BY <1>1
<1>3. Shape(r)
  BY <1>1 DEF Shape
<1>4. \A i \in 1..Len(r) : r[i].do \notin {"put", "remove"}
  BY <1>1 DEF Shape
<1>5. Putting(r) = {} /\ Leaving(r) = {}
  BY <1>2, <1>4 DEF Putting, Leaving
<1>6. Crossing(r) \subseteq Crossing(s) /\ (w.do = "cross" => w.mems \subseteq Crossing(s))
  BY <1>1 DEF Crossing
<1>7. Uncrossing(s) \subseteq Uncrossing(r) \cup (IF w.do = "uncross" THEN w.mems ELSE {})
  <2>1. ASSUME NEW i \in 1..Len(s), s[i].do = "uncross", NEW x \in s[i].mems, i # 1
        PROVE  x \in Uncrossing(r)
    <3>1. i - 1 \in 1..Len(r) /\ r[i - 1].do = "uncross" /\ x \in r[i - 1].mems
      BY <1>1, <2>1
    <3>. QED BY <3>1 DEF Uncrossing
  <2>. QED BY <2>1 DEF Uncrossing
<1>8. w.do = "remove" => Crossing(r) = {}
  BY <1>1 DEF Shape, Crossing
<1>9. w.do \in {"put", "remove"} =>
         /\ Len(s) # 1 /\ r # <<>> /\ r[1].mems = w.mems
         /\ r[1].do = IF w.do = "put" THEN "list" ELSE "unlist"
  <2>1. 1 \in 1..Len(s)
    BY <1>1
  <2>2. w.do \in {"put", "remove"} =>
           Len(s) >= 2 /\ s[2].mems = w.mems /\ s[2].do = IF w.do = "put" THEN "list" ELSE "unlist"
    BY <2>1 DEF Shape
  <2>3. Len(s) >= 2 => Len(s) # 1 /\ r # <<>> /\ 1 \in 1..Len(r)
    <3>1. Len(r) = Len(s) - 1 /\ Len(s) \in Nat
      BY <1>1
    <3> HIDE DEF r
    <3>2. Len(<<>>) = 0
      OBVIOUS
    <3>3. r = <<>> => Len(r) = 0
      BY <3>2
    <3>. QED BY <3>1, <3>3
  <2>4. Len(s) >= 2 => r[1] = s[2]
    BY <1>2, <2>3
  <2>. QED BY <2>2, <2>3, <2>4
<1>10. w.do \notin {"put", "remove"} => r = <<>> \/ r[1].do \notin {"list", "unlist"}
  BY <1>1, <1>2 DEF Shape
<1>. QED BY <1>1, <1>3, <1>5, <1>6, <1>7, <1>8, <1>9, <1>10

-----------------------------------------------------------------------------
(* The steps of a pass, by what they do to its job.                         *)

Advance ==
    /\ job.phase \in {"expire", "rebuild"} /\ job.round \in 1..3
    /\ job.phase = "expire" => Expired(job.scope) = {} /\ Stale = {}
    /\ job'.round = job.round + 1
    /\ job'.phase = <<"expire", "distil", "summarize">>[job.round]
    /\ job'.groups = IF job.round = 3 THEN Groups(job.batch) ELSE {}
    /\ job'.todo = <<>> /\ job'.batch = job.batch /\ job'.unsound = job.unsound

RemoveStep(from, to, M) ==
    /\ job.phase = from /\ job'.phase = to /\ job'.todo = RemoveWrites(M)
    /\ job'.unsound = Remember(M) /\ job.round \in 1..3
    /\ job'.round = job.round /\ job'.batch = job.batch

FoldStep(g, a) ==
    /\ job.phase \in {"rebuild", "summarize"} /\ g \in job.groups /\ Group(g)
    /\ job'.groups = job.groups \ {g} /\ job'.todo = FoldWrites(g, a)
    /\ a \in Memory /\ a.id = next /\ a.kind = "archive" /\ a.tier = "archival" /\ a.sources = Ids(g)
    /\ job'.phase = job.phase /\ job'.round = job.round /\ job'.batch = job.batch
    /\ job'.unsound = job.unsound

BatchStep ==
    /\ job.phase \in {"distil"} \cup Making /\ job'.phase \in Making
    /\ job.groups = {} /\ job'.groups = {} /\ job'.todo = <<>> /\ job'.round = job.round
    /\ job'.unsound = job.unsound

SelectStep ==
    /\ job.phase = "mint" /\ job'.phase = "expire" /\ job'.batch = Aged(job.scope)
    /\ job.groups = {} /\ job'.groups = {} /\ job'.todo = <<>>
    /\ job.round = 3 /\ job'.round = 3 /\ job'.unsound = job.unsound

MintStep(m) ==
    /\ job.phase \in Making /\ job'.phase = job.phase
    /\ job.groups = {} /\ job'.groups = {} /\ job'.round = job.round /\ job'.unsound = job.unsound
    /\ m \in Memory /\ m.id = next /\ m.sources = {} /\ m.kind # "archive" /\ ~IsScratch(m)
    /\ \E P \in SUBSET {m} : Shaped(job'.todo, P, {}, {}, {}) /\ InWrites(job'.todo) = P
    /\ job'.todo = <<>> \/ job'.todo[1].do \in {"put", "link"}

EndStep ==
    /\ job.phase = "summarize" /\ job'.phase = "end"
    /\ job.groups = {} /\ job'.groups = {} /\ job'.todo = <<Write("uncross", job.unsound)>>
    /\ job'.round = job.round /\ job'.batch = job.batch /\ job'.unsound = job.unsound

LEMMA PassSteps ==
    ASSUME TiersInv, Pass
    PROVE  /\ UNCHANGED <<store, ext, cross, now, taken, faults>>
           /\ job.todo = <<>> /\ job.op = "reflect" /\ job'.op = "reflect" /\ job'.scope = job.scope
           /\ \/ Advance
              \/ RemoveStep("expire", "repair", Expired(job.scope)) /\ job'.groups = job.groups
              \/ /\ RemoveStep("repair", "rebuild", Stale)
                 /\ job'.groups = Groups(UNION {Durable(a) : a \in Stale})
              \/ \E g, a : FoldStep(g, a)
              \/ BatchStep \/ SelectStep \/ (\E m : MintStep(m)) \/ EndStep
<1>1. UNCHANGED <<store, ext, cross, now, taken, faults>> /\ job.todo = <<>> /\ job.phase # "end"
  BY DEF Pass, DropExpired, RepairSummaries, Rebuild, Distil, WriteOne, Promote, Select, Summarize,
         Fold, At, files, past, bounds
<1>2. /\ job.op = "reflect"
      /\ job.phase \in Drop => job.round \in 1..3
      /\ job.phase \in {"distil"} \cup Making => job.round = 3 /\ job.groups = {}
  BY <1>1 DEF TiersInv, GoodJob
<1>3. ASSUME job.phase \in {"expire", "rebuild"}, job' = Dropped,
             job.phase = "expire" => Expired(job.scope) = {} /\ Stale = {}
      PROVE  Advance /\ job'.op = job.op /\ job'.scope = job.scope
  <2> DEFINE G == IF job.round = 3 THEN Groups(job.batch) ELSE {}
             ph == <<"expire", "distil", "summarize">>[job.round]
  <2>1. job' = [job EXCEPT !.round = @ + 1, !.phase = ph, !.groups = G]
    BY <1>3 DEF Dropped
  <2> HIDE DEF G, ph
  <2>2. /\ job'.round = job.round + 1 /\ job'.phase = ph /\ job'.groups = G /\ job'.todo = job.todo
        /\ job'.batch = job.batch /\ job'.unsound = job.unsound /\ job'.op = job.op
        /\ job'.scope = job.scope
    BY <2>1, JobFacts DEF JobRecord
  <2>3. job.round \in 1..3
    BY <1>2, <1>3 DEF Drop
  <2>. QED BY <1>1, <1>3, <2>2, <2>3 DEF Advance, ph, G
<1>4. ASSUME job.groups # {}, job.phase \in {"rebuild", "summarize"}, Fold(NextGroup)
      PROVE  (\E g, a : FoldStep(g, a)) /\ job'.op = job.op /\ job'.scope = job.scope
  <2> DEFINE g == NextGroup
             place == (CHOOSE m \in g : TRUE).place
             a == New("archive", "archival", place, "summary", Ids(g))
  <2>1. g \in job.groups /\ Group(g)
    BY <1>4, NextGroupIsOne
  <2>2. job' = [job EXCEPT !.groups = @ \ {g}, !.todo = FoldWrites(g, a)]
    BY <1>4 DEF Fold
  <2> HIDE DEF g
  <2>3. place \in Places /\ Ids(g) \in SUBSET Id
    <3>1. (CHOOSE m \in g : TRUE) \in g /\ \A m \in g : m \in Memory
      BY <2>1 DEF Group
    <3>. QED BY <3>1 DEF Ids, Memory
  <2> HIDE DEF place
  <2>4. a \in Memory /\ a.id = next /\ a.kind = "archive" /\ a.tier = "archival" /\ a.sources = Ids(g)
    <3>1. "archive" \in Kinds /\ "archival" \in Tiers /\ "summary" \in Texts
      BY TextsAreTexts DEF Kinds, Tiers
    <3>. QED BY <2>3, <3>1, NewIsTyped
  <2> HIDE DEF a
  <2>5. /\ job'.groups = job.groups \ {g} /\ job'.todo = FoldWrites(g, a) /\ job'.phase = job.phase
        /\ job'.round = job.round /\ job'.batch = job.batch /\ job'.unsound = job.unsound
        /\ job'.op = job.op /\ job'.scope = job.scope
    BY <2>2, JobFacts DEF JobRecord
  <2>6. FoldStep(g, a)
    BY <1>4, <2>1, <2>4, <2>5 DEF FoldStep
  <2>. QED BY <2>5, <2>6
<1>5. CASE DropExpired
  <2>1. job.phase = "expire"
    BY <1>5 DEF DropExpired, At
  <2>2. CASE job' = Dropped /\ Expired(job.scope) = {} /\ Stale = {}
    BY <1>1, <1>2, <1>3, <2>1, <2>2
  <2>3. CASE job' = [job EXCEPT !.phase = "repair", !.todo = RemoveWrites(Expired(job.scope)),
                                !.unsound = Remember(Expired(job.scope))]
    <3>1. /\ job'.phase = "repair" /\ job'.todo = RemoveWrites(Expired(job.scope))
          /\ job'.unsound = Remember(Expired(job.scope)) /\ job'.round = job.round
          /\ job'.batch = job.batch /\ job'.groups = job.groups /\ job'.op = job.op
          /\ job'.scope = job.scope
      BY <2>3, JobFacts DEF JobRecord
    <3>. QED BY <1>1, <1>2, <2>1, <3>1 DEF RemoveStep, Drop
  <2>. QED BY <1>5, <2>2, <2>3 DEF DropExpired
<1>6. CASE RepairSummaries
  <2>1. /\ job.phase = "repair"
        /\ job' = [job EXCEPT !.phase = "rebuild", !.todo = RemoveWrites(Stale),
                              !.unsound = Remember(Stale),
                              !.groups = Groups(UNION {Durable(a) : a \in Stale})]
    BY <1>6 DEF RepairSummaries, At
  <2>2. /\ job'.phase = "rebuild" /\ job'.todo = RemoveWrites(Stale)
        /\ job'.unsound = Remember(Stale) /\ job'.round = job.round
        /\ job'.batch = job.batch /\ job'.groups = Groups(UNION {Durable(a) : a \in Stale})
        /\ job'.op = job.op /\ job'.scope = job.scope
    BY <2>1, JobFacts DEF JobRecord
  <2>. QED BY <1>1, <1>2, <2>1, <2>2 DEF RemoveStep, Drop
<1>7. CASE Rebuild
  <2>1. job.phase = "rebuild"
    BY <1>7 DEF Rebuild, At
  <2>. QED BY <1>1, <1>2, <1>3, <1>4, <1>7, <2>1 DEF Rebuild
<1>8. ASSUME NEW ph \in Making, NEW B, job.phase \in {"distil"} \cup Making,
             job' = [job EXCEPT !.phase = ph, !.batch = B]
      PROVE  BatchStep /\ job'.op = job.op /\ job'.scope = job.scope
  <2>1. /\ job'.phase = ph /\ job'.todo = job.todo /\ job'.groups = job.groups
        /\ job'.round = job.round /\ job'.unsound = job.unsound /\ job'.op = job.op
        /\ job'.scope = job.scope
    BY <1>8, JobFacts DEF JobRecord
  <2>. QED BY <1>1, <1>2, <1>8, <2>1 DEF BatchStep
<1>9. CASE Distil \/ Promote
  BY <1>1, <1>2, <1>8, <1>9 DEF Distil, Promote, At, Making
<1>10. CASE Select
  <2>1. job.phase = "mint" /\ job' = [job EXCEPT !.phase = "expire", !.batch = Aged(job.scope)]
    BY <1>10 DEF Select, At
  <2>2. /\ job'.phase = "expire" /\ job'.todo = job.todo /\ job'.groups = job.groups
        /\ job'.round = job.round /\ job'.unsound = job.unsound /\ job'.op = job.op
        /\ job'.scope = job.scope /\ job'.batch = Aged(job.scope)
    BY <2>1, JobFacts DEF JobRecord
  <2>. QED BY <1>1, <1>2, <2>1, <2>2 DEF SelectStep, Making
<1>11. CASE WriteOne
  <2> DEFINE b     == NextEntry
             twins == Twins(b.kind, b.from, b.text)
             m     == New(b.kind, Tier[b.kind], b.from.place, b.text, {})
             e     == IF twins = {} THEN m ELSE CHOOSE t \in twins : TRUE
             s     == WritesOf(b, m, e)
  <2>1. /\ job.phase \in Making /\ job.batch # {}
        /\ job' = [job EXCEPT !.batch = @ \ {b}, !.todo = s]
    BY <1>11 DEF WriteOne, At, Making
  <2>2. b \in Entry
    BY <2>1, NextEntryIsOne DEF TiersInv, GoodJob
  <2>3. twins \subseteq store
    BY DEF Twins
  <2> HIDE DEF b, twins
  <2>4. /\ m \in Memory /\ m.id = next /\ m.kind = b.kind /\ m.sources = {} /\ m.tier = Tier[b.kind]
    <3>1. /\ b.kind \in {"fact", "entity", "skill"} /\ b.text \in Texts /\ b.from.place \in Places
      BY <2>2 DEF Entry, Memory
    <3>2. b.kind \in Kinds /\ Tier[b.kind] \in Tiers /\ {} \in SUBSET Id
      BY <3>1 DEF Tier, Kinds, Tiers
    <3>. QED BY <3>1, <3>2, NewIsTyped
  <2>5. ~IsScratch(m) /\ m.kind # "archive"
    BY <2>2, <2>4 DEF Entry, Tier, IsScratch
  <2> HIDE DEF m
  <2>6. e \in Memory
    BY <2>3, <2>4, JobFacts
  <2> HIDE DEF e
  <2>7. /\ InWrites(s) = (IF e = m THEN {m} ELSE {})
        /\ Shaped(s, IF e = m THEN {m} ELSE {}, {}, {}, {})
        /\ s = <<>> \/ s[1].do \in {"put", "link"}
    BY <2>2, <2>4, <2>6, WritesOfTyped, WritesOfShape
  <2> HIDE DEF s
  <2>8. /\ job'.todo = s /\ job'.groups = job.groups /\ job'.phase = job.phase
        /\ job'.round = job.round /\ job'.unsound = job.unsound /\ job'.op = job.op
        /\ job'.scope = job.scope
    BY <2>1, JobFacts DEF JobRecord
  <2>9. (IF e = m THEN {m} ELSE {}) \in SUBSET {m}
    OBVIOUS
  <2>10. MintStep(m)
    BY <1>2, <2>1, <2>4, <2>5, <2>7, <2>8, <2>9 DEF MintStep
  <2>. QED BY <1>1, <1>2, <2>8, <2>10
<1>12. CASE Summarize
  <2>1. job.phase = "summarize"
    BY <1>12 DEF Summarize, At
  <2>2. CASE job.groups = {} /\ Goto("end", <<Write("uncross", job.unsound)>>)
    <3> DEFINE s == <<Write("uncross", job.unsound)>>
    <3> HIDE DEF s
    <3>1. job' = [job EXCEPT !.phase = "end", !.todo = s]
      BY <2>2 DEF Goto, s
    <3>2. /\ job'.phase = "end" /\ job'.todo = s /\ job'.groups = job.groups
          /\ job'.round = job.round /\ job'.unsound = job.unsound /\ job'.op = job.op
          /\ job'.scope = job.scope /\ job'.batch = job.batch
      BY <3>1, JobFacts DEF JobRecord
    <3>. QED BY <1>1, <1>2, <2>1, <2>2, <3>2 DEF EndStep, s
  <2>. QED BY <1>1, <1>2, <1>4, <1>12, <2>1, <2>2 DEF Summarize
<1>. QED BY <1>5, <1>6, <1>7, <1>9, <1>10, <1>11, <1>12 DEF Pass

JobKeeps == /\ job'.op = job.op /\ job'.scope = job.scope /\ job'.phase = job.phase
            /\ job'.round = job.round /\ job'.batch = job.batch /\ job'.groups = job.groups
            /\ job'.unsound = job.unsound

\* What one commit does to the files and to the job.
Commits(w) ==
    /\ job.todo # <<>> /\ w = job.todo[1] /\ w \in Writes /\ job'.todo = Tail(job.todo)
    /\ IF Len(job.todo) = 1 /\ job.phase = "end" THEN job' = NoJob ELSE JobKeeps
    /\ store' = IF w.do = "put" THEN Put(w.mems)
                ELSE IF w.do = "remove" THEN Without(w.mems) ELSE store
    /\ ext' = IF w.do = "list" THEN {r \in ext : r.id \notin Ids(w.mems)} \cup Rows(w.mems)
              ELSE IF w.do = "unlist" THEN {r \in ext : r.id \notin Ids(w.mems)} ELSE ext
    /\ cross' = IF w.do = "cross" THEN cross \cup Ids(w.mems)
                ELSE IF w.do = "uncross" THEN cross \ Ids(w.mems) ELSE cross
    /\ UNCHANGED <<now, next, taken, faults>>

LEMMA CommitStep ==
    ASSUME TiersInv, Commit
    PROVE  Commits(Head(job.todo))
<1> DEFINE w == Head(job.todo)
<1>1. job.todo # <<>> /\ job.todo \in Seq(Writes)
  BY JobFacts DEF Commit
<1>2. w \in Writes /\ w = job.todo[1]
  BY <1>1
<1>3. CASE Len(job.todo) = 1 /\ job.phase = "end"
  <2>1. job' = NoJob /\ job'.todo = <<>>
    BY <1>3 DEF Commit, NoJob
  <2>2. Tail(job.todo) = <<>>
    <3> DEFINE s == job.todo
    <3>1. s \in Seq(Writes) /\ s # <<>> /\ Len(s) = 1
      BY <1>1, <1>3
    <3> HIDE DEF s
    <3>2. Tail(s) \in Seq(Writes) /\ Len(Tail(s)) = Len(s) - 1
      BY <3>1, HeadTailProperties
    <3>3. Len(Tail(s)) = 0
      BY <3>1, <3>2
    <3>4. \A q \in Seq(Writes) : q # <<>> => Len(q) # 0
      BY EmptySeq
    <3>5. Tail(s) = <<>>
      BY <3>2, <3>3, <3>4, Zenon
    <3>. QED BY <3>5 DEF s
  <2> HIDE DEF w
  <2>. QED BY <1>1, <1>2, <1>3, <2>1, <2>2 DEF Commit, Commits, bounds, w
<1>4. CASE ~(Len(job.todo) = 1 /\ job.phase = "end")
  <2>1. job' = [job EXCEPT !.todo = Tail(@)]
    BY <1>4 DEF Commit
  <2>2. job'.todo = Tail(job.todo) /\ JobKeeps
    BY <2>1, JobFacts DEF JobRecord, JobKeeps
  <2> HIDE DEF w
  <2>. QED BY <1>1, <1>2, <2>2 DEF Commit, Commits, bounds, w
<1>. QED BY <1>3, <1>4

\* Where a job is in its commits.
PairInv ==
    /\ Shape(job.todo)
    /\ job.op # "reflect" => job.unsound = {}
    /\ job.op = "reflect" =>
          /\ \A x \in InWrites(job.todo) : ~IsScratch(x)
          /\ job.phase = "end" => job.round = 4 /\ job.todo = <<Write("uncross", job.unsound)>>
          /\ job.phase = "summarize" => job.round = 4

\* A call starts, ends with its last commit, or dies.
LEMMA CallSteps ==
    ASSUME TiersInv, NEW op, NEW s, job' = [NoJob EXCEPT !.op = op, !.todo = s]
    PROVE  /\ job'.op = op /\ job'.todo = s /\ job'.unsound = {} /\ job'.batch = {} /\ job'.groups = {}
           /\ job'.phase = "end"
  BY DEF NoJob

LEMMA NoJobIs ==
    /\ NoJob.op = "none" /\ NoJob.todo = <<>> /\ NoJob.unsound = {} /\ NoJob.batch = {}
    /\ NoJob.groups = {} /\ NoJob.phase = "end"
  BY DEF NoJob

\* The other steps, by what they do to the files and to the job.
Started(op, s) ==
    /\ job = NoJob /\ job'.op = op /\ job'.todo = s /\ job'.unsound = {} /\ job'.batch = {}
    /\ job'.groups = {} /\ job'.phase = "end"
    /\ UNCHANGED <<store, ext, cross, now, taken, faults>>

CallStep ==
    \/ \E m \in Memory :
          /\ m.id = next /\ m.sources = {}
          /\ Started("capture", CaptureWrites(m) \o <<Write("cross", {m})>>)
    \/ \E m \in store, c \in Memory :
          /\ SameMemory(c, m) /\ c.sources = {} /\ c.tier = m.tier /\ c.kind = "fact"
          /\ Started("reinforce", CaptureWrites(c))
    \/ \E M \in SUBSET store : Started("erase", EraseWrites(M))

ElseStep == \E m \in store :
    /\ job # NoJob /\ store' = Without({m}) /\ ext' = {r \in ext : r.id # m.id}
    /\ cross' = cross \ {m.id} /\ taken' = taken \cup {m.id} /\ faults' = faults + 1
    /\ UNCHANGED <<job, now, next>>

ReflectStep == \E s \in Scopes :
    /\ job = NoJob /\ job'.op = "reflect" /\ job'.scope = s /\ job'.phase = "expire" /\ job'.round = 1
    /\ job'.todo = <<>> /\ job'.unsound = {} /\ job'.batch = {} /\ job'.groups = {}
    /\ UNCHANGED <<store, ext, cross, now, taken, faults>>

DeathStep ==
    /\ job' = NoJob /\ ext' \in {ext, Rows(store)} /\ UNCHANGED <<store, cross, now, next, taken>>
    /\ faults' = faults + 1 \/ (job = NoJob /\ faults' = faults)
    /\ faults' = faults => ext' = Reconciled

TickStep == job = NoJob /\ UNCHANGED <<store, ext, cross, job, next, taken, faults>> /\ now' = now + 1

LEMMA OtherSteps ==
    ASSUME TiersInv, [Next]_vars, ~Commit, ~Pass
    PROVE  CallStep \/ ElseStep \/ ReflectStep \/ DeathStep \/ TickStep \/ UNCHANGED vars
<1>1. ASSUME NEW c \in Capturable, Capture(c) PROVE CallStep
  <2> DEFINE m == New(c.kind, c.tier, c.place, c.text, {})
  <2>1. {} \in SUBSET Id
    OBVIOUS
  <2>2. m \in Memory /\ m.id = next /\ m.sources = {}
    BY <2>1, CapturableAreTyped, NewIsTyped
  <2> HIDE DEF m
  <2>3. Started("capture", CaptureWrites(m) \o <<Write("cross", {m})>>)
    BY <1>1, CallSteps DEF Capture, Started, Idle, files, past, bounds, m
  <2>. QED BY <2>2, <2>3 DEF CallStep
<1>2. ASSUME NEW m \in store, Reinforce(m) PROVE CallStep
  <2> DEFINE c == [m EXCEPT !.used = TRUE, !.sources = {}]
  <2>1. m \in Memory
    BY JobFacts
  <2>2. c \in Memory /\ SameMemory(c, m) /\ c.sources = {} /\ c.tier = m.tier /\ c.kind = "fact"
    BY <1>2, <2>1 DEF Memory, Id, SameMemory, IsScratch, Reinforce
  <2> HIDE DEF c
  <2>3. Started("reinforce", CaptureWrites(c))
    BY <1>2, CallSteps DEF Reinforce, Started, Idle, files, past, c
  <2>. QED BY <2>2, <2>3 DEF CallStep
<1>3. ASSUME NEW M \in SUBSET store, Erase(M) PROVE CallStep
  <2>1. Started("erase", EraseWrites(M))
    BY <1>3, CallSteps DEF Erase, Started, Idle, files, past
  <2>. QED BY <2>1 DEF CallStep
<1>4. ASSUME NEW m \in store, ErasedElsewhere(m) PROVE ElseStep
  BY <1>4 DEF ErasedElsewhere, ElseStep
<1>5. ASSUME NEW s \in Scopes, Reflect(s) PROVE ReflectStep
  <2>1. job' = [NoJob EXCEPT !.op = "reflect", !.scope = s, !.phase = "expire", !.round = 1]
    BY <1>5 DEF Reflect
  <2>2. /\ job'.op = "reflect" /\ job'.scope = s /\ job'.phase = "expire" /\ job'.round = 1
        /\ job'.todo = <<>> /\ job'.unsound = {} /\ job'.batch = {} /\ job'.groups = {}
    BY <2>1 DEF NoJob
  <2>. QED BY <1>5, <2>2 DEF Reflect, ReflectStep, Idle, files, past, bounds
<1>6. ASSUME Fail \/ Restart PROVE DeathStep
  <2>1. faults \in Nat
    BY BoundsAreNat DEF TiersInv, StoreTyped
  <2>. QED BY <1>6, <2>1 DEF Fail, Restart, DeathStep, Reconciled, files, past
<1>7. ASSUME Tick PROVE TickStep
  BY <1>7 DEF Tick, TickStep, files, past, bounds
<1>. QED BY <1>1, <1>2, <1>3, <1>4, <1>5, <1>6, <1>7 DEF Next, EraseId, EraseScope

LEMMA PairKeeps ==
    ASSUME TiersInv, PairInv, [Next]_vars
    PROVE  PairInv'
<1>1. CASE Commit
  <2> DEFINE w == Head(job.todo)
             r == Tail(job.todo)
  <2>1. Commits(w) /\ job.todo \in Seq(Writes) /\ job.todo # <<>>
    BY <1>1, CommitStep, JobFacts DEF Commits
  <2>2. Shape(r) /\ InWrites(r) \subseteq InWrites(job.todo)
    BY <2>1, RestShape, FirstWrite DEF PairInv
  <2>3. job.op = "reflect" /\ job.phase = "end" => Len(job.todo) = 1
    <3>1. Len(<<Write("uncross", job.unsound)>>) = 1
      OBVIOUS
    <3>. QED BY <3>1 DEF PairInv
  <2> HIDE DEF w, r
  <2>4. job'.todo = r
    BY <2>1 DEF Commits, r
  <2>5. CASE Len(job.todo) = 1 /\ job.phase = "end"
    BY <2>1, <2>2, <2>4, <2>5, NoJobIs DEF Commits, PairInv
  <2>6. CASE ~(Len(job.todo) = 1 /\ job.phase = "end")
    <3>1. JobKeeps
      BY <2>1, <2>6 DEF Commits
    <3>. QED BY <2>2, <2>3, <2>4, <2>6, <3>1 DEF JobKeeps, PairInv
  <2>. QED BY <2>5, <2>6
<1>2. CASE Pass
  <2>1. job.todo = <<>> /\ job.op = "reflect" /\ job'.op = "reflect"
    BY <1>2, PassSteps
  <2>2. Shape(<<>>) /\ InWrites(<<>>) = {}
    BY NoShape, NoWrites DEF Shaped
  <2>3. CASE Advance
    BY <2>1, <2>2, <2>3 DEF Advance, PairInv
  <2>4. ASSUME NEW M \in SUBSET Memory, NEW from, NEW to \in {"repair", "rebuild"},
               RemoveStep(from, to, M)
        PROVE  PairInv'
    <3>1. Shape(RemoveWrites(M)) /\ InWrites(RemoveWrites(M)) = {}
      BY RemoveShape, RemoveWritesTyped DEF Shaped
    <3>. QED BY <2>1, <2>4, <3>1 DEF RemoveStep, PairInv
  <2>5. Expired(job.scope) \in SUBSET Memory /\ Stale \in SUBSET Memory
    BY JobFacts DEF Expired, Hydrate, Stale
  <2>6. ASSUME NEW g, NEW a, FoldStep(g, a) PROVE PairInv'
    <3>1. \A m \in g : m.id # a.id
      <4>1. g \subseteq Known
        BY <2>6, HeldParts DEF FoldStep, Known
      <4>. QED BY <2>6, <4>1 DEF FoldStep, TiersInv, KnownSound, Sound, OldEnough, StoreTyped
    <3>2. Shape(FoldWrites(g, a)) /\ InWrites(FoldWrites(g, a)) = Moved(g) \cup {a}
      BY <2>6, <3>1, FoldShape, FoldWritesTyped DEF FoldStep, Shaped
    <3>3. \A x \in Moved(g) \cup {a} : ~IsScratch(x)
      BY <2>6 DEF FoldStep, Moved, Group, IsScratch, Memory
    <3>. QED BY <2>1, <2>6, <3>2, <3>3 DEF FoldStep, PairInv
  <2>7. CASE BatchStep \/ SelectStep
    BY <2>1, <2>2, <2>7 DEF BatchStep, SelectStep, PairInv, Making
  <2>8. ASSUME NEW m, MintStep(m) PROVE PairInv'
    <3>1. Shape(job'.todo) /\ \A x \in InWrites(job'.todo) : ~IsScratch(x)
      BY <2>8 DEF MintStep, Shaped
    <3>. QED BY <2>1, <2>8, <3>1 DEF MintStep, PairInv, Making
  <2>9. CASE EndStep
    <3>1. Shape(<<Write("uncross", job.unsound)>>) /\ InWrites(<<Write("uncross", job.unsound)>>) = {}
      BY UncrossShape, RemovalIsTyped, JobFacts DEF Shaped
    <3>. QED BY <2>1, <2>9, <3>1 DEF EndStep, PairInv
  <2>. QED BY <1>2, <2>3, <2>4, <2>5, <2>6, <2>7, <2>8, <2>9, PassSteps
<1>3. CASE CallStep
  <2>1. ASSUME NEW op \in {"capture", "reinforce", "erase"}, NEW s, Started(op, s), Shape(s)
        PROVE  PairInv'
    BY <2>1 DEF Started, PairInv
  <2>2. \A M \in SUBSET store : M \in SUBSET Memory
    BY JobFacts
  <2>. QED BY <1>3, <2>1, <2>2, CaptureShape, EraseShape DEF CallStep, Shaped
<1>4. CASE ReflectStep
  BY <1>4, NoShape, NoWrites DEF ReflectStep, PairInv, Shaped
<1>5. CASE DeathStep
  BY <1>5, NoJobIs, NoShape DEF DeathStep, PairInv, Shaped
<1>6. CASE job' = job
  BY <1>6 DEF PairInv
<1>. QED BY <1>1, <1>2, <1>3, <1>4, <1>5, <1>6, OtherSteps DEF ElseStep, TickStep, vars

LEMMA PairHolds == Spec => [](TiersInv /\ PairInv)
<1>1. Init => PairInv
  BY NoJobIs, NoShape DEF Init, PairInv, Shaped
<1>. QED BY <1>1, PairKeeps, AlwaysTiersInv, PTL DEF Spec

-----------------------------------------------------------------------------
(* What our summaries cover is archival.                                    *)

Covers(M) == \A a, m \in M : Ours(a) /\ m.id \in a.sources => m.tier = "archival"

FoldInv ==
    /\ Covers(store) /\ Covers(Put(Putting(job.todo)))
    /\ \A x \in Remains : Ours(x) /\ x.sources # {} => x.tier = "archival"
    /\ \A x \in ToMove(job), m \in store \cup Putting(job.todo) :
          x.id = m.id /\ x.tier = "archival" => m.tier = "archival"

LEMMA MoveParts ==
    /\ ToMove(NoJob) = {}
    /\ \A j : j.groups = {} /\ (j.phase \in Making \/ j.batch = {}) => ToMove(j) = {}
    /\ \A j, k : /\ \A g \in k.groups : g \in j.groups
                 /\ k.phase \in Making \/ (j.phase \notin Making /\ k.batch = j.batch)
                 => ToMove(k) \subseteq ToMove(j)
    /\ \A j : ToMove(j) \subseteq Lasting(j)
    /\ \A j : \A g \in j.groups : g \subseteq ToMove(j)
<1>1. ASSUME NEW j, NEW k, \A g \in k.groups : g \in j.groups
      PROVE  (UNION k.groups) \subseteq (UNION j.groups)
  BY <1>1
<1>2. ASSUME NEW j, j.groups = {} PROVE (UNION j.groups) = {}
  BY <1>2
<1>3. ASSUME NEW j, NEW g \in j.groups PROVE g \subseteq (UNION j.groups)
  OBVIOUS
<1>4. NoJob.groups = {} /\ NoJob.batch = {}
  BY NoJobIs
<1>. QED BY <1>1, <1>2, <1>3, <1>4 DEF ToMove, Lasting

LEMMA PutNone ==
    /\ Put({}) = store /\ Putting(<<>>) = {}
    /\ \A M, m : m \in Put(M) <=> m \in M \/ (m \in store /\ m.id \notin Ids(M))
  BY DEF Put, Putting, Ids

LEMMA OursStayArchival ==
    ASSUME TiersInv, [Next]_vars,
           \A x \in Remains : Ours(x) /\ x.sources # {} => x.tier = "archival"
    PROVE  \A x \in Remains' : Ours(x) /\ x.sources # {} => x.tier = "archival"
<1>1. \A x \in Remains' : Carried(x) \/ Fresh(x)
  BY EveryStepGrows DEF Grows, Remains
<1>. QED BY <1>1 DEF Carried, Fresh, SameMemory, Ours

\* Steps that put nothing.
LEMMA NothingPut ==
    ASSUME FoldInv, store' \subseteq store, Putting(job'.todo) = {},
           \A x \in ToMove(job'), m \in store : x.id = m.id /\ x.tier = "archival" => m.tier = "archival",
           \A x \in Remains' : Ours(x) /\ x.sources # {} => x.tier = "archival"
    PROVE  FoldInv'
<1>1. Put(Putting(job.todo))' = store'
  BY DEF Put, Ids
<1>2. Covers(store')
  BY DEF FoldInv, Covers
<1>. QED BY <1>1, <1>2 DEF FoldInv, Covers, Ours, ToMove, Making

\* A memory put by a call or minted by a pass: no summary of ours names it, or it
\* keeps its tier.
LEMMA OnePut ==
    ASSUME FoldInv, NEW c, c.sources = {}, NEW P \in SUBSET {c}, Putting(job'.todo) = P,
           ToMove(job') = {}, store' = store,
           \A a \in store : Ours(a) /\ c.id \in a.sources => c.tier = "archival",
           \A x \in Remains' : Ours(x) /\ x.sources # {} => x.tier = "archival"
    PROVE  FoldInv'
<1>1. Put(Putting(job.todo))' \subseteq store \cup {c}
  BY DEF Put
<1>2. Covers(store \cup {c})
  BY DEF FoldInv, Covers
<1>. QED BY <1>1, <1>2 DEF FoldInv, Covers, Ours, ToMove, Making

LEMMA FoldCovers ==
    ASSUME TiersInv, FoldInv, NEW g, NEW a, FoldStep(g, a), job.todo = <<>>, store' = store,
           \A x \in Remains' : Ours(x) /\ x.sources # {} => x.tier = "archival"
    PROVE  FoldInv'
<1> DEFINE P == Moved(g) \cup {a}
<1>1. Putting(job'.todo) = P
  BY FoldShape DEF FoldStep, Shaped
<1>2. g \subseteq ToMove(job) /\ g \subseteq Remains /\ g \in SUBSET Memory
  BY MoveParts DEF FoldStep, Remains, Group
<1>3. \A c \in Moved(g) : /\ c.tier = "archival"
                          /\ \E x \in g : x.tier # "archival" /\ c.id = x.id /\ c.kind = x.kind
                                          /\ c.sources = x.sources
  <2>1. \A c \in Moved(g) : \E x \in g : x.tier # "archival" /\ c = [x EXCEPT !.tier = "archival"]
    BY DEF Moved
  <2>. QED BY <1>2, <2>1 DEF Memory
<1>4. \A c \in Moved(g) : Ours(c) => c.sources = {}
  BY <1>2, <1>3 DEF FoldInv, Ours
<1>5. \A x \in g : x.tier # "archival" => x.id \in Ids(Moved(g))
  <2>1. ASSUME NEW x \in g, x.tier # "archival" PROVE x.id \in Ids(Moved(g))
    <3>1. [x EXCEPT !.tier = "archival"] \in Moved(g) /\ [x EXCEPT !.tier = "archival"].id = x.id
      BY <1>2, <2>1 DEF Moved, Memory
    <3>. QED BY <3>1 DEF Ids
  <2>. QED BY <2>1
<1>6. a.tier = "archival" /\ a.sources = Ids(g)
  BY DEF FoldStep
<1>7. ASSUME NEW m \in store, m.id \in Ids(g), m.id \notin Ids(P) PROVE m.tier = "archival"
  <2>1. PICK x \in g : x.id = m.id
    BY <1>7 DEF Ids
  <2>2. x.tier = "archival"
    BY <1>5, <1>7, <2>1 DEF Ids
  <2>. QED BY <1>2, <2>1, <2>2 DEF FoldInv
<1>8. \A m \in P : m.tier = "archival"
  BY <1>3, <1>6
<1>9. Covers(Put(P))
  <2> SUFFICES ASSUME NEW b \in Put(P), NEW m \in Put(P), Ours(b), m.id \in b.sources
               PROVE  m.tier = "archival"
    BY DEF Covers
  <2> HIDE DEF P
  <2>1. CASE m \in P
    BY <1>8, <2>1
  <2>2. CASE m \notin P
    <3>1. m \in store /\ m.id \notin Ids(P)
      BY <2>2, PutNone
    <3>2. b \in store \/ b \in Moved(g) \/ b = a
      BY PutNone DEF P
    <3>. QED BY <1>4, <1>6, <1>7, <3>1, <3>2 DEF FoldInv, Covers
  <2>. QED BY <2>1, <2>2
<1>10. ToMove(job') \subseteq ToMove(job)
  BY MoveParts DEF FoldStep, Making
<1> HIDE DEF P
<1>11. Put(Putting(job.todo))' = Put(P)
  BY <1>1 DEF Put
<1>12. \A x \in ToMove(job'), m \in store \cup P : x.id = m.id /\ x.tier = "archival" => m.tier = "archival"
  BY <1>8, <1>10 DEF FoldInv
<1>. QED BY <1>1, <1>9, <1>11, <1>12 DEF FoldInv, Covers, Ours, ToMove, Making

LEMMA CoversKeeps ==
    ASSUME TiersInv, PairInv, FoldInv, [Next]_vars
    PROVE  FoldInv'
<1>0. \A x \in Remains' : Ours(x) /\ x.sources # {} => x.tier = "archival"
  BY OursStayArchival DEF FoldInv
<1>1. CASE Commit
  <2> DEFINE w == Head(job.todo)
             r == Tail(job.todo)
  <2>1. Commits(w) /\ job.todo \in Seq(Writes) /\ job.todo # <<>> /\ w = job.todo[1]
    BY <1>1, CommitStep, JobFacts DEF Commits
  <2>2. Putting(r) = {}
    BY <2>1, RestShape DEF PairInv
  <2> HIDE DEF w, r
  <2>3. job'.todo = r
    BY <2>1 DEF Commits, r
  <2>4. ToMove(job') \subseteq ToMove(job)
    BY <2>1, MoveParts DEF Commits, JobKeeps
  <2>5. CASE w.do = "put"
    <3>1. Putting(job.todo) = w.mems /\ store' = Put(w.mems)
      BY <2>1, <2>5 DEF Putting, Commits
    <3>2. Put(Putting(job.todo))' = store'
      BY <2>2, <2>3 DEF Put, Ids
    <3>3. store' \subseteq store \cup w.mems
      BY <3>1 DEF Put
    <3>4. Covers(store')
      BY <3>1 DEF FoldInv
    <3>5. \A x \in ToMove(job'), m \in store' : x.id = m.id /\ x.tier = "archival" => m.tier = "archival"
      BY <2>4, <3>1, <3>3 DEF FoldInv
    <3>. QED BY <1>0, <2>2, <2>3, <3>2, <3>4, <3>5 DEF FoldInv, Covers, Ours, ToMove, Making
  <2>6. CASE w.do # "put"
    <3>1. store' \subseteq store
      BY <2>1, <2>6 DEF Commits, Without
    <3>2. \A x \in ToMove(job'), m \in store : x.id = m.id /\ x.tier = "archival" => m.tier = "archival"
      BY <2>4 DEF FoldInv
    <3>. QED BY <1>0, <2>2, <2>3, <3>1, <3>2, NothingPut
  <2>. QED BY <2>5, <2>6
<1>2. CASE Pass
  <2>1. store' = store /\ job.todo = <<>> /\ OneEach(store) /\ store \in SUBSET Memory
    BY <1>2, PassSteps, JobFacts
  <2>2. ASSUME Putting(job'.todo) = {}, ToMove(job') \subseteq ToMove(job) \cup store
        PROVE  FoldInv'
    <3>1. \A x \in ToMove(job'), m \in store : x.id = m.id /\ x.tier = "archival" => m.tier = "archival"
      BY <2>1, <2>2 DEF FoldInv, OneEach
    <3>. QED BY <1>0, <2>1, <2>2, <3>1, NothingPut
  <2>3. CASE Advance
    <3>1. UNION job'.groups \subseteq job.batch
      <4>1. job.batch \in SUBSET Memory /\ OneEach(job.batch) /\ \A m \in job.batch : ~IsScratch(m)
        BY <2>3 DEF Advance, TiersInv, GoodJob, Making
      <4>. QED BY <2>3, <4>1, GroupsAreGroups DEF Advance
    <3>2. job.batch \subseteq ToMove(job) /\ job'.batch = job.batch
      BY <2>3 DEF Advance, ToMove, Making
    <3>3. ToMove(job') \subseteq ToMove(job)
      BY <3>1, <3>2 DEF ToMove
    <3>. QED BY <2>2, <2>3, <3>3, PutNone DEF Advance
  <2>4. ASSUME NEW M \in SUBSET Memory, NEW from \in {"expire", "repair"},
               NEW to \in {"repair", "rebuild"}, RemoveStep(from, to, M),
               (UNION job'.groups) \subseteq (UNION job.groups) \cup store
        PROVE  FoldInv'
    <3>1. Putting(job'.todo) = {}
      BY <2>4, RemoveShape DEF RemoveStep, Shaped
    <3>2. ToMove(job') \subseteq ToMove(job) \cup store
      BY <2>4 DEF RemoveStep, ToMove, Making
    <3>. QED BY <2>2, <3>1, <3>2
  <2>5. Expired(job.scope) \in SUBSET Memory /\ Stale \in SUBSET Memory
    BY JobFacts DEF Expired, Hydrate, Stale
  <2>6. CASE RemoveStep("expire", "repair", Expired(job.scope)) /\ job'.groups = job.groups
    <3>1. (UNION job'.groups) \subseteq (UNION job.groups) \cup store
      BY <2>6
    <3>. QED BY <2>4, <2>5, <2>6, <3>1
  <2>7. CASE /\ RemoveStep("repair", "rebuild", Stale)
             /\ job'.groups = Groups(UNION {Durable(a) : a \in Stale})
    <3> DEFINE M == UNION {Durable(a) : a \in Stale}
    <3>1. M \in SUBSET store /\ \A m \in M : ~IsScratch(m)
      BY DEF Durable
    <3>2. M \in SUBSET Memory /\ OneEach(M)
      BY <2>1, <3>1 DEF OneEach
    <3> HIDE DEF M
    <3>3. UNION Groups(M) \subseteq store
      BY <3>1, <3>2, GroupsAreGroups
    <3>. QED BY <2>4, <2>5, <2>7, <3>3 DEF M
  <2>8. ASSUME NEW g, NEW a, FoldStep(g, a) PROVE FoldInv'
    BY <1>0, <2>1, <2>8, FoldCovers
  <2>9. CASE BatchStep \/ SelectStep
    <3>1. Putting(job'.todo) = {}
      BY <2>9, PutNone DEF BatchStep, SelectStep
    <3>2. ToMove(job') \subseteq store
      BY <2>9 DEF BatchStep, SelectStep, ToMove, Making, Aged, Hydrate
    <3>. QED BY <2>2, <3>1, <3>2
  <2>10. ASSUME NEW m, MintStep(m) PROVE FoldInv'
    <3>1. PICK P \in SUBSET {m} : Putting(job'.todo) = P
      BY <2>10 DEF MintStep, Shaped
    <3>2. ToMove(job') = {} /\ m.sources = {} /\ m.id = next
      BY <2>10, MoveParts DEF MintStep
    <3>3. \A a \in store : m.id \notin a.sources
      BY <3>2 DEF TiersInv, KnownSound, Sound, OldEnough, Known, StoreTyped
    <3>. QED BY <1>0, <2>1, <3>1, <3>2, <3>3, OnePut
  <2>11. CASE EndStep
    <3>1. Putting(job'.todo) = {}
      BY <2>11, UncrossShape DEF EndStep, Shaped
    <3>2. ToMove(job') \subseteq ToMove(job)
      BY <2>11 DEF EndStep, ToMove, Making
    <3>. QED BY <2>2, <3>1, <3>2
  <2>. QED BY <1>2, <2>3, <2>6, <2>7, <2>8, <2>9, <2>10, <2>11, PassSteps
<1>3. CASE CallStep
  <2>1. \A op, s : Started(op, s) => store' = store /\ job'.todo = s /\ ToMove(job') = {}
    BY MoveParts DEF Started
  <2>2. ASSUME NEW m \in Memory, m.id = next, m.sources = {},
               Started("capture", CaptureWrites(m) \o <<Write("cross", {m})>>)
        PROVE  FoldInv'
    <3>1. Putting(job'.todo) = {m}
      BY <2>1, <2>2, CaptureShape DEF Shaped
    <3>2. \A a \in store : m.id \notin a.sources
      BY <2>2 DEF TiersInv, KnownSound, Sound, OldEnough, Known, StoreTyped
    <3>. QED BY <1>0, <2>1, <2>2, <3>1, <3>2, OnePut
  <2>3. ASSUME NEW m \in store, NEW c \in Memory, SameMemory(c, m), c.sources = {}, c.tier = m.tier,
               Started("reinforce", CaptureWrites(c))
        PROVE  FoldInv'
    <3>1. Putting(job'.todo) = {c}
      BY <2>1, <2>3, CaptureShape DEF Shaped
    <3>2. \A a \in store : Ours(a) /\ c.id \in a.sources => c.tier = "archival"
      BY <2>3 DEF FoldInv, Covers, SameMemory
    <3>. QED BY <1>0, <2>1, <2>3, <3>1, <3>2, OnePut
  <2>4. ASSUME NEW M \in SUBSET store, Started("erase", EraseWrites(M)) PROVE FoldInv'
    <3>1. M \in SUBSET Memory
      BY JobFacts
    <3>2. Putting(job'.todo) = {}
      BY <2>1, <2>4, <3>1, EraseShape DEF Shaped
    <3>. QED BY <1>0, <2>1, <2>4, <3>2, NothingPut
  <2>. QED BY <1>3, <2>2, <2>3, <2>4 DEF CallStep
<1>4. CASE ReflectStep \/ DeathStep
  <2>1. store' = store /\ Putting(job'.todo) = {} /\ ToMove(job') = {}
    BY <1>4, PutNone, NoJobIs, MoveParts DEF ReflectStep, DeathStep
  <2>. QED BY <1>0, <2>1, NothingPut
<1>5. CASE ElseStep
  <2>1. store' \subseteq store /\ job' = job
    BY <1>5 DEF ElseStep, Without
  <2>2. Covers(store')
    BY <2>1 DEF FoldInv, Covers
  <2>3. Put(Putting(job.todo))' \subseteq Put(Putting(job.todo))
    BY <2>1 DEF Put
  <2>. QED BY <1>0, <2>1, <2>2, <2>3 DEF FoldInv, Covers, Ours
<1>6. CASE TickStep \/ UNCHANGED vars
  <2>1. store' = store /\ job' = job
    BY <1>6 DEF TickStep, vars, files
  <2>2. Put(Putting(job.todo))' = Put(Putting(job.todo))
    BY <2>1 DEF Put
  <2>. QED BY <1>0, <2>1, <2>2 DEF FoldInv, Covers, Ours
<1>. QED BY <1>1, <1>2, <1>3, <1>4, <1>5, <1>6, OtherSteps

\* No pass takes up a memory to fold that a summary of ours covers, unless the
\* sidecar lists it as it was: a summary and the move of its sources are one
\* commit, and nothing moves them back, whatever passes die, fail or meet an
\* erasure by another server.
THEOREM FoldsOnce == Spec => FoldedOnce
<1>1. Init => FoldInv
  <2> SUFFICES ASSUME Init PROVE FoldInv
    OBVIOUS
  <2>1. ~ \E x \in store : Ours(x)
    BY LegacyIsTyped DEF Init, Ours, OldIds, FirstId
  <2>2. store = Put(Putting(job.todo)) /\ Remains = store /\ ToMove(job) = {}
    BY PutNone, NoJobIs, NoJobLasts, MoveParts DEF Init, Remains
  <2>. QED BY <2>1, <2>2 DEF FoldInv, Covers
<1>2. Spec => [](TiersInv /\ PairInv /\ FoldInv)
  BY <1>1, CoversKeeps, PairHolds, PTL DEF Spec
<1>3. ASSUME TiersInv, FoldInv, [Next]_vars, job.phase = "mint", job'.phase = "expire",
             NEW x \in job'.batch, NEW a \in store, Ours(a), x.id \in a.sources
      PROVE  Row(x) \notin ext
  <2>1. CASE SelectStep
    <3>1. x \in store /\ \E r \in ext : r.id = x.id /\ r.tier \in {"episodic", "semantic"}
      BY <1>3, <2>1 DEF SelectStep, Aged, Hydrate, Ids
    <3>2. x.tier = "archival"
      BY <1>3, <3>1 DEF FoldInv, Covers
    <3>3. Row(x).id = x.id /\ Row(x).tier = "archival"
      BY <3>2 DEF Row
    <3>4. OneEach(ext)
      BY <1>3 DEF TiersInv, StoreTyped
    <3>. QED BY <3>1, <3>3, <3>4 DEF OneEach
  <2>2. ~Commit
    <3>1. ASSUME Commit PROVE FALSE
      <4>1. Commits(Head(job.todo))
        BY <1>3, <3>1, CommitStep
      <4>. QED BY <1>3, <4>1, NoJobIs DEF Commits, JobKeeps
    <3>. QED BY <3>1
  <2>3. Pass => SelectStep
    <3>1. ASSUME Pass, ~SelectStep PROVE FALSE
      BY <1>3, <3>1, PassSteps DEF Advance, RemoveStep, FoldStep, BatchStep, MintStep, EndStep, Making
    <3>. QED BY <3>1
  <2>4. ~(CallStep \/ ElseStep \/ ReflectStep \/ DeathStep \/ TickStep \/ UNCHANGED vars)
    BY <1>3, NoJobIs DEF CallStep, Started, ElseStep, ReflectStep, DeathStep, TickStep, vars
  <2>. QED BY <1>3, <2>1, <2>2, <2>3, <2>4, OtherSteps
<1>4. TiersInv /\ FoldInv /\ [Next]_vars =>
        [(job.phase = "mint" /\ job'.phase = "expire") =>
          \A x \in job'.batch, a \in store :
              (Ours(a) /\ x.id \in a.sources) => Row(x) \notin ext]_vars
  BY <1>3
<1>. QED BY <1>2, <1>4, PTL DEF Spec, FoldedOnce

-----------------------------------------------------------------------------
(* What a pass drops.                                                       *)

LEMMA IdParts ==
    /\ Ids({}) = {}
    /\ \A M, N : M \subseteq N => Ids(M) \subseteq Ids(N)
    /\ \A M, N : Ids(M \cup N) = Ids(M) \cup Ids(N)
    /\ \A M : \A m \in M : m.id \in Ids(M)
  BY DEF Ids

LEMMA AllKnown ==
    ASSUME TiersInv
    PROVE  /\ \A x, y \in Remains : x.id = y.id => SameMemory(x, y)
           /\ \A x \in Remains : x \in Memory /\ x.id < next /\ \A i \in x.sources : i < next
           /\ store \subseteq Remains /\ ToMove(job) \subseteq Remains
           /\ InWrites(job.todo) \subseteq Remains
<1>1. Remains \subseteq Known
  <2>1. Lasting(job) \subseteq Held(job)
    BY HeldParts, LastingParts DEF Batched
  <2>. QED BY <2>1 DEF Remains, Known
<1>. QED BY <1>1, MoveParts, LastingHolds DEF TiersInv, KnownSound, Sound, OldEnough, OneMemoryEach, Remains

LEMMA StaysOrNew ==
    ASSUME TiersInv, [Next]_vars
    PROVE  \A x \in Remains' : Carried(x) \/ Fresh(x)
  BY EveryStepGrows DEF Grows, Remains

\* A summary, and what the older releases left of them: archival, and of no
\* other summary.
Covering(a) == a.kind = "archive" /\ a.sources # {}
TidyLegacy ==
    \A M \in Legacy : \A a, b \in M :
        Covering(a) => a.tier = "archival" /\ (Covering(b) => a.id \notin b.sources)

\* A row may be behind the tier or the use of a memory, never its age; and
\* nothing lists a summary as a candidate.
ListedInv ==
    /\ \A r \in ext, x \in Remains : r.id = x.id => r.born = x.born
    /\ TidyLegacy =>
          /\ \A x \in Remains : Covering(x) => x.tier = "archival"
          /\ \A r \in ext, x \in Remains : r.id = x.id /\ Covering(x) => r.tier = "archival"

LEMMA RowsRemain ==
    ASSUME TiersInv, [Next]_vars
    PROVE  \A r \in ext' : r \in ext \/ \E z \in Remains : r = Row(z)
<1>1. ASSUME NEW M \in SUBSET Remains, NEW r \in Rows(M) PROVE \E z \in Remains : r = Row(z)
  BY <1>1 DEF Rows
<1>2. CASE Commit
  <2> DEFINE w == Head(job.todo)
  <2>1. Commits(w) /\ Copies(w) \subseteq Remains
    BY <1>2, CommitStep, FirstWrite, JobFacts, AllKnown DEF Commits
  <2> HIDE DEF w
  <2>2. w.do = "list" => w.mems \subseteq Remains
    BY <2>1 DEF Copies
  <2>. QED BY <1>1, <2>1, <2>2 DEF Commits
<1>3. CASE Pass
  BY <1>3, PassSteps
<1>4. store \in SUBSET Remains
  BY AllKnown
<1>5. CASE DeathStep
  BY <1>1, <1>4, <1>5 DEF DeathStep
<1>6. CASE CallStep \/ ElseStep \/ ReflectStep \/ TickStep \/ UNCHANGED vars
  BY <1>6 DEF CallStep, Started, ElseStep, ReflectStep, TickStep, vars, files
<1>. QED BY <1>2, <1>3, <1>5, <1>6, OtherSteps

LEMMA ListedKeeps ==
    ASSUME TiersInv, ListedInv, [Next]_vars
    PROVE  ListedInv'
<1>1. /\ \A x \in Remains' : Carried(x) \/ Fresh(x)
      /\ \A r \in ext' : r \in ext \/ \E z \in Remains : r = Row(z)
  BY StaysOrNew, RowsRemain
<1>2. /\ \A r \in ext : r.id # next
      /\ \A z \in Remains : Row(z).id # next
  BY AllKnown DEF TiersInv, SidecarOld, StoreTyped, Row
<1>3. \A r \in ext' : r.id # next
  BY <1>1, <1>2
<1>4. \A r \in ext', y \in Remains : r.id = y.id =>
        /\ r.born = y.born
        /\ TidyLegacy /\ Covering(y) => r.tier = "archival"
  <2> SUFFICES ASSUME NEW r \in ext', NEW y \in Remains, r.id = y.id
               PROVE  r.born = y.born /\ (TidyLegacy /\ Covering(y) => r.tier = "archival")
    OBVIOUS
  <2>1. CASE r \in ext
    BY <2>1 DEF ListedInv
  <2>2. ASSUME NEW z \in Remains, r = Row(z)
        PROVE  r.born = y.born /\ (TidyLegacy /\ Covering(y) => r.tier = "archival")
    <3>1. r.id = z.id /\ r.born = z.born /\ r.tier = z.tier
      BY <2>2 DEF Row
    <3>2. SameMemory(z, y) /\ SameMemory(y, z)
      BY <2>2, <3>1, AllKnown
    <3>. QED BY <2>2, <3>1, <3>2 DEF ListedInv, SameMemory, Covering
  <2>. QED BY <1>1, <2>1, <2>2
<1>5. ASSUME NEW x \in Remains', Carried(x)
      PROVE  \E y \in Remains : /\ x.id = y.id /\ x.born = y.born /\ x.tier \in {y.tier, "archival"}
                                /\ Covering(x) => Covering(y)
  BY <1>5 DEF Carried, SameMemory, Covering
<1>6. \A r \in ext', x \in Remains' : r.id = x.id =>
        /\ r.born = x.born
        /\ TidyLegacy /\ Covering(x) => r.tier = "archival"
  BY <1>1, <1>3, <1>4, <1>5 DEF Fresh
<1>7. TidyLegacy => \A x \in Remains' : Covering(x) => x.tier = "archival"
  BY <1>1, <1>5 DEF Fresh, ListedInv, Covering
<1>. QED BY <1>6, <1>7 DEF ListedInv, Covering

\* The first drop of a pass leaves no listed scratch to the later ones, whatever
\* else the sidecar has missed.
PastFirstDrop == job.op = "reflect" /\ ~(job.phase = "expire" /\ job.round = 1)
OldScratch(m) == IsScratch(m) /\ m.born <= now - TTL /\ InScope(job.scope, m)
ScratchInv ==
    PastFirstDrop =>
        \A m \in store : OldScratch(m) => m.id \in Ids(Leaving(job.todo)) \/ m.id \notin Ids(ext)

\* The candidates of a drop are the listed ones.
LEMMA ExpiredAreListed ==
    ASSUME TiersInv, ListedInv
    PROVE  Expired(job.scope) = {m \in store : OldScratch(m) /\ m.id \in Ids(ext)}
<1>1. \A m \in store, r \in ext : r.id = m.id => r.born = m.born
  BY DEF ListedInv, Remains
<1>2. ASSUME NEW m \in Expired(job.scope) PROVE m \in store /\ OldScratch(m) /\ m.id \in Ids(ext)
  <2>1. m \in store /\ IsScratch(m) /\ InScope(job.scope, m) /\ \E r \in ext : r.born <= now - TTL /\ r.id = m.id
    BY <1>2 DEF Expired, Hydrate, Ids
  <2>. QED BY <1>1, <2>1 DEF OldScratch, Ids
<1>3. ASSUME NEW m \in store, OldScratch(m), m.id \in Ids(ext) PROVE m \in Expired(job.scope)
  <2>1. PICK r \in ext : r.id = m.id
    BY <1>3 DEF Ids
  <2>. QED BY <1>1, <1>3, <2>1 DEF Expired, Hydrate, Ids, OldScratch
<1>. QED BY <1>2, <1>3

LEMMA DropsOnce ==
    ASSUME TiersInv, ListedInv, ScratchInv, PastFirstDrop, job.todo = <<>>
    PROVE  Expired(job.scope) = {}
<1>1. Ids(Leaving(job.todo)) = {}
  BY NoShape, IdParts DEF Shaped
<1>. QED BY <1>1, ExpiredAreListed DEF ScratchInv

LEMMA CommitDrops ==
    ASSUME TiersInv, PairInv, ScratchInv, Commit
    PROVE  ScratchInv'
<1> DEFINE s == job.todo
           w == Head(s)
<1>1. Commits(w) /\ s \in Seq(Writes) /\ s # <<>> /\ w = s[1] /\ Copies(w) \subseteq InWrites(s)
  BY CommitStep, FirstWrite, JobFacts DEF Commits
<1>2. Leaving(s) = IF w.do = "remove" THEN w.mems ELSE {}
  BY <1>1 DEF Leaving
<1> HIDE DEF s, w
<1>3. CASE job' = NoJob
  BY <1>3, NoJobIs DEF ScratchInv, PastFirstDrop
<1>4. CASE JobKeeps
  <2> SUFFICES ASSUME PastFirstDrop', NEW m \in store', OldScratch(m)'
               PROVE  m.id \notin Ids(ext')
    BY DEF ScratchInv, Ids
  <2>1. PastFirstDrop /\ job.op = "reflect" /\ OldScratch(m)
    BY <1>1, <1>4 DEF PastFirstDrop, JobKeeps, Commits, OldScratch, IsScratch, InScope
  <2>2. \A x \in Copies(w) : ~IsScratch(x) /\ x \in Remains
    BY <1>1, <2>1, AllKnown DEF PairInv, s
  <2>3. m \in store
    BY <1>1, <2>1, <2>2 DEF Commits, Put, Without, Copies, OldScratch
  <2>4. m.id \notin Ids(Leaving(s))
    BY <1>1, <1>2, IdParts DEF Commits, Without
  <2>5. m.id \notin Ids(ext)
    BY <2>1, <2>3, <2>4 DEF ScratchInv, s
  <2>6. \A x \in Copies(w) : x.id # m.id
    BY <2>1, <2>2, <2>3, AllKnown DEF SameMemory, OldScratch
  <2>7. \A r \in ext' : r \in ext \/ \E x \in Copies(w) : r.id = x.id
    BY <1>1 DEF Commits, Rows, Row, Copies
  <2>. QED BY <2>5, <2>6, <2>7 DEF Ids
<1>. QED BY <1>1, <1>3, <1>4 DEF Commits

LEMMA ScratchKeeps ==
    ASSUME TiersInv, PairInv, ListedInv, ScratchInv, [Next]_vars
    PROVE  ScratchInv'
<1>1. CASE Pass
  <2>1. /\ UNCHANGED <<store, ext, cross, now, taken, faults>> /\ job.todo = <<>>
        /\ job.op = "reflect" /\ job'.op = "reflect" /\ job'.scope = job.scope
    BY <1>1, PassSteps
  <2>2. \A m : OldScratch(m)' = OldScratch(m)
    BY <2>1 DEF OldScratch, IsScratch, InScope
  <2>3. ASSUME Expired(job.scope) = {} PROVE ScratchInv'
    BY <2>1, <2>2, <2>3, ExpiredAreListed DEF ScratchInv, Ids
  <2>4. CASE RemoveStep("expire", "repair", Expired(job.scope))
    <3>1. Expired(job.scope) \in SUBSET Memory
      BY JobFacts DEF Expired, Hydrate
    <3>2. Leaving(job'.todo) = Expired(job.scope)
      BY <2>4, <3>1, RemoveShape DEF RemoveStep, Shaped
    <3>3. \A m \in store : OldScratch(m) => m.id \in Ids(Leaving(job'.todo)) \/ m.id \notin Ids(ext)
      BY <3>2, ExpiredAreListed, IdParts
    <3>. QED BY <2>1, <2>2, <3>3 DEF ScratchInv, Ids
  <2>5. CASE job.phase = "expire" /\ ~RemoveStep("expire", "repair", Expired(job.scope))
    <3>1. Advance
      BY <1>1, <2>5, PassSteps DEF RemoveStep, FoldStep, BatchStep, SelectStep, MintStep, EndStep, Making
    <3>. QED BY <2>3, <2>5, <3>1 DEF Advance
  <2>6. CASE job.phase # "expire"
    BY <2>1, <2>3, <2>6, DropsOnce DEF PastFirstDrop
  <2>. QED BY <2>4, <2>5, <2>6
<1>2. CASE ElseStep
  BY <1>2 DEF ElseStep, ScratchInv, PastFirstDrop, OldScratch, IsScratch, InScope, Ids, Leaving, Without
<1>3. CASE CallStep \/ ReflectStep \/ DeathStep
  BY <1>3, NoJobIs DEF CallStep, Started, ReflectStep, DeathStep, ScratchInv, PastFirstDrop
<1>4. CASE TickStep
  BY <1>4, NoJobIs DEF TickStep, ScratchInv, PastFirstDrop
<1>5. CASE UNCHANGED vars
  BY <1>5 DEF vars, files, ScratchInv, PastFirstDrop, OldScratch, IsScratch, InScope, Ids, Leaving
<1>. QED BY <1>1, <1>2, <1>3, <1>4, <1>5, CommitDrops, OtherSteps

DropInv == TiersInv /\ PairInv /\ ListedInv /\ ScratchInv

LEMMA DropHolds == Spec => []DropInv
<1>1. Init => ListedInv /\ ScratchInv
  <2> SUFFICES ASSUME Init PROVE ListedInv /\ ScratchInv
    OBVIOUS
  <2>1. store = Remains /\ job.op = "none" /\ ext = Rows(store)
    BY NoJobIs, NoJobLasts DEF Init, Remains
  <2>2. \A r \in ext : \E z \in store : r.id = z.id /\ r.born = z.born /\ r.tier = z.tier
    BY <2>1 DEF Rows, Row
  <2>3. store \in Legacy /\ \A m, n \in store : m.id = n.id => m = n
    BY LegacyIsTyped DEF Init
  <2>4. ListedInv
    BY <2>1, <2>2, <2>3 DEF ListedInv, TidyLegacy
  <2>. QED BY <2>1, <2>4 DEF ScratchInv, PastFirstDrop
<1>2. DropInv /\ [Next]_vars => ListedInv' /\ ScratchInv'
  BY ListedKeeps, ScratchKeeps DEF DropInv
<1>. QED BY <1>1, <1>2, PairHolds, PTL DEF Spec, DropInv

-----------------------------------------------------------------------------
(* Until a first fault the sidecar and the cross-store edges follow.         *)

\* The sidecar, once the commit that lists what was put, or unlists what was
\* removed, is made.
Listing(s) ==
    IF s # <<>> /\ s[1].do = "list" THEN {r \in ext : r.id \notin Ids(s[1].mems)} \cup Rows(s[1].mems)
    ELSE IF s # <<>> /\ s[1].do = "unlist" THEN {r \in ext : r.id \notin Ids(s[1].mems)}
    ELSE ext

\* The ids whose cross-store edges are still to be removed.
Owed == Ids(job.unsound) \cup Ids(Uncrossing(job.todo))

\* Only captured memories have cross-store edges, and those have no sources, so
\* the summaries that the later drops of a pass remove have none.
Plain == \A x \in Remains : x.id \in cross \cup Ids(Crossing(job.todo)) => x.sources = {}

CrossInv ==
    /\ cross \subseteq Ids(store) \cup Owed
    /\ Ids(Leaving(job.todo)) \cap cross \subseteq Owed
    /\ Ids(Crossing(job.todo)) \subseteq Ids(store) \cup Ids(Putting(job.todo))
    /\ Plain

AgreeInv == faults = 0 => Listing(job.todo) = Rows(store) /\ CrossInv

LEMMA RowsOfPut ==
    ASSUME NEW M, NEW R, R = Rows(store)
    PROVE  /\ {r \in R : r.id \notin Ids(M)} \cup Rows(M) = Rows(Put(M))
           /\ {r \in R : r.id \notin Ids(M)} = Rows(Without(M))
           /\ Ids(Put(M)) = Ids(store) \cup Ids(M) /\ Ids(Without(M)) = Ids(store) \ Ids(M)
<1>1. \A r : r \in R <=> \E m \in store : r = Row(m) /\ r.id = m.id
  BY DEF Rows, Row
<1>2. {r \in R : r.id \notin Ids(M)} = Rows(Without(M))
  <2>1. ASSUME NEW r \in R, r.id \notin Ids(M) PROVE r \in Rows(Without(M))
    BY <1>1, <2>1 DEF Rows, Without
  <2>2. ASSUME NEW m \in Without(M) PROVE Row(m) \in R /\ Row(m).id \notin Ids(M)
    BY <1>1, <2>2 DEF Without, Row, Rows
  <2>3. \A r \in Rows(Without(M)) : \E m \in Without(M) : r = Row(m)
    BY DEF Rows
  <2>. QED BY <2>1, <2>2, <2>3
<1>3. Put(M) = Without(M) \cup M
  BY DEF Put, Without
<1>4. Rows(Put(M)) = Rows(Without(M)) \cup Rows(M)
  BY <1>3 DEF Rows
<1>5. Ids(Without(M)) = Ids(store) \ Ids(M)
  BY DEF Ids, Without
<1>6. Ids(Put(M)) = Ids(Without(M)) \cup Ids(M)
  BY <1>3 DEF Ids
<1>. QED BY <1>2, <1>4, <1>5, <1>6

LEMMA CrossingIsHeld == \A s : Crossing(s) \subseteq InWrites(s)
  BY DEF Crossing, InWrites, Copies

\* Edges across stores go on being of captured memories.
LEMMA PlainKeeps ==
    ASSUME TiersInv, [Next]_vars, Plain,
           cross' \cup Ids(Crossing(job'.todo)) \subseteq cross \cup Ids(Crossing(job.todo))
    PROVE  Plain'
<1>1. \A x \in Remains' : Carried(x) \/ Fresh(x)
  BY StaysOrNew
<1>2. \A i \in cross \cup Ids(Crossing(job.todo)) : i # next
  <2>1. \A m \in Crossing(job.todo) : m.id < next
    <3>1. Crossing(job.todo) \subseteq Known
      BY CrossingIsHeld, HeldParts DEF Known
    <3>. QED BY <3>1 DEF TiersInv, KnownSound, Sound, OldEnough
  <2>2. \A i \in Ids(Crossing(job.todo)) : i < next
    BY <2>1 DEF Ids
  <2>3. \A i \in cross : i < next
    BY DEF TiersInv, CrossOld
  <2>. QED BY <2>2, <2>3 DEF TiersInv, StoreTyped
<1>3. (cross \cup Ids(Crossing(job.todo)))' \subseteq cross \cup Ids(Crossing(job.todo))
  BY DEF Ids, Crossing
<1> SUFFICES ASSUME NEW x \in Remains', x.id \in (cross \cup Ids(Crossing(job.todo)))'
             PROVE  x.sources = {}
  BY DEF Plain
<1>4. x.id \in cross \cup Ids(Crossing(job.todo)) /\ x.id # next
  BY <1>2, <1>3
<1>5. Carried(x)
  BY <1>1, <1>4 DEF Fresh
<1>6. PICK y \in Remains : x.id = y.id /\ x.sources \subseteq y.sources
  BY <1>5 DEF Carried, SameMemory
<1>. QED BY <1>4, <1>6 DEF Plain

LEMMA CommitAgrees ==
    ASSUME TiersInv, PairInv, Commit, faults = 0, AgreeInv
    PROVE  AgreeInv'
<1> DEFINE s == job.todo
           w == Head(s)
           r == Tail(s)
<1>1. Commits(w) /\ s \in Seq(Writes) /\ s # <<>> /\ w = s[1]
  BY CommitStep, JobFacts DEF Commits
<1>2. /\ Putting(r) = {} /\ Leaving(r) = {} /\ Crossing(r) \subseteq Crossing(s)
      /\ w.do = "cross" => w.mems \subseteq Crossing(s)
      /\ Uncrossing(s) \subseteq Uncrossing(r) \cup (IF w.do = "uncross" THEN w.mems ELSE {})
      /\ w.do = "remove" => Crossing(r) = {}
      /\ w.do \in {"put", "remove"} => r # <<>> /\ r[1].mems = w.mems
                                       /\ r[1].do = IF w.do = "put" THEN "list" ELSE "unlist"
      /\ w.do \notin {"put", "remove"} => r = <<>> \/ r[1].do \notin {"list", "unlist"}
  BY <1>1, RestShape DEF PairInv
<1>3. Putting(s) = (IF w.do = "put" THEN w.mems ELSE {}) /\ Leaving(s) = (IF w.do = "remove" THEN w.mems ELSE {})
  BY <1>1 DEF Putting, Leaving
<1>4. Listing(s) = IF w.do = "list" THEN {q \in ext : q.id \notin Ids(w.mems)} \cup Rows(w.mems)
                   ELSE IF w.do = "unlist" THEN {q \in ext : q.id \notin Ids(w.mems)} ELSE ext
  BY <1>1 DEF Listing
<1>5. \/ job' = NoJob /\ job.op # "reflect" /\ job.unsound = {}
      \/ job' = NoJob /\ w.do = "uncross" /\ w.mems = job.unsound
      \/ JobKeeps
  <2>1. job.op = "reflect" /\ job.phase = "end" => w.do = "uncross" /\ w.mems = job.unsound
    <3>1. \A M : <<Write("uncross", M)>>[1].do = "uncross" /\ <<Write("uncross", M)>>[1].mems = M
      BY DEF Write
    <3>. QED BY <1>1, <3>1 DEF PairInv
  <2>. QED BY <1>1, <2>1 DEF Commits, PairInv
<1> HIDE DEF s, w, r
<1>6. job'.todo = r /\ job.todo = s
  BY <1>1 DEF Commits, r, s
<1>7. Listing(job.todo)' = Rows(store')
  <2>1. Listing(s) = Rows(store) /\ job'.todo = r
    BY <1>6 DEF AgreeInv
  <2>2. CASE w.do = "put"
    <3>1. ext' = ext /\ ext = Rows(store) /\ store' = Put(w.mems)
      BY <1>1, <1>4, <2>1, <2>2 DEF Commits
    <3>2. Listing(job.todo)' = {q \in ext : q.id \notin Ids(w.mems)} \cup Rows(w.mems)
      BY <1>2, <2>1, <2>2, <3>1 DEF Listing, Ids, Rows
    <3>. QED BY <3>1, <3>2, RowsOfPut
  <2>3. CASE w.do = "remove"
    <3>1. ext' = ext /\ ext = Rows(store) /\ store' = Without(w.mems)
      BY <1>1, <1>4, <2>1, <2>3 DEF Commits
    <3>2. Listing(job.todo)' = {q \in ext : q.id \notin Ids(w.mems)}
      BY <1>2, <2>1, <2>3, <3>1 DEF Listing, Ids
    <3>. QED BY <3>1, <3>2, RowsOfPut
  <2>4. CASE w.do \notin {"put", "remove"}
    <3>1. ext' = Listing(s) /\ store' = store
      BY <1>1, <1>4, <2>4 DEF Commits
    <3>2. Listing(job.todo)' = ext'
      BY <1>2, <2>1, <2>4 DEF Listing
    <3>. QED BY <2>1, <3>1, <3>2
  <2>. QED BY <2>2, <2>3, <2>4
<1>8. Ids(Crossing(r)) \subseteq Ids(Crossing(s)) /\ (w.do = "cross" => Ids(w.mems) \subseteq Ids(Crossing(s)))
  BY <1>2, IdParts
<1>9. Ids(Uncrossing(s)) \subseteq Ids(Uncrossing(r)) \cup (IF w.do = "uncross" THEN Ids(w.mems) ELSE {})
  <2> DEFINE U == IF w.do = "uncross" THEN w.mems ELSE {}
  <2>1. Ids(Uncrossing(s)) \subseteq Ids(Uncrossing(r) \cup U)
    BY <1>2, IdParts
  <2>2. Ids(Uncrossing(r) \cup U) = Ids(Uncrossing(r)) \cup Ids(U)
    BY IdParts
  <2>. QED BY <2>1, <2>2, IdParts
<1>10. Ids(store') = IF w.do = "put" THEN Ids(store) \cup Ids(w.mems)
                     ELSE IF w.do = "remove" THEN Ids(store) \ Ids(w.mems) ELSE Ids(store)
  BY <1>1, RowsOfPut DEF Commits
<1>11. cross' = IF w.do = "cross" THEN cross \cup Ids(w.mems)
                ELSE IF w.do = "uncross" THEN cross \ Ids(w.mems) ELSE cross
  BY <1>1 DEF Commits
<1>12. /\ cross \subseteq Ids(store) \cup Ids(job.unsound) \cup Ids(Uncrossing(s))
       /\ w.do = "remove" => Ids(w.mems) \cap cross \subseteq Ids(job.unsound) \cup Ids(Uncrossing(s))
       /\ Ids(Crossing(s)) \subseteq Ids(store) \cup (IF w.do = "put" THEN Ids(w.mems) ELSE {})
       /\ Plain
  BY <1>3, <1>6, IdParts DEF AgreeInv, CrossInv, Owed
<1>13. cross' \subseteq Ids(store') \cup Ids(job'.unsound) \cup Ids(Uncrossing(r))
  <2>1. Ids(job'.unsound) = Ids(job.unsound) \/ (w.do = "uncross" /\ w.mems = job.unsound) \/ job.unsound = {}
    BY <1>5 DEF JobKeeps
  <2>. QED BY <1>8, <1>9, <1>10, <1>11, <1>12, <2>1, IdParts
<1>14. Ids(Crossing(r)) \subseteq Ids(store')
  BY <1>2, <1>8, <1>10, <1>12, IdParts
<1>15. Plain'
  BY <1>6, <1>8, <1>11, <1>12, PlainKeeps DEF Next
<1>16. CrossInv'
  <2>1. Owed' = Ids(job'.unsound) \cup Ids(Uncrossing(r))
    BY <1>6 DEF Owed, Ids, Uncrossing
  <2>2. Ids(Leaving(job.todo))' = {} /\ Ids(Crossing(job.todo))' = Ids(Crossing(r)) /\ Ids(store)' = Ids(store')
    BY <1>2, <1>6, IdParts DEF Ids, Leaving, Crossing
  <2>. QED BY <1>13, <1>14, <1>15, <2>1, <2>2 DEF CrossInv
<1>. QED BY <1>7, <1>16 DEF AgreeInv

\* A job that has nothing to commit.
LEMMA NothingPending ==
    ASSUME NEW s, s = <<>> \/ s[1].do \notin {"list", "unlist"}
    PROVE  Listing(s) = ext
  BY DEF Listing

\* A pass decides, and a call starts, with the files as they are.
LEMMA StartAgrees ==
    ASSUME AgreeInv, faults = 0, job.todo = <<>>, store' = store, ext' = ext, cross' = cross,
           NEW P, NEW L, NEW C, NEW U, Shaped(job'.todo, P, L, C, U),
           job'.todo = <<>> \/ job'.todo[1].do \notin {"list", "unlist"},
           Ids(job.unsound) \subseteq Ids(job'.unsound) \cup Ids(U),
           Ids(L) \cap cross \subseteq Ids(job'.unsound) \cup Ids(U),
           Ids(C) \subseteq Ids(P), Plain'
    PROVE  AgreeInv'
<1>1. Crossing(<<>>) = {} /\ Uncrossing(<<>>) = {} /\ Leaving(<<>>) = {} /\ Putting(<<>>) = {}
  BY NoShape DEF Shaped
<1>2. Listing(job.todo)' = Rows(store')
  BY DEF AgreeInv, Listing, Ids, Rows
<1>3. Owed' = Ids(job'.unsound) \cup Ids(U) /\ Owed = Ids(job.unsound)
  BY <1>1, IdParts DEF Owed, Ids, Shaped
<1>4. /\ Ids(Leaving(job.todo))' = Ids(L) /\ Ids(Crossing(job.todo))' = Ids(C)
      /\ Ids(Putting(job.todo))' = Ids(P) /\ Ids(store)' = Ids(store)
  BY DEF Shaped, Ids
<1>. QED BY <1>2, <1>3, <1>4 DEF AgreeInv, CrossInv

LEMMA FirstIsNotListing ==
    /\ \A m : CaptureWrites(m)[1].do = "put"
    /\ \A M : RemoveWrites(M) = <<>> \/ RemoveWrites(M)[1].do = "remove"
    /\ \A M : EraseWrites(M)[1].do = "remove"
    /\ \A g, a : FoldWrites(g, a)[1].do = "put"
    /\ \A M : <<Write("uncross", M)>>[1].do = "uncross"
    /\ \A m : (CaptureWrites(m) \o <<Write("cross", {m})>>)[1].do = "put"
  BY DEF CaptureWrites, RemoveWrites, EraseWrites, FoldWrites, Write

LEMMA PassAgrees ==
    ASSUME DropInv, Pass, faults = 0, AgreeInv
    PROVE  AgreeInv'
<1>1. /\ UNCHANGED <<store, ext, cross, now, taken, faults>> /\ job.todo = <<>>
      /\ job.op = "reflect" /\ TiersInv
  BY PassSteps DEF DropInv
<1>2. /\ Crossing(<<>>) = {} /\ Uncrossing(<<>>) = {} /\ Leaving(<<>>) = {} /\ Putting(<<>>) = {}
      /\ Shaped(<<>>, {}, {}, {}, {}) /\ Ids({}) = {}
  BY NoShape, IdParts DEF Shaped
<1>3. Plain /\ ext = Rows(store)
  BY <1>1 DEF AgreeInv, CrossInv, Listing
<1>4. Crossing(job'.todo) = {} => Plain'
  BY <1>1, <1>2, <1>3, PlainKeeps DEF Next
<1>5. ASSUME NEW P, Shaped(job'.todo, P, {}, {}, {}), job'.unsound = job.unsound,
             job'.todo = <<>> \/ job'.todo[1].do \notin {"list", "unlist"}
      PROVE  AgreeInv'
  <2>1. Plain'
    BY <1>4, <1>5 DEF Shaped
  <2>. QED BY <1>1, <1>2, <1>5, <2>1, StartAgrees
<1>6. CASE Advance
  BY <1>2, <1>5, <1>6 DEF Advance
<1>7. ASSUME NEW M \in SUBSET Memory, NEW from, NEW to, RemoveStep(from, to, M),
             job.round # 1 => Ids(M) \cap cross = {}
      PROVE  AgreeInv'
  <2>1. Shaped(job'.todo, {}, M, {}, {})
    BY <1>7, RemoveShape DEF RemoveStep
  <2>2. Plain'
    BY <1>4, <2>1 DEF Shaped
  <2>3. job'.todo = <<>> \/ job'.todo[1].do \notin {"list", "unlist"}
    BY <1>7, FirstIsNotListing DEF RemoveStep
  <2>4. job'.unsound = IF job.round = 1 THEN job.unsound \cup M ELSE job.unsound
    BY <1>7 DEF RemoveStep, Remember
  <2>5. Ids(job.unsound) \subseteq Ids(job'.unsound) /\ Ids(M) \cap cross \subseteq Ids(job'.unsound)
    BY <1>7, <2>4, IdParts
  <2>. QED BY <1>1, <1>2, <1>7, <2>1, <2>2, <2>3, <2>5, StartAgrees
<1>8. CASE RemoveStep("expire", "repair", Expired(job.scope))
  <2>1. Expired(job.scope) \in SUBSET Memory
    BY <1>1, JobFacts DEF Expired, Hydrate
  <2>2. job.round # 1 => Expired(job.scope) = {}
    BY <1>1, <1>8, DropsOnce DEF RemoveStep, PastFirstDrop, DropInv
  <2>. QED BY <1>2, <1>7, <1>8, <2>1, <2>2
<1>9. CASE RemoveStep("repair", "rebuild", Stale)
  <2>1. Stale \in SUBSET Memory /\ Stale \subseteq store
    BY <1>1, JobFacts DEF Stale
  <2>2. \A a \in Stale : a.sources # {}
    <3>1. \A a \in Stale : a.sources = {} => Durable(a) = {}
      BY DEF Durable
    <3>. QED BY <3>1, <1>2 DEF Stale
  <2>3. Ids(Stale) \cap cross = {}
    BY <1>3, <2>1, <2>2 DEF Plain, Remains, Ids
  <2>. QED BY <1>7, <1>9, <2>1, <2>3
<1>10. ASSUME NEW g, NEW a, FoldStep(g, a) PROVE AgreeInv'
  <2>1. Shaped(job'.todo, Moved(g) \cup {a}, {}, {}, {})
    BY <1>10, FoldShape DEF FoldStep
  <2>2. job'.todo[1].do \notin {"list", "unlist"}
    BY <1>10, FirstIsNotListing DEF FoldStep
  <2>. QED BY <1>5, <1>10, <2>1, <2>2 DEF FoldStep
<1>11. CASE BatchStep \/ SelectStep
  BY <1>2, <1>5, <1>11 DEF BatchStep, SelectStep
<1>12. ASSUME NEW m, MintStep(m) PROVE AgreeInv'
  <2>1. PICK P \in SUBSET {m} : Shaped(job'.todo, P, {}, {}, {}) /\ InWrites(job'.todo) = P
    BY <1>12 DEF MintStep
  <2>. QED BY <1>5, <1>12, <2>1 DEF MintStep
<1>13. CASE EndStep
  <2>1. Shaped(job'.todo, {}, {}, {}, job.unsound)
    BY <1>13, UncrossShape DEF EndStep
  <2>2. job'.todo[1].do \notin {"list", "unlist"}
    BY <1>13, FirstIsNotListing DEF EndStep
  <2>3. Plain'
    BY <1>4, <2>1 DEF Shaped
  <2>. QED BY <1>1, <1>2, <1>13, <2>1, <2>2, <2>3, StartAgrees DEF EndStep
<1>. QED BY <1>1, <1>6, <1>8, <1>9, <1>10, <1>11, <1>12, <1>13, PassSteps

LEMMA CallAgrees ==
    ASSUME TiersInv, CallStep, [Next]_vars, faults = 0, AgreeInv, job = NoJob
    PROVE  AgreeInv'
<1>1. job.todo = <<>> /\ job.unsound = {} /\ job.op = "none" /\ Ids({}) = {}
  BY NoJobIs, IdParts
<1>2. Plain /\ Crossing(<<>>) = {} /\ \A x \in store : x.id \in cross => x.sources = {}
  BY <1>1, NoShape DEF AgreeInv, CrossInv, Shaped, Plain, Remains
<1>3. ASSUME NEW op \in {"capture", "reinforce", "erase"}, NEW s, Started(op, s), s[1].do \notin {"list", "unlist"},
             NEW P, NEW L, NEW C, NEW U, Shaped(s, P, L, C, U), Ids(L) \subseteq Ids(U),
             Ids(C) \subseteq Ids(P), Plain'
      PROVE  AgreeInv'
  BY <1>1, <1>3, StartAgrees DEF Started
<1>4. ASSUME NEW s, job'.todo = s, cross' = cross, Crossing(s) = {} PROVE Plain'
  BY <1>1, <1>2, <1>4, PlainKeeps
<1>5. ASSUME NEW m \in Memory, m.id = next, m.sources = {},
             Started("capture", CaptureWrites(m) \o <<Write("cross", {m})>>)
      PROVE  AgreeInv'
  <2> DEFINE s == CaptureWrites(m) \o <<Write("cross", {m})>>
  <2>1. Shaped(s, {m}, {}, {m}, {}) /\ s[1].do = "put" /\ InWrites(s) = {m}
    BY CaptureShape, FirstIsNotListing, CaptureWritesTyped
  <2> HIDE DEF s
  <2>2. /\ job'.todo = s /\ cross' = cross /\ store' = store /\ job'.groups = {} /\ job'.batch = {}
    BY <1>5 DEF Started, s
  <2>3. Remains' = store \cup {m}
    BY <2>1, <2>2 DEF Remains, Lasting
  <2>4. Ids(Crossing(job.todo))' = {next}
    BY <1>5, <2>1, <2>2 DEF Shaped, Ids
  <2>5. \A x \in store : x.id # next
    BY DEF TiersInv, KnownSound, Sound, OldEnough, Known, StoreTyped
  <2>6. Plain'
    BY <1>2, <1>5, <2>2, <2>3, <2>4, <2>5 DEF Plain
  <2>. QED BY <1>1, <1>3, <1>5, <2>1, <2>6 DEF s
<1>6. ASSUME NEW c \in Memory, Started("reinforce", CaptureWrites(c)) PROVE AgreeInv'
  <2>1. Shaped(CaptureWrites(c), {c}, {}, {}, {}) /\ CaptureWrites(c)[1].do = "put"
    BY CaptureShape, FirstIsNotListing
  <2>2. Plain'
    BY <1>4, <1>6, <2>1 DEF Started, Shaped
  <2>. QED BY <1>1, <1>3, <1>6, <2>1, <2>2
<1>7. ASSUME NEW M \in SUBSET store, Started("erase", EraseWrites(M)) PROVE AgreeInv'
  <2>1. Shaped(EraseWrites(M), {}, M, {}, M) /\ EraseWrites(M)[1].do = "remove"
    BY JobFacts, EraseShape, FirstIsNotListing
  <2>2. Plain'
    BY <1>4, <1>7, <2>1 DEF Started, Shaped
  <2>. QED BY <1>1, <1>3, <1>7, <2>1, <2>2
<1>. QED BY <1>5, <1>6, <1>7 DEF CallStep

LEMMA AgreeKeeps ==
    ASSUME DropInv, AgreeInv, [Next]_vars
    PROVE  AgreeInv'
<1> USE DEF DropInv
<1>1. faults \in Nat
  BY BoundsAreNat DEF TiersInv, StoreTyped
<1>2. CASE Commit
  BY <1>2, CommitAgrees DEF Commit, bounds, AgreeInv
<1>3. CASE Pass
  BY <1>3, PassAgrees, PassSteps DEF AgreeInv
<1>4. CASE CallStep
  <2>1. job = NoJob /\ faults' = faults
    BY <1>4 DEF CallStep, Started
  <2>. QED BY <1>4, <2>1, CallAgrees DEF AgreeInv
<1>5. CASE ElseStep
  BY <1>1, <1>5 DEF ElseStep, AgreeInv
<1>6. ASSUME faults = 0, store' = store, ext' = ext, cross' = cross, job'.todo = job.todo, job.todo = <<>>,
             job'.unsound = job.unsound
      PROVE  AgreeInv'
  <2>1. Shaped(job'.todo, {}, {}, {}, {}) /\ Ids({}) = {} /\ Crossing(<<>>) = {}
    BY <1>6, NoShape, IdParts DEF Shaped
  <2>2. Plain'
    BY <1>6, PlainKeeps DEF AgreeInv, CrossInv
  <2>. QED BY <1>6, <2>1, <2>2, StartAgrees
<1>7. CASE ReflectStep
  <2>1. job = NoJob /\ faults' = faults
    BY <1>7 DEF ReflectStep
  <2>. QED BY <1>6, <1>7, <2>1, NoJobIs DEF ReflectStep, AgreeInv
<1>8. CASE DeathStep
  <2>1. CASE faults' # 0
    BY <2>1 DEF AgreeInv
  <2>2. CASE faults' = 0
    <3>1. job = NoJob /\ faults = 0 /\ job' = NoJob /\ ext' = Reconciled
      BY <1>1, <1>8, <2>2 DEF DeathStep
    <3>2. ext = Rows(store)
      BY <3>1, NoJobIs DEF AgreeInv, Listing
    <3>3. ext' = ext
      BY <3>1, <3>2 DEF Reconciled, Agrees
    <3>. QED BY <1>6, <1>8, <3>1, <3>3, NoJobIs DEF DeathStep
  <2>. QED BY <2>1, <2>2
<1>9. CASE TickStep
  <2>1. job = NoJob /\ faults' = faults
    BY <1>9 DEF TickStep
  <2>. QED BY <1>6, <1>9, <2>1, NoJobIs DEF TickStep, AgreeInv
<1>10. CASE UNCHANGED vars
  <2>1. /\ UNCHANGED <<store, ext, cross, job, now, faults>>
    BY <1>10 DEF vars, files, bounds
  <2>2. CASE faults = 0
    <3>1. Plain'
      BY <2>1, <2>2 DEF AgreeInv, CrossInv, Plain, Remains, Ids, Crossing, Lasting, InWrites
    <3>2. Listing(job.todo)' = Listing(job.todo)
      BY <2>1 DEF Listing, Ids, Rows, Row
    <3>3. Owed' = Owed /\ Ids(Leaving(job.todo))' = Ids(Leaving(job.todo))
          /\ Ids(Crossing(job.todo))' = Ids(Crossing(job.todo))
          /\ Ids(Putting(job.todo))' = Ids(Putting(job.todo))
      BY <2>1 DEF Owed, Ids, Uncrossing, Leaving, Crossing, Putting
    <3>4. CrossInv'
      BY <2>1, <2>2, <3>1, <3>3 DEF AgreeInv, CrossInv, Ids
    <3>. QED BY <2>1, <2>2, <3>2, <3>4 DEF AgreeInv, Rows, Row
  <2>. QED BY <2>1, <2>2 DEF AgreeInv
<1>. QED BY <1>2, <1>3, <1>4, <1>5, <1>7, <1>8, <1>9, <1>10, OtherSteps

\* Between operations and until a first fault, whatever was captured, confirmed,
\* erased and reflected, the sidecar lists every memory as it is, and every
\* cross-store edge is of a memory there is.
THEOREM FilesStayInStep == Spec => []FilesAgree
<1>1. Init => AgreeInv
  <2> SUFFICES ASSUME Init PROVE AgreeInv
    OBVIOUS
  <2>1. job.todo = <<>> /\ job.op = "none" /\ cross = {} /\ ext = Rows(store) /\ Ids({}) = {}
    BY NoJobIs, IdParts DEF Init
  <2>2. Leaving(<<>>) = {} /\ Crossing(<<>>) = {}
    BY NoShape DEF Shaped
  <2>. QED BY <2>1, <2>2 DEF AgreeInv, Listing, CrossInv, Plain
<1>2. TiersInv /\ AgreeInv => FilesAgree
  <2> SUFFICES ASSUME AgreeInv, job = NoJob, faults = 0 PROVE ext = Rows(store) /\ cross \subseteq Ids(store)
    BY DEF FilesAgree
  <2>1. job.todo = <<>> /\ job.unsound = {} /\ Ids({}) = {} /\ Uncrossing(<<>>) = {}
    BY NoJobIs, NoShape, IdParts DEF Shaped
  <2>. QED BY <2>1 DEF AgreeInv, Listing, CrossInv, Owed
<1>3. Spec => [](DropInv /\ AgreeInv)
  BY <1>1, AgreeKeeps, DropHolds, PTL DEF Spec
<1>4. DropInv => TiersInv
  BY DEF DropInv
<1>. QED BY <1>2, <1>3, <1>4, PTL

-----------------------------------------------------------------------------
(* A pass that ends leaves every summary with the memories it covers.       *)

\* The store once the first commit is made.
Coming == {m \in Put(Putting(job.todo)) : m.id \notin Ids(Leaving(job.todo))}

\* What is folded is no summary, and stays until another server erases it: a pass
\* removes scratch and summaries alone.
TidyInv ==
    /\ \A a, b \in Remains : Covering(a) /\ Covering(b) => a.id \notin b.sources
    /\ \A x \in ToMove(job) : ~Covering(x) /\ x.id \in Ids(store) \cup taken
    /\ job.op # "reflect" => ToMove(job) = {}
    /\ job.op = "reflect" =>
          \A x \in Remains : x.id \in Ids(Leaving(job.todo)) => Covering(x) \/ IsScratch(x)

\* After the last repair every summary has its sources, apart from those that
\* another server erased.
PastRepair ==
    /\ job.op = "reflect"
    /\ (job.phase = "rebuild" /\ job.round = 3) \/ job.phase \in {"summarize", "end"}
SoundNow(M) ==
    \A a \in M : a.kind = "archive" =>
        \A i \in a.sources : i \in taken \/ \E m \in M : m.id = i /\ ~IsScratch(m)
RepairedInv == PastRepair => SoundNow(Coming)

LEMMA SameCovering ==
    ASSUME TiersInv, NEW x \in Remains, NEW y \in Remains, x.id = y.id
    PROVE  (Covering(x) <=> Covering(y)) /\ (IsScratch(x) <=> IsScratch(y))
  BY AllKnown DEF SameMemory, Covering

LEMMA ToMoveIsLasting ==
    ASSUME TiersInv
    PROVE  \A x \in ToMove(job) : x \in Memory /\ x \in Remains /\ ~IsScratch(x)
<1>1. ASSUME NEW g \in job.groups, NEW x \in g PROVE ~IsScratch(x)
  BY <1>1 DEF TiersInv, GoodJob, Group
<1>2. job.phase \notin Making => \A x \in job.batch : ~IsScratch(x)
  BY DEF TiersInv, GoodJob
<1>. QED BY <1>1, <1>2, AllKnown DEF ToMove

\* A new summary covers what is folded, and that is no summary.
LEMMA CoversNone ==
    ASSUME TiersInv, TidyInv, [Next]_vars
    PROVE  \A a, b \in Remains' : Covering(a) /\ Covering(b) => a.id \notin b.sources
<1> SUFFICES ASSUME NEW a \in Remains', NEW b \in Remains', Covering(a), Covering(b), a.id \in b.sources
             PROVE  FALSE
  OBVIOUS
<1>1. ASSUME NEW x \in Remains', Carried(x), Covering(x)
      PROVE  \E y \in Remains : x.id = y.id /\ x.sources = y.sources /\ Covering(y)
  BY <1>1 DEF Carried, SameMemory, Covering
<1>2. a.id # next => \E y \in Remains : y.id = a.id /\ Covering(y)
  BY <1>1, StaysOrNew DEF Fresh
<1>3. CASE Carried(b)
  <2>1. PICK y \in Remains : y.sources = b.sources /\ Covering(y)
    BY <1>1, <1>3
  <2>2. a.id # next
    BY <2>1, AllKnown DEF TiersInv, StoreTyped
  <2>. QED BY <1>2, <2>1, <2>2 DEF TidyInv
<1>4. CASE Fresh(b)
  <2>1. PICK x \in ToMove(job) : x.id = a.id
    BY <1>4 DEF Fresh, Ids, Covering
  <2>2. x \in Remains /\ ~Covering(x) /\ x.id # next
    BY AllKnown DEF TidyInv, TiersInv, StoreTyped
  <2>. QED BY <1>2, <2>1, <2>2, SameCovering
<1>. QED BY <1>3, <1>4, StaysOrNew

\* What leaves is told by its id.
LEMMA LeavingKeeps ==
    ASSUME TiersInv, [Next]_vars, NEW I,
           \A x \in Remains : x.id \in I => Covering(x) \/ IsScratch(x), next \notin I
    PROVE  \A x \in Remains' : x.id \in I => Covering(x) \/ IsScratch(x)
  BY StaysOrNew DEF Carried, Fresh, SameMemory, Covering

\* What a pass may fold besides what it already holds: the sources of the
\* summaries it removes, and its candidates.
LEMMA PassMoves ==
    ASSUME TiersInv, Pass
    PROVE  \A x \in ToMove(job') :
              \/ x \in ToMove(job)
              \/ x \in store /\ (x \in Aged(job.scope) \/ \E a \in Stale : x \in Durable(a))
<1>1. store \in SUBSET Memory /\ OneEach(store)
  BY JobFacts
<1>2. ASSUME ToMove(job') \subseteq ToMove(job)
      PROVE  \A x \in ToMove(job') : x \in ToMove(job)
  BY <1>2
<1>3. CASE Advance
  <2>1. job.batch \in SUBSET Memory /\ OneEach(job.batch) /\ \A m \in job.batch : ~IsScratch(m)
    BY <1>3 DEF Advance, TiersInv, GoodJob, Making
  <2>2. (UNION job'.groups) \subseteq job.batch /\ job'.batch = job.batch
    BY <1>3, <2>1, GroupsAreGroups DEF Advance
  <2>. QED BY <1>3, <2>2 DEF Advance, ToMove, Making
<1>4. ASSUME NEW M, NEW from \in {"expire", "repair"}, NEW to \in {"repair", "rebuild"},
             RemoveStep(from, to, M), NEW D, (UNION job'.groups) \subseteq (UNION job.groups) \cup D
      PROVE  \A x \in ToMove(job') : x \in ToMove(job) \/ x \in D
  BY <1>4 DEF RemoveStep, ToMove, Making
<1>5. CASE RemoveStep("expire", "repair", Expired(job.scope)) /\ job'.groups = job.groups
  <2>1. (UNION job'.groups) \subseteq (UNION job.groups) \cup {}
    BY <1>5
  <2>. QED BY <1>4, <1>5, <2>1
<1>6. CASE /\ RemoveStep("repair", "rebuild", Stale)
           /\ job'.groups = Groups(UNION {Durable(a) : a \in Stale})
  <2> DEFINE D == UNION {Durable(a) : a \in Stale}
  <2>1. D \in SUBSET store /\ (\A m \in D : ~IsScratch(m)) /\ \A x \in D : \E a \in Stale : x \in Durable(a)
    BY DEF Durable
  <2> HIDE DEF D
  <2>2. (UNION Groups(D)) \subseteq D
    <3>1. D \in SUBSET Memory /\ OneEach(D)
      BY <1>1, <2>1 DEF OneEach
    <3>. QED BY <2>1, <3>1, GroupsAreGroups
  <2>3. (UNION job'.groups) \subseteq (UNION job.groups) \cup D
    BY <1>6, <2>2 DEF D
  <2>. QED BY <1>4, <1>6, <2>1, <2>3
<1>7. ASSUME NEW g, NEW a, FoldStep(g, a) PROVE ToMove(job') \subseteq ToMove(job)
  BY <1>7, MoveParts DEF FoldStep, Making
<1>8. CASE BatchStep \/ \E m : MintStep(m)
  BY <1>8, MoveParts DEF BatchStep, MintStep
<1>9. CASE SelectStep
  BY <1>9 DEF SelectStep, ToMove, Making, Aged, Hydrate
<1>10. CASE EndStep
  BY <1>10 DEF EndStep, ToMove, Making
<1>. QED BY <1>2, <1>3, <1>5, <1>6, <1>7, <1>8, <1>9, <1>10, PassSteps

LEMMA TidyKeeps ==
    ASSUME TidyLegacy, DropInv, TidyInv, [Next]_vars
    PROVE  TidyInv'
<1> USE DEF DropInv
<1>1. \A a, b \in Remains' : Covering(a) /\ Covering(b) => a.id \notin b.sources
  BY CoversNone
<1>2. ASSUME NEW M \in SUBSET store, Leaving(job'.todo) = M, \A m \in M : Covering(m) \/ IsScratch(m)
      PROVE  \A x \in Remains' : x.id \in Ids(Leaving(job'.todo)) => Covering(x) \/ IsScratch(x)
  <2>1. \A x \in Remains : x.id \in Ids(M) => Covering(x) \/ IsScratch(x)
    BY <1>2, SameCovering, AllKnown DEF Ids
  <2>2. next \notin Ids(M)
    BY AllKnown DEF Ids, TiersInv, StoreTyped
  <2>. QED BY <1>2, <2>1, <2>2, LeavingKeeps
<1>3. CASE Commit
  <2> DEFINE w == Head(job.todo)
  <2>1. Commits(w) /\ job.todo \in Seq(Writes) /\ job.todo # <<>> /\ w = job.todo[1]
    BY <1>3, CommitStep, JobFacts DEF Commits
  <2>2. Leaving(job'.todo) = {}
    BY <2>1, RestShape DEF PairInv, Commits
  <2>3. Leaving(job.todo) = IF w.do = "remove" THEN w.mems ELSE {}
    BY <2>1 DEF Leaving
  <2> HIDE DEF w
  <2>4. \A x \in Remains' : x.id \notin Ids(Leaving(job'.todo))
    BY <2>2, IdParts
  <2>5. ASSUME NEW x \in ToMove(job) PROVE ~Covering(x) /\ x.id \in Ids(store') \cup taken'
    <3>1. x.id \notin Ids(Leaving(job.todo))
      <4>1. job.op = "reflect"
        BY <2>5 DEF TidyInv
      <4>. QED BY <2>5, <4>1, ToMoveIsLasting DEF TidyInv
    <3>2. Ids(store) \subseteq Ids(store') \cup Ids(Leaving(job.todo))
      <4>1. \A M : Ids(Put(M)) = Ids(store) \cup Ids(M) /\ Ids(Without(M)) = Ids(store) \ Ids(M)
        BY RowsOfPut
      <4>. QED BY <2>1, <2>3, <4>1 DEF Commits
    <3>. QED BY <2>1, <2>5, <3>1, <3>2 DEF TidyInv, Commits
  <2>6. CASE job' = NoJob
    BY <1>1, <2>4, <2>6, MoveParts, NoJobIs DEF TidyInv
  <2>7. CASE JobKeeps
    <3>1. ToMove(job') = ToMove(job) /\ job'.op = job.op
      BY <2>7 DEF JobKeeps, ToMove
    <3>. QED BY <1>1, <2>4, <2>5, <3>1 DEF TidyInv, Ids
  <2>. QED BY <2>1, <2>6, <2>7 DEF Commits
<1>4. CASE Pass
  <2>1. /\ UNCHANGED <<store, ext, cross, now, taken, faults>> /\ job.todo = <<>>
        /\ job.op = "reflect" /\ job'.op = "reflect"
    BY <1>4, PassSteps
  <2>2. ASSUME NEW x \in ToMove(job') PROVE ~Covering(x) /\ x.id \in Ids(store) \cup taken
    <3>1. CASE x \in ToMove(job)
      BY <3>1 DEF TidyInv
    <3>2. CASE x \in store /\ x \in Aged(job.scope)
      <4>1. x \in Remains /\ \E r \in ext : r.id = x.id /\ r.tier \in {"episodic", "semantic"}
        BY <3>2, AllKnown DEF Aged, Hydrate, Ids
      <4>. QED BY <3>2, <4>1, IdParts DEF ListedInv
    <3>3. ASSUME x \in store, NEW a \in Stale, x \in Durable(a)
          PROVE  ~Covering(x) /\ x.id \in Ids(store) \cup taken
      <4>1. x.id \in a.sources /\ a \in store /\ Covering(a) /\ x \in Remains /\ a \in Remains
        BY <3>3, AllKnown DEF Durable, Stale, Covering
      <4>. QED BY <3>3, <4>1, IdParts DEF TidyInv
    <3>. QED BY <1>4, <3>1, <3>2, <3>3, PassMoves
  <2>3. Leaving(job'.todo) \in SUBSET store /\ \A m \in Leaving(job'.todo) : Covering(m) \/ IsScratch(m)
    <3>1. ASSUME NEW M \in SUBSET store, NEW from, NEW to, RemoveStep(from, to, M),
                 \A m \in M : Covering(m) \/ IsScratch(m)
          PROVE  Leaving(job'.todo) \in SUBSET store /\ \A m \in Leaving(job'.todo) : Covering(m) \/ IsScratch(m)
      <4>1. Leaving(job'.todo) = M
        BY <3>1, JobFacts, RemoveShape DEF RemoveStep, Shaped
      <4>. QED BY <3>1, <4>1
    <3>2. Expired(job.scope) \in SUBSET store /\ \A m \in Expired(job.scope) : IsScratch(m)
      BY DEF Expired, Hydrate
    <3>3. Stale \in SUBSET store /\ \A a \in Stale : Covering(a)
      <4>1. \A a : a.sources = {} => Durable(a) = {}
        BY DEF Durable
      <4>. QED BY <4>1, IdParts DEF Stale, Covering
    <3>4. Leaving(job'.todo) = {} \/ (\E from, to, M : M \in {Expired(job.scope), Stale} /\ RemoveStep(from, to, M))
      <4>1. \A g, a : FoldStep(g, a) => Leaving(job'.todo) = {}
        BY FoldShape DEF FoldStep, Shaped
      <4>2. \A m : MintStep(m) => Leaving(job'.todo) = {}
        BY DEF MintStep, Shaped
      <4>3. Advance \/ BatchStep \/ SelectStep \/ EndStep => Leaving(job'.todo) = {}
        BY NoShape, UncrossShape DEF Advance, BatchStep, SelectStep, EndStep, Shaped
      <4>. QED BY <1>4, <4>1, <4>2, <4>3, PassSteps
    <3>. QED BY <3>1, <3>2, <3>3, <3>4
  <2>4. \A x \in Remains' : x.id \in Ids(Leaving(job'.todo)) => Covering(x) \/ IsScratch(x)
    BY <1>2, <2>3
  <2>. QED BY <1>1, <2>1, <2>2, <2>4 DEF TidyInv, Ids
<1>5. CASE ElseStep
  <2>1. job' = job /\ store' \subseteq store /\ Ids(store) \subseteq Ids(store') \cup taken' /\ taken \subseteq taken'
    BY <1>5 DEF ElseStep, Without, Ids
  <2>2. Remains' \subseteq Remains
    BY <2>1 DEF Remains, Lasting, InWrites
  <2>3. ToMove(job') = ToMove(job)
    BY <2>1
  <2>. QED BY <1>1, <2>1, <2>2, <2>3 DEF TidyInv, Ids
<1>6. CASE CallStep \/ ReflectStep \/ DeathStep
  <2>1. ToMove(job') = {} /\ (job'.op = "reflect" => job'.todo = <<>>)
    BY <1>6, MoveParts, NoJobIs DEF CallStep, Started, ReflectStep, DeathStep
  <2>2. Ids(Leaving(<<>>)) = {}
    BY NoShape, IdParts DEF Shaped
  <2>. QED BY <1>1, <2>1, <2>2 DEF TidyInv, Ids
<1>7. CASE TickStep \/ UNCHANGED vars
  <2>1. job' = job /\ store' = store /\ taken' = taken
    BY <1>7 DEF TickStep, vars, files, past
  <2>2. Remains' = Remains /\ ToMove(job') = ToMove(job)
    BY <2>1 DEF Remains, Lasting, InWrites
  <2>. QED BY <2>1, <2>2 DEF TidyInv, Ids
<1>. QED BY <1>3, <1>4, <1>5, <1>6, <1>7, OtherSteps

\* A memory that stays durable where a fold puts its moved sources and summary.
LEMMA FoldRepairs ==
    ASSUME TiersInv, TidyInv, NEW g, NEW a, FoldStep(g, a), SoundNow(store)
    PROVE  SoundNow(Put(Moved(g) \cup {a}))
<1> DEFINE P == Moved(g) \cup {a}
<1>1. \A x \in g : x \in Memory /\ x \in Remains /\ ~IsScratch(x) /\ ~Covering(x) /\ x.id \in Ids(store) \cup taken
  <2>1. g \subseteq ToMove(job)
    BY MoveParts DEF FoldStep
  <2>. QED BY <2>1, ToMoveIsLasting DEF TidyInv
<1>2. \A c \in Moved(g) : \E x \in g : c.id = x.id /\ c.kind = x.kind /\ c.tier = "archival" /\ c.sources = x.sources
  <2>1. \A c \in Moved(g) : \E x \in g : c = [x EXCEPT !.tier = "archival"]
    BY DEF Moved
  <2>. QED BY <1>1, <2>1 DEF Memory
<1>3. \A c \in Moved(g) : ~IsScratch(c) /\ ~Covering(c)
  BY <1>1, <1>2 DEF IsScratch, Covering
<1>4. a.id = next /\ a.sources = Ids(g)
  BY DEF FoldStep
<1>5. \A m \in store : m.id # next
  BY AllKnown DEF TiersInv, StoreTyped
<1>6. \A m : m \in Put(P) <=> m \in P \/ (m \in store /\ m.id \notin Ids(P))
  BY PutNone
<1> HIDE DEF P
<1>7. ASSUME NEW m \in store, ~IsScratch(m) PROVE \E n \in Put(P) : n.id = m.id /\ ~IsScratch(n)
  <2>1. CASE m.id \notin Ids(P)
    BY <1>6, <1>7, <2>1
  <2>2. CASE m.id \in Ids(P)
    <3>1. PICK p \in P : p.id = m.id
      BY <2>2 DEF Ids
    <3>2. p \in Moved(g)
      BY <1>4, <1>5, <3>1 DEF P
    <3>. QED BY <1>3, <1>6, <3>1, <3>2
  <2>. QED BY <2>1, <2>2
<1>8. ASSUME NEW x \in g, x.id \notin taken PROVE \E m \in store : m.id = x.id /\ ~IsScratch(m)
  <2>1. PICK m \in store : m.id = x.id
    BY <1>1, <1>8 DEF Ids
  <2>. QED BY <1>1, <2>1, SameCovering, AllKnown
<1>9. ASSUME NEW b \in Put(P), b.kind = "archive", NEW i \in b.sources
      PROVE  i \in taken \/ \E m \in store : m.id = i /\ ~IsScratch(m)
  <2>1. CASE b \in store
    BY <1>9, <2>1 DEF SoundNow
  <2>2. CASE b \in Moved(g)
    BY <1>3, <1>9, <2>2 DEF Covering
  <2>3. CASE b = a
    BY <1>4, <1>8, <1>9, <2>3 DEF Ids
  <2>. QED BY <1>6, <2>1, <2>2, <2>3 DEF P
<1>. QED BY <1>7, <1>9 DEF SoundNow, P

LEMMA ComingIs ==
    /\ Putting(job.todo) = {} /\ Leaving(job.todo) = {} => Coming = store
    /\ Leaving(job.todo) = {} => Coming = Put(Putting(job.todo))
    /\ Putting(job.todo) = {} => Coming = {m \in store : m.id \notin Ids(Leaving(job.todo))}
<1>1. Ids({}) = {} /\ Put({}) = store
  BY PutNone, IdParts
<1>. QED BY <1>1 DEF Coming

LEMMA RepairedKeeps ==
    ASSUME DropInv, TidyInv, RepairedInv, [Next]_vars
    PROVE  RepairedInv'
<1> USE DEF DropInv
<1>1. ASSUME Coming' = Coming, taken' = taken, PastRepair' => PastRepair
      PROVE  RepairedInv'
  BY <1>1 DEF RepairedInv, SoundNow, IsScratch
<1>2. CASE Commit
  <2> DEFINE w == Head(job.todo)
  <2>1. Commits(w) /\ job.todo \in Seq(Writes) /\ job.todo # <<>> /\ w = job.todo[1]
    BY <1>2, CommitStep, JobFacts DEF Commits
  <2>2. Leaving(job'.todo) = {} /\ Putting(job'.todo) = {}
    BY <2>1, RestShape DEF PairInv, Commits
  <2>3. /\ Leaving(job.todo) = IF w.do = "remove" THEN w.mems ELSE {}
        /\ Putting(job.todo) = IF w.do = "put" THEN w.mems ELSE {}
    BY <2>1 DEF Leaving, Putting
  <2> HIDE DEF w
  <2>4. Coming = store'
    BY <2>1, <2>3, ComingIs DEF Commits, Without
  <2>5. Coming' = store'
    BY <2>2, IdParts DEF Coming, Put, Ids
  <2>6. PastRepair' => PastRepair
    BY <2>1, NoJobIs DEF Commits, JobKeeps, PastRepair
  <2>. QED BY <1>1, <2>1, <2>4, <2>5, <2>6 DEF Commits
<1>3. CASE Pass
  <2>1. /\ UNCHANGED <<store, ext, cross, now, taken, faults>> /\ job.todo = <<>> /\ job.op = "reflect"
    BY <1>3, PassSteps
  <2>2. Coming = store
    BY <2>1, NoShape, ComingIs DEF Shaped
  <2>3. \A P, L : Putting(job'.todo) = P /\ Leaving(job'.todo) = L
                     => Coming' = {m \in Put(P) : m.id \notin Ids(L)}
    BY <2>1 DEF Coming, Put, Ids
  <2>12. \A M : {m \in M : m.id \notin Ids({})} = M
    BY IdParts
  <2>4. ASSUME Putting(job'.todo) = {}, Leaving(job'.todo) = {}, PastRepair' => PastRepair \/ SoundNow(store)
        PROVE  RepairedInv'
    <3>1. Coming' = {m \in Put({}) : m.id \notin Ids({})}
      BY <2>3, <2>4
    <3>2. Coming' = store
      BY <2>12, <3>1, PutNone
    <3>. QED BY <2>1, <2>2, <2>4, <3>2 DEF RepairedInv, SoundNow, IsScratch
  <2>5. ASSUME NEW a \in store, a.kind = "archive", a \notin Stale, NEW i \in a.sources
        PROVE  \E m \in store : m.id = i /\ m \in Durable(a)
    BY <2>5 DEF Stale, Ids, Durable
  <2>6. CASE Advance
    <3>1. job.phase = "expire" => SoundNow(store)
      BY <2>5, <2>6 DEF Advance, SoundNow, Durable
    <3>2. PastRepair' => PastRepair \/ job.phase = "expire"
      BY <2>1, <2>6 DEF Advance, PastRepair
    <3>. QED BY <2>4, <2>6, <3>1, <3>2, NoShape DEF Advance, Shaped
  <2>7. CASE RemoveStep("expire", "repair", Expired(job.scope))
    BY <2>7 DEF RemoveStep, RepairedInv, PastRepair
  <2>8. CASE RemoveStep("repair", "rebuild", Stale)
    <3>1. Stale \in SUBSET Memory /\ Stale \subseteq store
      BY JobFacts DEF Stale
    <3>2. Shaped(job'.todo, {}, Stale, {}, {})
      BY <2>8, <3>1, RemoveShape DEF RemoveStep
    <3>3. Coming' = {m \in store : m.id \notin Ids(Stale)}
      BY <2>3, <3>2, PutNone DEF Shaped
    <3>4. ASSUME NEW a \in store, a.kind = "archive", a.id \notin Ids(Stale), NEW i \in a.sources
          PROVE  \E m \in store : m.id = i /\ ~IsScratch(m) /\ m.id \notin Ids(Stale)
      <4>1. PICK m \in store : m.id = i /\ m \in Durable(a)
        BY <2>5, <3>4, IdParts
      <4>2. Covering(a) /\ ~IsScratch(m) /\ a \in Remains /\ m \in Remains
        BY <3>4, <4>1, AllKnown DEF Covering, Durable
      <4>3. ASSUME NEW b \in Stale, b.id = m.id PROVE FALSE
        <5>1. Covering(b)
          <6>1. b.sources = {} => Durable(b) = {}
            BY DEF Durable
          <6>. QED BY <4>3, <6>1, IdParts DEF Stale, Covering
        <5>2. b \in Remains
          BY <3>1, <4>3, AllKnown
        <5>. QED BY <3>4, <4>1, <4>2, <4>3, <5>1, <5>2 DEF TidyInv
      <4>. QED BY <4>1, <4>2, <4>3 DEF Ids
    <3>. QED BY <2>1, <3>3, <3>4 DEF RepairedInv, SoundNow, IsScratch
  <2>9. ASSUME NEW g, NEW a, FoldStep(g, a) PROVE RepairedInv'
    <3>1. Shaped(job'.todo, Moved(g) \cup {a}, {}, {}, {})
      BY <2>9, FoldShape DEF FoldStep
    <3>2. Coming' = Put(Moved(g) \cup {a})
      <4>1. Putting(job'.todo) = Moved(g) \cup {a} /\ Leaving(job'.todo) = {}
        BY <3>1 DEF Shaped
      <4>2. Coming' = {m \in Put(Moved(g) \cup {a}) : m.id \notin Ids({})}
        BY <2>3, <4>1
      <4>. QED BY <2>12, <4>2
    <3>3. PastRepair' => PastRepair
      BY <2>1, <2>9 DEF FoldStep, PastRepair
    <3>4. PastRepair => SoundNow(Put(Moved(g) \cup {a}))
      BY <2>2, <2>9, FoldRepairs DEF RepairedInv
    <3>. QED BY <2>1, <3>2, <3>3, <3>4 DEF RepairedInv, SoundNow, IsScratch
  <2>10. CASE BatchStep \/ SelectStep \/ \E m : MintStep(m)
    BY <2>10 DEF BatchStep, SelectStep, MintStep, RepairedInv, PastRepair, Making
  <2>11. CASE EndStep
    BY <2>1, <2>4, <2>11, UncrossShape DEF EndStep, Shaped, PastRepair
  <2>. QED BY <1>3, <2>6, <2>7, <2>8, <2>9, <2>10, <2>11, PassSteps
<1>4. CASE ElseStep
  <2>1. PICK e \in store :
          /\ job' = job /\ store' = Without({e}) /\ taken' = taken \cup {e.id}
    BY <1>4 DEF ElseStep
  <2>2. Coming' = {m \in {x \in Without({e}) : x.id \notin Ids(Putting(job.todo))} \cup Putting(job.todo) :
                     m.id \notin Ids(Leaving(job.todo))}
    BY <2>1 DEF Coming, Put, Ids, Putting, Leaving
  <2>3. Coming' \subseteq Coming /\ \A m \in Coming : m \in Coming' \/ m.id = e.id
    BY <2>2 DEF Coming, Put, Without, Ids
  <2>4. PastRepair' = PastRepair
    BY <2>1 DEF PastRepair
  <2>. QED BY <2>1, <2>3, <2>4 DEF RepairedInv, SoundNow, IsScratch
<1>5. CASE CallStep \/ ReflectStep \/ DeathStep
  BY <1>5, NoJobIs DEF CallStep, Started, ReflectStep, DeathStep, RepairedInv, PastRepair
<1>6. CASE TickStep \/ UNCHANGED vars
  <2>1. job' = job /\ store' = store /\ taken' = taken
    BY <1>6 DEF TickStep, vars, files, past
  <2>2. Coming' = Coming
    BY <2>1 DEF Coming, Put, Ids, Putting, Leaving
  <2>. QED BY <1>1, <2>1, <2>2 DEF PastRepair
<1>. QED BY <1>2, <1>3, <1>4, <1>5, <1>6, OtherSteps

\* A pass that ends by itself, over whatever files the faults before it have left:
\* the expired scratch of its scope that the sidecar lists is gone, and what a
\* summary covers is there and durable, or was erased by another server.  The
\* summaries of older releases are archival, as their passes wrote them, and
\* cover no summary.
THEOREM PassesClean ==
    ASSUME TidyLegacy
    PROVE  Spec => PassCleans
<1>1. Init => TidyInv /\ RepairedInv
  <2> SUFFICES ASSUME Init PROVE TidyInv /\ RepairedInv
    OBVIOUS
  <2>1. store = Remains /\ job.op = "none" /\ ToMove(job) = {} /\ store \in Legacy
    BY NoJobIs, NoJobLasts, MoveParts DEF Init, Remains
  <2>. QED BY <2>1 DEF TidyInv, RepairedInv, PastRepair, TidyLegacy
<1>2. Spec => [](DropInv /\ TidyInv /\ RepairedInv)
  BY <1>1, TidyKeeps, RepairedKeeps, DropHolds, PTL DEF Spec
<1>3. ASSUME DropInv, RepairedInv, [Next]_vars, job.op = "reflect", job' = NoJob, faults' = faults
      PROVE  /\ \A m \in store' : IsScratch(m) /\ m.born <= now - TTL /\ InScope(job.scope, m)
                                     => m.id \in taken \/ m.id \notin Ids(ext')
             /\ SoundNow(store')
  <2> USE DEF DropInv
  <2>1. Commits(Head(job.todo)) /\ job.phase = "end"
    <3>1. Commit => Commits(Head(job.todo)) /\ job.phase = "end"
      <4>1. ASSUME Commit PROVE Commits(Head(job.todo)) /\ job.phase = "end"
        <5>1. Commits(Head(job.todo))
          BY <1>3, <4>1, CommitStep
        <5>. QED BY <1>3, <5>1, NoJobIs DEF Commits, JobKeeps
      <4>. QED BY <4>1
    <3>2. ~Pass
      BY <1>3, NoJobIs, PassSteps
    <3>3. job # NoJob /\ faults \in Nat
      BY <1>3, NoJobIs, BoundsAreNat DEF TiersInv, StoreTyped
    <3>4. ~(CallStep \/ ReflectStep \/ TickStep)
      BY <3>3 DEF CallStep, Started, ReflectStep, TickStep
    <3>5. ~(ElseStep \/ UNCHANGED vars)
      BY <1>3, <3>3 DEF ElseStep, vars
    <3>6. ~DeathStep
      BY <1>3, <3>3 DEF DeathStep
    <3>. QED BY <1>3, <3>1, <3>2, <3>4, <3>5, <3>6, OtherSteps
  <2>2. job.todo = <<Write("uncross", job.unsound)>> /\ job.round = 4 /\ job.todo[1].do = "uncross"
    BY <1>3, <2>1, FirstIsNotListing DEF PairInv
  <2>3. Leaving(job.todo) = {} /\ Putting(job.todo) = {}
    BY <2>2, UncrossShape DEF Shaped
  <2>4. store' = store /\ ext' = ext
    BY <2>1, <2>2 DEF Commits
  <2>5. PastFirstDrop /\ PastRepair /\ Ids({}) = {}
    BY <1>3, <2>1, IdParts DEF PastFirstDrop, PastRepair
  <2>6. \A m \in store : OldScratch(m) => m.id \notin Ids(ext)
    BY <1>3, <2>3, <2>5 DEF ScratchInv
  <2>7. SoundNow(store)
    BY <1>3, <2>3, <2>5, ComingIs DEF RepairedInv
  <2>. QED BY <2>4, <2>6, <2>7 DEF OldScratch
<1>4. DropInv /\ RepairedInv /\ [Next]_vars =>
        [(job.op = "reflect" /\ job' = NoJob /\ faults' = faults) =>
          /\ \A m \in store' : IsScratch(m) /\ m.born <= now - TTL /\ InScope(job.scope, m)
                                => m.id \in taken \/ m.id \notin Ids(ext')
          /\ \A a \in store' : a.kind = "archive" =>
                \A i \in a.sources : i \in taken \/ \E m \in store' : m.id = i /\ ~IsScratch(m)]_vars
  BY <1>3 DEF SoundNow
<1>. QED BY <1>2, <1>4, PTL DEF Spec, PassCleans
=============================================================================
