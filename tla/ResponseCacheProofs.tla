-------------------------- MODULE ResponseCacheProofs --------------------------
(***************************************************************************)
(* The response cache heals at every quiet bump, for any number of servers *)
(* and any mix of writers.                                                 *)
(***************************************************************************)
EXTENDS ResponseCache, TLAPS

\* While no request has overlapped a write since the last bump, everything
\* cached under the current version is current, and nothing is cached under it
\* while a run is still writing.
Healed ==
    quiet =>
        /\ writer # "evidence"
        /\ \A r \in l2 : r.version = version => r.answer = Current
        /\ \A s \in Servers :
              /\ seenVersion[s] = version /\ l1[s] # NoAnswer => l1[s] = Current
              /\ pc[s] \in {"l2", "dispatch", "reading", "store", "reply"}
                    => seenVersion[s] = version
              /\ pc[s] \in {"reading", "store", "reply"} => answer[s] = Current
        /\ writer = "indexing" =>
              /\ AllIdle
              /\ \A r \in l2 : r.version # version
              /\ \A s \in Servers : seenVersion[s] # version

CacheInv == CacheTypeOK /\ Healed

-----------------------------------------------------------------------------
LEMMA CurrentIsAnswer == CacheTypeOK => Current \in Answer /\ Current # NoAnswer
  BY NoAnswerIsNone DEF CacheTypeOK, Current, Answer

LEMMA InitHolds == Init => CacheInv
  BY BoundsAreNat, NoVersionIsNone
     DEF Init, CacheInv, CacheTypeOK, Healed, Answer, AllIdle

\* Requests keep the tables typed.
LEMMA ServeIsTyped ==
    ASSUME CacheTypeOK, NEW s \in Servers, Serve(s) \/ Restart(s)
    PROVE  CacheTypeOK'
<1> USE BoundsAreNat, NoVersionIsNone, NoAnswerIsNone DEF CacheTypeOK, db, servers
<1>1. CASE CheckFileTime(s)
  BY <1>1 DEF CheckFileTime
<1>2. CASE CheckVersion(s)
  <2>1. FirstLevel(s) \in Answer \cup {NoAnswer}
    BY DEF FirstLevel
  <2>. QED BY <1>2, <2>1 DEF CheckVersion
<1>3. CASE LookUp(s)
  BY <1>3 DEF LookUp, SecondLevel
<1>4. CASE BeginAnswer(s)
  BY <1>4, CurrentIsAnswer DEF BeginAnswer
<1>5. CASE EndAnswer(s)
  <2>1. answer[s] \in Answer
    BY <1>5 DEF EndAnswer
  <2>2. [answer[s] EXCEPT !.to = graph] \in Answer
    BY <2>1 DEF Answer
  <2>. QED BY <1>5, <2>2 DEF EndAnswer
<1>6. CASE Store(s)
  <2>1. answer[s] \in Answer
    BY <1>6 DEF Store
  <2>2. Stored(answer[s]) \in SUBSET [version : 0..version, answer : Answer]
    BY <2>1 DEF Stored
  <2>3. \A q, r \in Stored(answer[s]) : q.version = r.version => q = r
    BY DEF Stored
  <2>. QED BY <1>6, <2>2, <2>3 DEF Store
<1>7. CASE Reply(s)
  BY <1>7 DEF Reply
<1>8. CASE Restart(s)
  BY <1>8 DEF Restart
<1>. QED BY <1>1, <1>2, <1>3, <1>4, <1>5, <1>6, <1>7, <1>8 DEF Serve

\* Writers keep the tables typed.
LEMMA WriteIsTyped ==
    ASSUME CacheTypeOK, WriteGraph \/ Checkpoint
    PROVE  CacheTypeOK'
<1> USE BoundsAreNat, NoVersionIsNone DEF CacheTypeOK, db, servers
<1>1. AllIdle \in BOOLEAN
  BY DEF AllIdle
<1>2. ASSUME version < MaxVersion, version' = version + 1, writer' \in {"idle", "indexing"},
             quiet' = AllIdle, UNCHANGED <<graph, fileTime, l2, servers>>
      PROVE  CacheTypeOK'
  <2>1. version' \in 0..MaxVersion /\ 0..version \subseteq 0..version'
    BY <1>2
  <2>2. l2' \in SUBSET [version : 0..version', answer : Answer]
    BY <1>2, <2>1
  <2>3. seenVersion' \in [Servers -> 0..version' \cup {NoVersion}]
    BY <1>2, <2>1
  <2>. QED BY <1>1, <1>2, <2>1, <2>2, <2>3
<1>3. CASE StartRun
  BY <1>2, <1>3 DEF StartRun
<1>4. CASE CommitBatch
  BY <1>4 DEF CommitBatch
<1>5. CASE EndRun
  BY <1>5 DEF EndRun
<1>6. CASE ApplyEvidence
  <2>1. graph' \in 0..MaxRevision
    BY <1>6 DEF ApplyEvidence
  <2>2. quiet' \in BOOLEAN
    BY <1>6 DEF ApplyEvidence
  <2>. QED BY <1>6, <2>1, <2>2 DEF ApplyEvidence
<1>7. CASE BumpAfterEvidence
  BY <1>2, <1>7 DEF BumpAfterEvidence
<1>8. CASE WriteUnversioned
  <2>1. graph' \in 0..MaxRevision
    BY <1>8 DEF WriteUnversioned
  <2>2. quiet' \in BOOLEAN
    BY <1>8 DEF WriteUnversioned
  <2>. QED BY <1>8, <2>1, <2>2 DEF WriteUnversioned
<1>9. CASE Checkpoint
  BY <1>9 DEF Checkpoint
<1>. QED BY <1>3, <1>4, <1>5, <1>6, <1>7, <1>8, <1>9 DEF WriteGraph

\* A request leaves what is cached healed.
LEMMA ServeStaysHealed ==
    ASSUME CacheInv, NEW s \in Servers, Serve(s) \/ Restart(s)
    PROVE  Healed'
<1> SUFFICES ASSUME quiet' PROVE Healed'
  BY DEF Healed
<1> USE NoAnswerIsNone, NoVersionIsNone, BoundsAreNat DEF CacheInv, CacheTypeOK, db, servers
<1>1. CASE CheckFileTime(s)
  BY <1>1 DEF CheckFileTime, Healed, Current, AllIdle
<1>2. CASE CheckVersion(s)
  BY <1>2 DEF CheckVersion, FirstLevel, Healed, Current, AllIdle
<1>3. CASE LookUp(s)
  BY <1>3 DEF LookUp, SecondLevel, Healed, Current, AllIdle
<1>4. CASE BeginAnswer(s)
  BY <1>4 DEF BeginAnswer, Healed, Current, AllIdle
<1>5. CASE EndAnswer(s)
  BY <1>5 DEF EndAnswer, Healed, Current, AllIdle
<1>6. CASE Store(s)
  BY <1>6 DEF Store, Stored, Healed, Current, AllIdle
<1>7. CASE Reply(s)
  BY <1>7 DEF Reply, Healed, Current, AllIdle
<1>8. CASE Restart(s)
  BY <1>8 DEF Restart, Healed, Current, AllIdle
<1>. QED BY <1>1, <1>2, <1>3, <1>4, <1>5, <1>6, <1>7, <1>8 DEF Serve

\* So does a writer: a quiet bump leaves nothing cached under its version.
LEMMA WriteStaysHealed ==
    ASSUME CacheInv, WriteGraph \/ Checkpoint
    PROVE  Healed'
<1> SUFFICES ASSUME quiet' PROVE Healed'
  BY DEF Healed
<1> USE NoVersionIsNone, BoundsAreNat DEF CacheInv, CacheTypeOK, db, servers
<1>1. ASSUME AllIdle, version' = version + 1, UNCHANGED <<l2, servers>>,
             writer' \in {"idle", "indexing"}
      PROVE  Healed'
  BY <1>1 DEF Healed, AllIdle
<1>3. CASE StartRun
  BY <1>1, <1>3 DEF StartRun
<1>4. CASE CommitBatch
  BY <1>4 DEF CommitBatch, Healed, Current, AllIdle
<1>5. CASE EndRun
  BY <1>5 DEF EndRun, Healed, Current, AllIdle
<1>6. CASE ApplyEvidence
  BY <1>6 DEF ApplyEvidence
<1>7. CASE BumpAfterEvidence
  BY <1>1, <1>7 DEF BumpAfterEvidence
<1>8. CASE WriteUnversioned
  BY <1>8 DEF WriteUnversioned
<1>9. CASE Checkpoint
  BY <1>9 DEF Checkpoint, Healed, Current, AllIdle
<1>. QED BY <1>3, <1>4, <1>5, <1>6, <1>7, <1>8, <1>9 DEF WriteGraph

LEMMA CacheInvHolds == Spec => []CacheInv
<1>1. CacheInv /\ [Next]_vars => CacheInv'
  <2> SUFFICES ASSUME CacheInv, [Next]_vars PROVE CacheInv'
    OBVIOUS
  <2>1. ASSUME NEW s \in Servers, Serve(s) \/ Restart(s) PROVE CacheInv'
    BY <2>1, ServeIsTyped, ServeStaysHealed DEF CacheInv
  <2>2. CASE WriteGraph \/ Checkpoint
    BY <2>2, WriteIsTyped, WriteStaysHealed DEF CacheInv
  <2>3. CASE UNCHANGED vars
    BY <2>3 DEF vars, db, servers, CacheInv, CacheTypeOK, Healed, Current, AllIdle
  <2>. QED BY <2>1, <2>2, <2>3 DEF Next
<1>. QED BY InitHolds, <1>1, PTL DEF Spec

\* The cache table never holds two answers under one version (its primary key,
\* cache_put) nor a version from the future, with any number of servers.
THEOREM CacheTypeCorrect == Spec => []CacheTypeOK
  BY CacheInvHolds, PTL DEF CacheInv

\* Whatever went stale before, a bump that no request overlaps makes every
\* later reply current: cache_get reads the current version only, and L1 is
\* cleared when the version moves.
THEOREM QuietBumpsHeal == Spec => []QuietBumpHeals
<1>1. CacheInv => QuietBumpHeals
  BY DEF CacheInv, Healed, QuietBumpHeals
<1>. QED BY CacheInvHolds, <1>1, PTL
=============================================================================
