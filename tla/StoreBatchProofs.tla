--------------------------- MODULE StoreBatchProofs ---------------------------
(***************************************************************************)
(* For any number of clients and servers, any rows and any units: a batch   *)
(* becomes visible whole or not at all, as long as every client rolls back  *)
(* or exits when it meets an error.                                         *)
(***************************************************************************)
EXTENDS StoreBatch, TLAPS

\* What the type invariant leaves unsaid: a transaction that has written
\* nothing still owes all of its client's unit.
Ongoing ==
    /\ unit \in [Clients -> Units \cup {{}}] /\ left \in [Clients -> SUBSET Keys]
    /\ \A c \in Clients :
          pc[c] = "work" =>
              /\ unit[c] \in Units
              /\ tx[c] \in {"open", "read"} => left[c] = unit[c]

TypedInv == BatchTypeOK /\ Ongoing

\* index exits and the knowledge engine rolls back; watch alone goes on.
NoneGoesOn == \A c \in Clients : OnError[c] # "continue"

\* A unit is written inside a transaction of its own, and between two there is none.
OwnTransaction ==
    \A c \in Clients :
        /\ pc[c] = "idle" => tx[c] = "none" /\ ~inBatch[c]
        /\ pc[c] = "work" => tx[c] # "none" /\ inBatch[c]

\* A writer sees the committed rows with the written part of its unit over them;
\* a snapshot nobody has written past is the committed rows.
ViewsAreDisk ==
    \A c \in Clients :
        /\ tx[c] = "write" =>
              /\ unit[c] \in Units
              /\ view[c] = [k \in Keys |->
                    IF k \in unit[c] \ left[c] THEN [by |-> c, unit |-> unit[c]] ELSE disk[k]]
        /\ tx[c] = "read" /\ ~stale[c] => view[c] = disk

WholeInv == TypedInv /\ OwnTransaction /\ ViewsAreDisk

-----------------------------------------------------------------------------
(* Typing. *)

LEMMA RowsAreTyped ==
    ASSUME NEW rows \in [Keys -> Value], NEW k \in Keys,
           NEW w \in Clients \cup Servers, NEW u \in SUBSET Keys
    PROVE  [rows EXCEPT ![k] = [by |-> w, unit |-> u]] \in [Keys -> Value]
  BY DEF Value

LEMMA BlankIsTyped == Blank \in [Keys -> Value]
  BY DEF Blank, Value

LEMMA DiscardIsTyped ==
    ASSUME TypedInv, NEW c \in Clients, Discard(c)
    PROVE  /\ disk' \in [Keys -> Value] /\ view' \in [Clients -> [Keys -> Value]]
           /\ tx' \in [Clients -> {"none", "open", "read", "write"}]
           /\ lock' \in Clients \cup {Nobody}
           /\ \A d \in Clients : lock' = d <=> tx'[d] = "write"
           /\ stale' \in [Clients -> BOOLEAN]
           /\ tx'[c] = "none" /\ \A d \in Clients : d # c => tx'[d] = tx[d]
  BY BlankIsTyped, NobodyIsNoClient DEF TypedInv, BatchTypeOK, Discard

LEMMA PublishIsTyped ==
    ASSUME NEW c, NEW rows \in [Keys -> Value], Publish(c, rows)
    PROVE  disk' \in [Keys -> Value] /\ stale' \in [Clients -> BOOLEAN]
<1>1. \A d \in Clients : (d # c /\ tx[d] \in {"read", "write"}) \in BOOLEAN
  OBVIOUS
<1>2. stale' \in [Clients -> BOOLEAN]
  BY <1>1, Zenon DEF Publish
<1>. QED BY <1>2 DEF Publish

LEMMA InitIsTyped == Init => TypedInv
  BY BlankIsTyped, NobodyIsNoClient DEF Init, TypedInv, BatchTypeOK, Ongoing

LEMMA StepIsTyped ==
    ASSUME TypedInv, NEW c \in Clients, Step(c)
    PROVE  TypedInv'
<1> USE DEF TypedInv, BatchTypeOK, Ongoing, engine, client, counts
<1>1. ASSUME NEW u \in Units, Begin(c, u) PROVE TypedInv'
  BY <1>1, UnitsAreRows DEF Begin
<1>2. CASE Look(c)
  BY <1>2 DEF Look
<1>3. ASSUME NEW k \in Keys, Write(c, k) PROVE TypedInv'
  <2>1. unit[c] \in SUBSET Keys
    BY UnitsAreRows
  <2>2. \A rows \in [Keys -> Value] : Written(c, rows, k) \in [Keys -> Value]
    BY <2>1, RowsAreTyped DEF Written
  <2>3. CASE tx[c] = "none"
    <3>1. Publish(c, Written(c, disk, k)) /\ UNCHANGED <<lock, tx, view>>
      BY <1>3, <2>3 DEF Write
    <3>2. disk' \in [Keys -> Value] /\ stale' \in [Clients -> BOOLEAN]
      BY <2>2, <3>1, PublishIsTyped
    <3>. QED BY <1>3, <2>3, <3>1, <3>2 DEF Write
  <2>4. CASE tx[c] # "none"
    <3>1. view' \in [Clients -> [Keys -> Value]]
      BY <1>3, <2>2, <2>4, SMTT(30) DEF Write
    <3>2. lock \in {Nobody, c}
      BY <1>3 DEF Write, Refusable
    <3>3. \A d \in Clients : lock' = d <=> tx'[d] = "write"
      BY <1>3, <2>4, <3>2, NobodyIsNoClient DEF Write
    <3>. QED BY <1>3, <2>4, <3>1, <3>3 DEF Write
  <2>. QED BY <2>3, <2>4
<1>4. CASE Refused(c)
  BY <1>4 DEF Refused, Fails
<1>5. CASE Commit(c)
  <2>1. CASE tx[c] = "none"
    <3>1. inBatch' = inBatch
      BY <1>5, <2>1 DEF Commit, BatchAfterFailedCommit
    <3>2. pc' = [pc EXCEPT ![c] = "failed"] /\ UNCHANGED <<engine, unit, left, owed>>
      BY <1>5, <2>1 DEF Commit, Fails
    <3>. QED BY <3>1, <3>2
  <2>2. CASE tx[c] # "none"
    <3>1. tx[c] = "write"
      <4>1. pc[c] = "work" /\ left[c] = {}
        BY <1>5, Zenon DEF Commit
      <4>2. tx[c] \notin {"open", "read"}
        <5>1. unit[c] \in Units /\ (tx[c] \in {"open", "read"} => left[c] = unit[c])
          BY <4>1
        <5>2. {} \notin Units
          BY UnitsAreRows, Zenon
        <5>. QED BY <4>1, <5>1, <5>2, Zenon
      <4>. QED BY <2>2, <4>2
    <3>2. lock = c /\ \A d \in Clients : d # c => tx[d] # "write"
      BY <3>1
    <3>3. disk' \in [Keys -> Value] /\ stale' \in [Clients -> BOOLEAN]
      BY <1>5, <2>2, PublishIsTyped DEF Commit
    <3>4. view' \in [Clients -> [Keys -> Value]]
      BY <1>5, <2>2, BlankIsTyped DEF Commit
    <3>5. tx' = [tx EXCEPT ![c] = "none"] /\ lock' = Nobody
      BY <1>5, <2>2 DEF Commit
    <3>6. /\ inBatch' = [inBatch EXCEPT ![c] = FALSE] /\ owed' = [owed EXCEPT ![c] = 0]
          /\ pc' = [pc EXCEPT ![c] = "idle"] /\ UNCHANGED <<unit, left>>
      BY <1>5, <2>2 DEF Commit
    <3>7. \A d \in Clients : lock' = d <=> tx'[d] = "write"
      BY <3>2, <3>5, NobodyIsNoClient
    <3>8. inBatch' \in [Clients -> BOOLEAN] /\ \A d \in Clients : ~inBatch'[d] => tx'[d] = "none"
      BY <3>5, <3>6
    <3>. QED BY <3>3, <3>4, <3>5, <3>6, <3>7, <3>8
  <2>. QED BY <2>1, <2>2
<1>6. CASE Recover(c)
  <2>1. CASE Discard(c) /\ inBatch' = [inBatch EXCEPT ![c] = FALSE]
    BY <1>6, <2>1, DiscardIsTyped DEF Recover
  <2>2. CASE UNCHANGED <<engine, inBatch>>
    BY <1>6, <2>2 DEF Recover
  <2>. QED BY <1>6, <2>1, <2>2, ErrorsAreHandled DEF Recover, RollbackBatch
<1>. QED BY <1>1, <1>2, <1>3, <1>4, <1>5, <1>6 DEF Step

LEMMA OthersStayTyped ==
    ASSUME TypedInv,
           \/ \E c \in Clients : Ask(c) \/ StatementFails(c) \/ EngineAborts(c) \/ Crash(c)
           \/ \E s \in Servers, k \in Keys : CachePut(s, k)
    PROVE  TypedInv'
<1> USE DEF TypedInv, BatchTypeOK, Ongoing, engine, client, counts
<1>1. ASSUME NEW c \in Clients, Ask(c) PROVE TypedInv'
  BY <1>1 DEF Ask
<1>2. ASSUME NEW c \in Clients, StatementFails(c) PROVE TypedInv'
  BY <1>2 DEF StatementFails, Fails, BatchAfterFailedCommit
<1>3. ASSUME NEW c \in Clients, EngineAborts(c) PROVE TypedInv'
  BY <1>3, DiscardIsTyped DEF EngineAborts, Fails
<1>4. ASSUME NEW c \in Clients, Crash(c) PROVE TypedInv'
  BY <1>4, DiscardIsTyped DEF Crash
<1>5. ASSUME NEW s \in Servers, NEW k \in Keys, CachePut(s, k) PROVE TypedInv'
  <2>1. [disk EXCEPT ![k] = [by |-> s, unit |-> {k}]] \in [Keys -> Value]
    BY RowsAreTyped
  <2>2. disk' \in [Keys -> Value] /\ stale' \in [Clients -> BOOLEAN]
    BY <1>5, <2>1, PublishIsTyped DEF CachePut
  <2>. QED BY <1>5, <2>2 DEF CachePut
<1>. QED BY <1>1, <1>2, <1>3, <1>4, <1>5

LEMMA TypedInvHolds == Spec => []TypedInv
<1>1. TypedInv /\ [Next]_vars => TypedInv'
  <2> SUFFICES ASSUME TypedInv, [Next]_vars PROVE TypedInv'
    OBVIOUS
  <2>1. CASE UNCHANGED vars
    BY <2>1 DEF vars, engine, client, counts, TypedInv, BatchTypeOK, Ongoing
  <2>. QED BY <2>1, StepIsTyped, OthersStayTyped DEF Next
<1>. QED BY InitIsTyped, <1>1, PTL DEF Spec

\* One transaction at a time holds the write lock, and a client that takes no
\* batch to be open has no transaction, whatever the clients do with an error:
\* in_batch only ever lags behind the engine in the safe direction.
THEOREM BatchTypeCorrect == Spec => []BatchTypeOK
  BY TypedInvHolds, PTL DEF TypedInv

-----------------------------------------------------------------------------
(* Whole units. *)

\* The transaction of c is over and it holds nothing; the others see no change.
Over(c) ==
    /\ tx' = [tx EXCEPT ![c] = "none"]
    /\ UNCHANGED <<disk, unit, left>>
    /\ \A d \in Clients : d # c => view'[d] = view[d] /\ stale'[d] = stale[d]

LEMMA DiscardEndsIt ==
    ASSUME TypedInv, NEW c \in Clients, Discard(c), UNCHANGED <<unit, left>>
    PROVE  Over(c)
  BY DEF TypedInv, BatchTypeOK, Discard, Over

\* Ending a transaction keeps what the others see.
LEMMA OverKeepsViews ==
    ASSUME TypedInv, ViewsAreDisk, NEW c \in Clients, Over(c)
    PROVE  ViewsAreDisk'
  BY DEF TypedInv, BatchTypeOK, ViewsAreDisk, Over

\* A commit with the lock in hand, or with no lock taken, meets no other writer.
LEMMA PublishKeepsViews ==
    ASSUME TypedInv, ViewsAreDisk, NEW c, NEW rows, Publish(c, rows),
           UNCHANGED <<unit, left>>,
           \A d \in Clients : d # c => tx[d] # "write" /\ tx'[d] = tx[d] /\ view'[d] = view[d],
           c \in Clients => tx'[c] = "none"
    PROVE  ViewsAreDisk'
<1> SUFFICES ASSUME NEW d \in Clients
             PROVE  /\ tx'[d] # "write"
                    /\ ~(tx'[d] = "read" /\ ~stale'[d])
  BY DEF ViewsAreDisk
<1>1. CASE d = c
  BY <1>1
<1>2. CASE d # c
  <2>1. tx'[d] = tx[d] /\ tx[d] # "write"
    BY <1>2
  <2>2. tx[d] = "read" => stale'[d]
    BY <1>2 DEF Publish
  <2>. QED BY <2>1, <2>2
<1>. QED BY <1>1, <1>2

LEMMA WriteShowsTheUnit ==
    ASSUME WholeInv, NEW c \in Clients, NEW k \in Keys, Write(c, k)
    PROVE  OwnTransaction' /\ ViewsAreDisk'
<1> DEFINE Laid(rows, u, l) ==
        [q \in Keys |-> IF q \in u \ l THEN [by |-> c, unit |-> u] ELSE rows[q]]
<1> USE DEF WholeInv, TypedInv
<1>1. /\ pc[c] = "work" /\ k \in left[c] /\ tx[c] # "none" /\ unit[c] \in Units
      /\ ~(tx[c] = "read" /\ stale[c])
      /\ left' = [left EXCEPT ![c] = @ \ {k}] /\ tx' = [tx EXCEPT ![c] = "write"]
      /\ view' = [view EXCEPT ![c] = Written(c, IF tx[c] = "open" THEN disk ELSE view[c], k)]
      /\ UNCHANGED <<disk, stale, inBatch, pc, unit>>
  BY DEF Write, Refusable, OwnTransaction, Ongoing
<1>2. /\ tx \in [Clients -> {"none", "open", "read", "write"}]
      /\ left \in [Clients -> SUBSET Keys] /\ view \in [Clients -> [Keys -> Value]]
      /\ disk \in [Keys -> Value] /\ left[c] \subseteq unit[c]
  BY DEF BatchTypeOK, Ongoing
<1>3. OwnTransaction'
  BY <1>1, <1>2 DEF OwnTransaction
<1>4. PICK rows \in [Keys -> Value] :
         /\ rows = (IF tx[c] = "open" THEN disk ELSE view[c])
         /\ rows = Laid(disk, unit[c], left[c])
  <2>1. CASE tx[c] = "write"
    BY <1>2, <2>1 DEF ViewsAreDisk
  <2>2. CASE tx[c] \in {"open", "read"}
    <3>1. left[c] = unit[c]
      BY <1>1, <2>2 DEF Ongoing
    <3>2. disk = Laid(disk, unit[c], left[c])
      BY <1>2, <3>1
    <3>3. (IF tx[c] = "open" THEN disk ELSE view[c]) = disk
      BY <1>1, <2>2 DEF ViewsAreDisk
    <3>. QED BY <1>2, <3>2, <3>3
  <2>. QED BY <1>1, <1>2, <2>1, <2>2
<1>5. Written(c, rows, k) = Laid(disk, unit[c], left[c] \ {k})
  <2>1. Written(c, rows, k) = [rows EXCEPT ![k] = [by |-> c, unit |-> unit[c]]]
    BY DEF Written
  <2>2. \A q \in Keys : q \in unit[c] \ (left[c] \ {k}) <=> q = k \/ q \in unit[c] \ left[c]
    BY <1>1, <1>2
  <2>. QED BY <1>2, <1>4, <2>1, <2>2
<1>6. view'[c] = Laid(disk', unit'[c], left'[c]) /\ unit'[c] \in Units /\ tx'[c] = "write"
  BY <1>1, <1>2, <1>4, <1>5
<1>7. \A d \in Clients : d # c =>
         /\ view'[d] = view[d] /\ left'[d] = left[d] /\ unit'[d] = unit[d]
         /\ tx'[d] = tx[d] /\ stale'[d] = stale[d]
  BY <1>1, <1>2
<1>8. ASSUME NEW d \in Clients
      PROVE /\ tx'[d] = "write" =>
                  /\ unit'[d] \in Units
                  /\ view'[d] = [q \in Keys |->
                        IF q \in unit'[d] \ left'[d] THEN [by |-> d, unit |-> unit'[d]]
                        ELSE disk'[q]]
            /\ tx'[d] = "read" /\ ~stale'[d] => view'[d] = disk'
  <2>1. CASE d = c
    BY <1>6, <2>1
  <2>2. CASE d # c
    BY <1>1, <1>7, <2>2 DEF ViewsAreDisk
  <2>. QED BY <2>1, <2>2
<1>. QED BY <1>3, <1>8 DEF ViewsAreDisk

\* What COMMIT makes visible is the unit, over the rows that were there.
LEMMA CommitShowsTheUnit ==
    ASSUME WholeInv, NEW c \in Clients, Commit(c)
    PROVE  /\ OwnTransaction' /\ ViewsAreDisk'
           /\ unit[c] \in Units
           /\ disk' = [k \in Keys |->
                 IF k \in unit[c] THEN [by |-> c, unit |-> unit[c]] ELSE disk[k]]
<1> USE DEF WholeInv, TypedInv
<1>1. pc[c] = "work" /\ left[c] = {} /\ tx[c] # "none" /\ unit[c] \in Units
  BY DEF Commit, OwnTransaction, Ongoing
<1>2. /\ Publish(c, view[c])
      /\ tx' = [tx EXCEPT ![c] = "none"] /\ view' = [view EXCEPT ![c] = Blank]
      /\ inBatch' = [inBatch EXCEPT ![c] = FALSE] /\ pc' = [pc EXCEPT ![c] = "idle"]
      /\ UNCHANGED <<unit, left>>
  BY <1>1 DEF Commit
<1>3. /\ tx \in [Clients -> {"none", "open", "read", "write"}]
      /\ view \in [Clients -> [Keys -> Value]] /\ inBatch \in [Clients -> BOOLEAN]
      /\ pc \in [Clients -> {"idle", "work", "failed"}]
  BY DEF BatchTypeOK
<1>4. tx[c] = "write"
  <2>1. tx[c] \in {"open", "read"} => left[c] = unit[c]
    BY <1>1 DEF Ongoing
  <2>2. {} \notin Units
    BY UnitsAreRows, Zenon
  <2>3. tx[c] \notin {"open", "read"}
    BY <1>1, <2>1, <2>2, Zenon
  <2>. QED BY <1>1, <1>3, <2>3
<1>5. disk' = [k \in Keys |-> IF k \in unit[c] THEN [by |-> c, unit |-> unit[c]] ELSE disk[k]]
  BY <1>1, <1>2, <1>4 DEF Publish, ViewsAreDisk
<1>6. OwnTransaction'
  BY <1>2, <1>3 DEF OwnTransaction
<1>7. \A d \in Clients : d # c => tx[d] # "write"
  BY <1>4 DEF BatchTypeOK
<1>8. ViewsAreDisk'
  BY <1>2, <1>3, <1>7, PublishKeepsViews
<1>. QED BY <1>1, <1>5, <1>6, <1>8

LEMMA StepStaysWhole ==
    ASSUME NoneGoesOn, WholeInv, NEW c \in Clients, Step(c)
    PROVE  OwnTransaction' /\ ViewsAreDisk'
<1> USE DEF WholeInv, TypedInv, BatchTypeOK, engine, client, counts
<1>1. ASSUME NEW u \in Units, Begin(c, u) PROVE OwnTransaction' /\ ViewsAreDisk'
  BY <1>1 DEF Begin, OwnTransaction, ViewsAreDisk, Ongoing
<1>2. CASE Look(c)
  BY <1>2 DEF Look, OwnTransaction, ViewsAreDisk
<1>3. CASE Refused(c)
  BY <1>3 DEF Refused, Fails, OwnTransaction, ViewsAreDisk
<1>4. CASE Recover(c)
  <2>1. CASE Discard(c) /\ inBatch' = [inBatch EXCEPT ![c] = FALSE]
    <3>1. Over(c)
      BY <1>4, <2>1, DiscardEndsIt DEF Recover
    <3>2. ViewsAreDisk'
      BY <3>1, OverKeepsViews
    <3>3. OwnTransaction'
      BY <1>4, <2>1, <3>1 DEF Recover, OwnTransaction, Over
    <3>. QED BY <3>2, <3>3
  <2>2. CASE ~inBatch[c] /\ UNCHANGED <<engine, inBatch>>
    BY <1>4, <2>2 DEF Recover, OwnTransaction, ViewsAreDisk
  <2>3. OnError[c] \in {"rollback", "exit"}
    BY ErrorsAreHandled DEF NoneGoesOn
  <2>. QED BY <1>4, <2>1, <2>2, <2>3 DEF Recover, RollbackBatch
<1>. QED BY <1>1, <1>2, <1>3, <1>4, WriteShowsTheUnit, CommitShowsTheUnit DEF Step

LEMMA OthersStayWhole ==
    ASSUME WholeInv,
           \/ \E c \in Clients : Ask(c) \/ StatementFails(c) \/ EngineAborts(c) \/ Crash(c)
           \/ \E s \in Servers, k \in Keys : CachePut(s, k)
    PROVE  OwnTransaction' /\ ViewsAreDisk'
<1> USE DEF WholeInv, TypedInv, BatchTypeOK, engine, client, counts
<1>1. ASSUME NEW c \in Clients, Ask(c) PROVE OwnTransaction' /\ ViewsAreDisk'
  BY <1>1 DEF Ask, OwnTransaction, ViewsAreDisk
<1>2. ASSUME NEW c \in Clients, StatementFails(c) PROVE OwnTransaction' /\ ViewsAreDisk'
  BY <1>2 DEF StatementFails, Fails, BatchAfterFailedCommit, OwnTransaction, ViewsAreDisk
<1>3. ASSUME NEW c \in Clients, EngineAborts(c) PROVE OwnTransaction' /\ ViewsAreDisk'
  <2>1. Over(c)
    BY <1>3, DiscardEndsIt DEF EngineAborts
  <2>2. OwnTransaction'
    BY <1>3, <2>1 DEF EngineAborts, Fails, OwnTransaction, Over
  <2>. QED BY <2>1, <2>2, OverKeepsViews
<1>4. ASSUME NEW c \in Clients, Crash(c) PROVE OwnTransaction' /\ ViewsAreDisk'
  <2>1. Over(c)
    BY <1>4, DiscardEndsIt DEF Crash
  <2>2. OwnTransaction'
    BY <1>4, <2>1 DEF Crash, OwnTransaction, Over
  <2>. QED BY <2>1, <2>2, OverKeepsViews
<1>5. ASSUME NEW s \in Servers, NEW k \in Keys, CachePut(s, k)
      PROVE  OwnTransaction' /\ ViewsAreDisk'
  <2>1. s \notin Clients
    BY ServersHaveNoBatches
  <2>2. \A c \in Clients : tx[c] # "write"
    BY <1>5, NobodyIsNoClient DEF CachePut
  <2>3. ViewsAreDisk'
    BY <1>5, <2>1, <2>2, PublishKeepsViews DEF CachePut
  <2>. QED BY <1>5, <2>3 DEF CachePut, OwnTransaction
<1>. QED BY <1>1, <1>2, <1>3, <1>4, <1>5

LEMMA WholeInvHolds ==
    ASSUME NoneGoesOn PROVE Spec => []WholeInv
<1>1. Init => WholeInv
  <2>1. ASSUME Init PROVE OwnTransaction /\ ViewsAreDisk
    BY <2>1 DEF Init, OwnTransaction, ViewsAreDisk
  <2>. QED BY <2>1, InitIsTyped DEF WholeInv
<1>2. WholeInv /\ [Next]_vars => WholeInv'
  <2> SUFFICES ASSUME WholeInv, [Next]_vars PROVE WholeInv'
    OBVIOUS
  <2>1. TypedInv'
    <3>1. CASE UNCHANGED vars
      BY <3>1 DEF vars, engine, client, counts, WholeInv, TypedInv, BatchTypeOK, Ongoing
    <3>. QED BY <3>1, StepIsTyped, OthersStayTyped DEF Next, WholeInv
  <2>2. OwnTransaction' /\ ViewsAreDisk'
    <3>1. CASE UNCHANGED vars
      BY <3>1 DEF vars, engine, client, counts, WholeInv, OwnTransaction, ViewsAreDisk
    <3>2. ASSUME NEW c \in Clients, Ask(c) \/ StatementFails(c) \/ EngineAborts(c) \/ Crash(c)
          PROVE  OwnTransaction' /\ ViewsAreDisk'
      BY <3>2, OthersStayWhole
    <3>. QED BY <3>1, <3>2, StepStaysWhole, OthersStayWhole DEF Next
  <2>. QED BY <2>1, <2>2 DEF WholeInv
<1>. QED BY <1>1, <1>2, PTL DEF Spec

\* Only COMMIT and a server's single statement change what is visible.
LEMMA OnlyCommitsShow ==
    ASSUME WholeInv, Next, disk' # disk
    PROVE  \/ \E c \in Clients : Commit(c)
           \/ \E s \in Servers, k \in Keys : CachePut(s, k)
<1> USE DEF engine
<1>1. ASSUME NEW c \in Clients PROVE ~Ask(c) /\ ~StatementFails(c) /\ ~EngineAborts(c) /\ ~Crash(c)
  BY DEF Ask, StatementFails, EngineAborts, Crash, Discard
<1>2. ASSUME NEW c \in Clients, Step(c) PROVE Commit(c)
  <2>1. ~Look(c) /\ ~Refused(c) /\ ~Recover(c) /\ \A u \in Units : ~Begin(c, u)
    BY ErrorsAreHandled DEF Look, Refused, Recover, RollbackBatch, Discard, Begin
  <2>2. \A k \in Keys : ~Write(c, k)
    BY DEF Write, WholeInv, OwnTransaction
  <2>. QED BY <1>2, <2>1, <2>2 DEF Step
<1>. QED BY <1>1, <1>2 DEF Next

\* While every client rolls back (the knowledge engine) or exits (index), what
\* a commit makes visible is one whole unit over what was there: never half of
\* a batch that failed, never two units at once, never a lost update of a
\* response cache.  watch goes on after an error, and is not covered.
THEOREM BatchesAreWhole ==
    ASSUME NoneGoesOn PROVE Spec => CommitsWholeUnits
<1> DEFINE Shown(u, w) ==
        /\ w \in Clients => u \in Units
        /\ disk' = [k \in Keys |-> IF k \in u THEN [by |-> w, unit |-> u] ELSE disk[k]]
<1>1. WholeInv /\ [Next]_vars
        => [\E u \in Units \cup {{k} : k \in Keys}, w \in Clients \cup Servers : Shown(u, w)]_disk
  <2> SUFFICES ASSUME WholeInv, [Next]_vars, disk' # disk
               PROVE  \E u \in Units \cup {{k} : k \in Keys}, w \in Clients \cup Servers : Shown(u, w)
    OBVIOUS
  <2>1. ASSUME NEW c \in Clients, Commit(c)
        PROVE  unit[c] \in Units /\ Shown(unit[c], c)
    BY <2>1, CommitShowsTheUnit
  <2>2. ASSUME NEW s \in Servers, NEW q \in Keys, CachePut(s, q)
        PROVE  Shown({q}, s)
    BY <2>2, ServersHaveNoBatches
       DEF CachePut, Publish, WholeInv, TypedInv, BatchTypeOK
  <2>3. Next
    BY DEF vars, engine
  <2> HIDE DEF Shown
  <2>4. CASE \E c \in Clients : Commit(c)
    BY <2>1, <2>4
  <2>5. CASE \E s \in Servers, k \in Keys : CachePut(s, k)
    <3>1. PICK s \in Servers, q \in Keys : CachePut(s, q)
      BY <2>5
    <3>2. {q} \in Units \cup {{k} : k \in Keys}
      OBVIOUS
    <3>. QED BY <2>2, <3>1, <3>2
  <2>. QED BY <2>3, <2>4, <2>5, OnlyCommitsShow
<1>. QED BY <1>1, WholeInvHolds, PTL DEF CommitsWholeUnits, Spec

\* Under the same clients, one that is between units keeps neither the write
\* lock from the others nor a snapshot from the checkpoint.
THEOREM IdleClientsHoldNothing ==
    ASSUME NoneGoesOn PROVE Spec => []IdleHoldsNothing
<1>1. WholeInv => IdleHoldsNothing
  BY DEF WholeInv, OwnTransaction, IdleHoldsNothing
<1>. QED BY <1>1, WholeInvHolds, PTL
=============================================================================
