------------------------------ MODULE StoreBatch ------------------------------
(***************************************************************************)
(* The batches of SqliteStore, over one database file in WAL mode that      *)
(* several processes write.  A client writes a logical unit between         *)
(* begin_batch and commit_batch; the store remembers an open batch in a     *)
(* flag of its own, in_batch, which may part from the engine's transaction. *)
(*                                                                         *)
(* BEGIN is deferred: the first statement takes the snapshot, the first     *)
(* write the lock, and a snapshot that another process has written past     *)
(* since cannot be written from (SQLITE_BUSY_SNAPSHOT).  A statement that   *)
(* fails leaves the transaction open, unless the engine ends it.            *)
(***************************************************************************)
EXTENDS Integers, FiniteSets

CONSTANTS
    Clients,     \* processes that write in batches
    OnError,     \* what each does with an error: "rollback", "exit", "continue"
    Servers,     \* processes that write single statements: the response cache
    Keys,        \* rows
    Units,       \* the sets of rows that a client writes as one
    Nobody,      \* the lock is free
    MaxUnits,    \* bound of the model: units asked of each client
    MaxFaults,   \* bound of the model: faults, crashes included
    MaxPuts      \* bound of the model: writes of the servers

ASSUME UnitsAreRows == Units \subseteq SUBSET Keys /\ {} \notin Units
ASSUME ErrorsAreHandled == OnError \in [Clients -> {"rollback", "exit", "continue"}]
ASSUME NobodyIsNoClient == Nobody \notin Clients
ASSUME ServersHaveNoBatches == Clients \cap Servers = {}
ASSUME BatchBoundsAreNat == MaxUnits \in Nat /\ MaxFaults \in Nat /\ MaxPuts \in Nat

\* What a row holds: whose unit wrote it last.
Value == [by : Clients \cup Servers \cup {Nobody}, unit : SUBSET Keys]
Blank == [k \in Keys |-> [by |-> Nobody, unit |-> {}]]

VARIABLES
    disk,     \* the committed rows
    lock,     \* the client whose transaction holds the write lock
    tx,       \* each connection's transaction: "none", "open" (no snapshot), "read", "write"
    stale,    \* another process committed since the transaction's snapshot
    view,     \* the rows a transaction sees, its own writes included
    inBatch,  \* SqliteStore.in_batch
    pc,       \* what the client does next
    unit,     \* the unit it writes
    left,     \* the rows of it still to write
    owed,     \* units asked of it and not yet committed: 0 or 1
    asked, faults, puts

engine == <<disk, lock, tx, stale, view>>
client == <<pc, unit, left, owed>>
counts == <<asked, faults, puts>>
vars   == <<engine, inBatch, client, counts>>

-----------------------------------------------------------------------------
(* The engine. *)

\* Rows become visible; every other snapshot is stale from then on.
Publish(c, rows) ==
    /\ disk' = rows
    /\ stale' = [d \in Clients |-> d # c /\ tx[d] \in {"read", "write"}]

\* The transaction ends and what it wrote is dropped.
Discard(c) ==
    /\ tx' = [tx EXCEPT ![c] = "none"]
    /\ view' = [view EXCEPT ![c] = Blank]
    /\ stale' = [stale EXCEPT ![c] = FALSE]
    /\ lock' = IF lock = c THEN Nobody ELSE lock
    /\ UNCHANGED disk

Refusable(c) == \/ tx[c] = "read" /\ stale[c]
                \/ lock \notin {Nobody, c}

-----------------------------------------------------------------------------
(* A client. *)

Ask(c) ==
    /\ owed[c] = 0 /\ asked[c] < MaxUnits
    /\ owed' = [owed EXCEPT ![c] = 1]
    /\ asked' = [asked EXCEPT ![c] = @ + 1]
    /\ UNCHANGED <<engine, inBatch, pc, unit, left, faults, puts>>

\* begin_batch: a no-op when the store takes a batch to be open.
Begin(c, u) ==
    /\ pc[c] = "idle" /\ owed[c] = 1
    /\ inBatch' = [inBatch EXCEPT ![c] = TRUE]
    /\ tx' = IF inBatch[c] THEN tx ELSE [tx EXCEPT ![c] = "open"]
    /\ unit' = [unit EXCEPT ![c] = u]
    /\ left' = [left EXCEPT ![c] = u]
    /\ pc' = [pc EXCEPT ![c] = "work"]
    /\ UNCHANGED <<disk, lock, stale, view, owed, counts>>

\* A unit may read before it writes: remove_file does.
Look(c) ==
    /\ pc[c] = "work" /\ tx[c] = "open"
    /\ tx' = [tx EXCEPT ![c] = "read"]
    /\ view' = [view EXCEPT ![c] = disk]
    /\ UNCHANGED <<disk, lock, stale, inBatch, client, counts>>

Written(c, rows, k) == [rows EXCEPT ![k] = [by |-> c, unit |-> unit[c]]]

\* One statement.  With no transaction it is committed by itself.
Write(c, k) ==
    /\ pc[c] = "work" /\ k \in left[c]
    /\ ~Refusable(c)
    /\ left' = [left EXCEPT ![c] = @ \ {k}]
    /\ IF tx[c] = "none"
         THEN Publish(c, Written(c, disk, k)) /\ UNCHANGED <<lock, tx, view>>
         ELSE /\ lock' = c
              /\ tx' = [tx EXCEPT ![c] = "write"]
              /\ view' = [view EXCEPT ![c] =
                    Written(c, IF tx[c] = "open" THEN disk ELSE view[c], k)]
              /\ UNCHANGED <<disk, stale>>
    /\ UNCHANGED <<inBatch, pc, unit, owed, counts>>

Fails(c) == pc' = [pc EXCEPT ![c] = "failed"]

\* The snapshot is stale, or another writer keeps the lock past the timeout.
Refused(c) ==
    /\ pc[c] = "work" /\ left[c] # {} /\ Refusable(c)
    /\ Fails(c)
    /\ UNCHANGED <<engine, inBatch, unit, left, owed, counts>>

\* Mutant of BatchAfterFailedCommit: the flag is cleared before COMMIT is tried.
BatchAfterFailedCommitCleared(c) == FALSE

BatchAfterFailedCommit(c) == inBatch[c]

\* commit_batch: in_batch is cleared once COMMIT has succeeded.
Commit(c) ==
    /\ pc[c] = "work" /\ left[c] = {}
    /\ IF tx[c] = "none"
         THEN /\ Fails(c)
              /\ inBatch' = [inBatch EXCEPT ![c] = BatchAfterFailedCommit(c)]
              /\ UNCHANGED <<engine, owed>>
         ELSE /\ Publish(c, view[c])
              /\ tx' = [tx EXCEPT ![c] = "none"]
              /\ view' = [view EXCEPT ![c] = Blank]
              /\ lock' = Nobody
              /\ inBatch' = [inBatch EXCEPT ![c] = FALSE]
              /\ owed' = [owed EXCEPT ![c] = 0]
              /\ pc' = [pc EXCEPT ![c] = "idle"]
    /\ UNCHANGED <<unit, left, counts>>

\* Mutant of RollbackBatch: ROLLBACK is issued, and fails, with no transaction;
\* the flag stays.
RollbackBatchStrict(c) ==
    IF tx[c] = "none" THEN UNCHANGED <<engine, inBatch>>
    ELSE Discard(c) /\ inBatch' = [inBatch EXCEPT ![c] = FALSE]

\* rollback_batch: a no-op outside a batch; nothing is left to roll back when
\* the engine has ended the transaction.
RollbackBatch(c) ==
    IF inBatch[c] THEN Discard(c) /\ inBatch' = [inBatch EXCEPT ![c] = FALSE]
    ELSE UNCHANGED <<engine, inBatch>>

\* Mutant of Recover: the error is returned and nothing else is done.
RecoverByReturning(c) ==
    /\ pc[c] = "failed"
    /\ pc' = [pc EXCEPT ![c] = "idle"]
    /\ UNCHANGED <<engine, inBatch, unit, left, owed, counts>>

\* The knowledge engine rolls back; index reports the error and exits; watch
\* reports it and goes on with the same store.
Recover(c) ==
    /\ pc[c] = "failed"
    /\ CASE OnError[c] = "rollback" -> RollbackBatch(c)
         [] OnError[c] = "exit"     -> Discard(c) /\ inBatch' = [inBatch EXCEPT ![c] = FALSE]
         [] OnError[c] = "continue" -> UNCHANGED <<engine, inBatch>>
    /\ pc' = [pc EXCEPT ![c] = "idle"]
    /\ UNCHANGED <<unit, left, owed, counts>>

-----------------------------------------------------------------------------
(* Faults, and the other writers of the file. *)

Fault == faults < MaxFaults /\ faults' = faults + 1 /\ UNCHANGED <<asked, puts>>

\* A statement or the COMMIT fails; the transaction stays open.
StatementFails(c) ==
    /\ Fault
    /\ pc[c] = "work"
    /\ Fails(c)
    /\ inBatch' = IF left[c] = {} THEN [inBatch EXCEPT ![c] = BatchAfterFailedCommit(c)] ELSE inBatch
    /\ UNCHANGED <<engine, unit, left, owed>>

\* The engine ends the transaction (SQLITE_FULL, IOERR, NOMEM).  Inside
\* replace_edge_supports the store notices; anywhere else the flag stays.
EngineAborts(c) ==
    /\ Fault
    /\ pc[c] = "work" /\ tx[c] = "write"
    /\ Discard(c)
    /\ \E noticed \in BOOLEAN : inBatch' = [inBatch EXCEPT ![c] = ~noticed]
    /\ Fails(c)
    /\ UNCHANGED <<unit, left, owed>>

\* The process dies and is started again.
Crash(c) ==
    /\ Fault
    /\ pc[c] # "idle" \/ inBatch[c]
    /\ Discard(c)
    /\ inBatch' = [inBatch EXCEPT ![c] = FALSE]
    /\ pc' = [pc EXCEPT ![c] = "idle"]
    /\ UNCHANGED <<unit, left, owed>>

\* cache_put: one statement that commits by itself.
CachePut(s, k) ==
    /\ puts < MaxPuts /\ lock = Nobody
    /\ Publish(s, [disk EXCEPT ![k] = [by |-> s, unit |-> {k}]])
    /\ puts' = puts + 1
    /\ UNCHANGED <<lock, tx, view, inBatch, client, asked, faults>>

-----------------------------------------------------------------------------
Init ==
    /\ disk = Blank
    /\ lock = Nobody
    /\ tx = [c \in Clients |-> "none"]
    /\ stale = [c \in Clients |-> FALSE]
    /\ view = [c \in Clients |-> Blank]
    /\ inBatch = [c \in Clients |-> FALSE]
    /\ pc = [c \in Clients |-> "idle"]
    /\ unit = [c \in Clients |-> {}] /\ left = [c \in Clients |-> {}]
    /\ owed = [c \in Clients |-> 0]
    /\ asked = [c \in Clients |-> 0] /\ faults = 0 /\ puts = 0

Step(c) ==
    \/ \E u \in Units : Begin(c, u)
    \/ Look(c) \/ (\E k \in Keys : Write(c, k)) \/ Refused(c) \/ Commit(c) \/ Recover(c)

Next ==
    \/ \E c \in Clients :
          \/ Ask(c) \/ Step(c)
          \/ StatementFails(c) \/ EngineAborts(c) \/ Crash(c)
    \/ \E s \in Servers, k \in Keys : CachePut(s, k)

Spec == Init /\ [][Next]_vars

\* A client goes on with its unit and tries again what failed; nothing makes a
\* server write or a fault happen.
FairSpec == Spec /\ \A c \in Clients : WF_vars(Step(c))

-----------------------------------------------------------------------------
\* The lock is held by the one transaction that has written, and a client that
\* takes no batch to be open has no transaction.
BatchTypeOK ==
    /\ disk \in [Keys -> Value] /\ view \in [Clients -> [Keys -> Value]]
    /\ tx \in [Clients -> {"none", "open", "read", "write"}]
    /\ lock \in Clients \cup {Nobody}
    /\ \A c \in Clients : lock = c <=> tx[c] = "write"
    /\ \A c \in Clients : ~inBatch[c] => tx[c] = "none"
    /\ stale \in [Clients -> BOOLEAN] /\ inBatch \in [Clients -> BOOLEAN]
    /\ pc \in [Clients -> {"idle", "work", "failed"}]
    /\ \A c \in Clients : left[c] \subseteq unit[c]
    /\ owed \in [Clients -> 0..1]

\* What becomes visible is one whole unit, never half of one, and never the
\* rest of a unit that failed before: what rollback_batch is there for.
CommitsWholeUnits ==
    [][\E u \in Units \cup {{k} : k \in Keys}, w \in Clients \cup Servers :
          /\ w \in Clients => u \in Units
          /\ disk' = [k \in Keys |-> IF k \in u THEN [by |-> w, unit |-> u] ELSE disk[k]]]_disk

\* Between units a client holds neither the lock nor a snapshot that keeps the
\* log from being truncated.
IdleHoldsNothing ==
    \A c \in Clients : pc[c] = "idle" => tx[c] = "none" /\ ~inBatch[c]

\* An error is not fatal: whatever failed, once faults and other writers leave
\* it alone, a client that tries again gets its unit committed.
UnitsLand == \A c \in Clients : owed[c] = 1 ~> owed[c] = 0
=============================================================================
