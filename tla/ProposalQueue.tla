---------------------------- MODULE ProposalQueue ----------------------------
(***************************************************************************)
(* One proposal of the memory queue, approved or rejected through several  *)
(* server processes.  A memory proposal is captured and then marked; a     *)
(* knowledge proposal crosses three stores (the queue, the knowledge store *)
(* and the overlay of typed edges) under a journal that hides it until the *)
(* last step, and a sweep at every start completes or undoes what a crash  *)
(* left behind.  Each store commits by itself, so each step is one write.  *)
(***************************************************************************)
EXTENDS Integers

CONSTANTS
    Servers,      \* server processes that write
    Approvers,    \* those asked to approve the proposal
    Rejecters,    \* those asked to reject it
    Kinds,        \* "memory", "knowledge"
    EdgeCount,    \* typed edges of the plan
    NoJournal,
    MaxAttempts,  \* bound of the model: approval attempts
    MaxFaults,    \* bound of the model: crashes and store errors
    Faults        \* the faults that occur: "crash", "error"

ASSUME DecidersAreServers == Approvers \subseteq Servers /\ Rejecters \subseteq Servers
ASSUME KindsAreKnown == Kinds \subseteq {"memory", "knowledge"}
ASSUME BoundsAreNat == EdgeCount \in Nat /\ MaxAttempts \in Nat /\ MaxFaults \in Nat

NoAttempt == 0
Journal == [attempt : 1..MaxAttempts, old : BOOLEAN]

ASSUME NoJournalIsNone == NoJournal \notin Journal

VARIABLES
    kind,     \* kind_type of the proposal
    state,    \* ProposalState, in the queue's store
    journal,  \* the kapply node: its attempt, and whether the grace period is over
    node,     \* the active memory or knowledge node
    edges,    \* the typed edges owned by the node
    pc,       \* what each server does next
    next,     \* the next edge of the plan it writes
    own,      \* attempts: its latest attempt at the proposal
    seen,     \* the journal its start-up sweep inspects
    minted,   \* attempts so far
    faults    \* faults so far

stores == <<state, journal, node, edges>>
vars   == <<kind, stores, pc, next, own, seen, minted, faults>>

Goto(s, step) == pc' = [pc EXCEPT ![s] = step]
Sweeping(s) == seen[s] # NoJournal

-----------------------------------------------------------------------------
(* Approval. *)

\* load_pending; a proposal that is not pending is refused.
Approve(s) ==
    /\ s \in Approvers /\ pc[s] = "idle"
    /\ state = "pending" /\ minted < MaxAttempts
    /\ next' = [next EXCEPT ![s] = IF kind = "memory" THEN EdgeCount + 1 ELSE 1]
    /\ Goto(s, IF kind = "memory" THEN "plan" ELSE "journal")
    /\ UNCHANGED <<kind, stores, own, seen, minted, faults>>

\* The journal replaces that of any earlier attempt.
WriteJournal(s) ==
    /\ pc[s] = "journal" /\ minted < MaxAttempts
    /\ minted' = minted + 1
    /\ journal' = [attempt |-> minted', old |-> FALSE]
    /\ own' = [own EXCEPT ![s] = minted']
    /\ Goto(s, "plan")
    /\ UNCHANGED <<kind, state, node, edges, next, seen, faults>>

\* Mutant of PutEdge: the loop over the edges runs one too far.
PutEdgePastEnd(s) ==
    /\ pc[s] = "plan" /\ kind = "knowledge"
    /\ edges' = edges \cup {next[s]}
    /\ next' = [next EXCEPT ![s] = @ + 1]
    /\ UNCHANGED <<kind, state, journal, node, pc, own, seen, minted, faults>>

PutEdge(s) ==
    /\ pc[s] = "plan" /\ next[s] <= EdgeCount
    /\ edges' = edges \cup {next[s]}
    /\ next' = [next EXCEPT ![s] = @ + 1]
    /\ UNCHANGED <<kind, state, journal, node, pc, own, seen, minted, faults>>

\* Mutant of AfterNode: the journal is dropped before the proposal is marked.
AfterNodeFinish(s) == "finish"

AfterNode(s) == IF Sweeping(s) THEN "finish" ELSE "mark"

\* Node and vector, in one transaction.
PutNode(s) ==
    /\ pc[s] = "plan" /\ next[s] > EdgeCount
    /\ node' = TRUE
    /\ Goto(s, AfterNode(s))
    /\ UNCHANGED <<kind, state, journal, edges, next, own, seen, minted, faults>>

\* The proposal loaded at the start is written back, whatever is there now.
MarkApproved(s) ==
    /\ pc[s] = "mark"
    /\ state' = "approved"
    /\ Goto(s, IF kind = "memory" THEN "idle" ELSE "finish")
    /\ UNCHANGED <<kind, journal, node, edges, next, own, seen, minted, faults>>

\* Drops the journal, whose ever it is.
Finish(s) ==
    /\ pc[s] = "finish"
    /\ journal' = NoJournal
    /\ seen' = [seen EXCEPT ![s] = NoJournal]
    /\ Goto(s, "idle")
    /\ UNCHANGED <<kind, state, node, edges, next, own, minted, faults>>

\* A failed approval undoes its own attempt, but only while still pending.
CheckPending(s) ==
    /\ pc[s] = "failed"
    /\ Goto(s, IF state = "pending" /\ own[s] # NoAttempt THEN "rollback" ELSE "idle")
    /\ UNCHANGED <<kind, stores, next, own, seen, minted, faults>>

\* Mutant of IsInspected: whatever attempt the journal is of.
IsInspectedAny(s) == journal # NoJournal

\* The journal is still of the attempt that is to be undone.
IsInspected(s) ==
    /\ journal # NoJournal
    /\ journal.attempt = IF Sweeping(s) THEN seen[s].attempt ELSE own[s]

\* The check and the deletes of node and journal are one transaction of the
\* knowledge store; the edges go in the middle of it, in their own store.
Rollback(s) ==
    /\ pc[s] = "rollback"
    /\ IF IsInspected(s)
         THEN /\ node' = FALSE /\ edges' = {} /\ journal' = NoJournal
              /\ own' = [own EXCEPT ![s] = NoAttempt]
         ELSE UNCHANGED <<node, edges, journal, own>>
    /\ seen' = [seen EXCEPT ![s] = NoJournal]
    /\ Goto(s, "idle")
    /\ UNCHANGED <<kind, state, next, minted, faults>>

-----------------------------------------------------------------------------
(* Rejection. *)

Reject(s) ==
    /\ s \in Rejecters /\ pc[s] = "idle"
    /\ state = "pending"
    /\ Goto(s, "reject")
    /\ UNCHANGED <<kind, stores, next, own, seen, minted, faults>>

MarkRejected(s) ==
    /\ pc[s] = "reject"
    /\ state' = "rejected"
    /\ Goto(s, "idle")
    /\ UNCHANGED <<kind, journal, node, edges, next, own, seen, minted, faults>>

-----------------------------------------------------------------------------
(* The start-up sweep. *)

ReadJournals(s) ==
    /\ pc[s] = "sweep"
    /\ seen' = [seen EXCEPT ![s] = journal]
    /\ Goto(s, IF journal = NoJournal THEN "idle" ELSE "judge")
    /\ UNCHANGED <<kind, stores, next, own, minted, faults>>

\* Mutant of Verdict: a journal past the grace period is undone in any state.
VerdictByAge(s) == IF seen[s].old THEN "rollback" ELSE "idle"

\* Mutant of Verdict: a rejected proposal's journal is left alone.
VerdictOnPending(s) ==
    IF state = "approved" THEN "complete"
    ELSE IF seen[s].old /\ state = "pending" THEN "rollback" ELSE "idle"

\* A young journal may be the approval of a live process.
Verdict(s) ==
    IF state = "approved" THEN "complete"
    ELSE IF seen[s].old THEN "rollback" ELSE "idle"

ReadStates(s) ==
    /\ pc[s] = "judge"
    /\ Goto(s, Verdict(s))
    /\ seen' = [seen EXCEPT ![s] = IF Verdict(s) = "idle" THEN NoJournal ELSE @]
    /\ UNCHANGED <<kind, stores, next, own, minted, faults>>

\* The plan is written again, from the journal, if the node is missing.
Complete(s) ==
    /\ pc[s] = "complete"
    /\ Goto(s, IF journal = NoJournal THEN "idle" ELSE IF node THEN "finish" ELSE "plan")
    /\ next' = [next EXCEPT ![s] = 1]
    /\ seen' = [seen EXCEPT ![s] = IF journal = NoJournal THEN NoJournal ELSE @]
    /\ UNCHANGED <<kind, stores, own, minted, faults>>

\* Time passes.  The protocol takes a journal older than the grace period for
\* one whose process is gone: no approval in flight outlives it.
Age ==
    /\ journal # NoJournal /\ ~journal.old
    /\ \A s \in Servers : pc[s] \in {"plan", "mark", "finish"} => Sweeping(s)
    /\ journal' = [journal EXCEPT !.old = TRUE]
    /\ UNCHANGED <<kind, state, node, edges, pc, next, own, seen, minted, faults>>

-----------------------------------------------------------------------------
(* Faults and restarts. *)

Fault(f) ==
    /\ f \in Faults /\ faults < MaxFaults
    /\ faults' = faults + 1

\* A store refuses the next write or read of server s.
Error(s) ==
    /\ Fault("error")
    /\ pc[s] # "idle"
    /\ Goto(s, IF pc[s] \in {"journal", "plan", "mark"} /\ kind = "knowledge" /\ ~Sweeping(s)
                 THEN "failed" ELSE "idle")
    /\ seen' = [seen EXCEPT ![s] = NoJournal]
    /\ UNCHANGED <<kind, stores, next, own, minted>>

\* The knowledge store does not commit a rollback that has deleted the edges.
RollbackUncommitted(s) ==
    /\ Fault("error")
    /\ pc[s] = "rollback" /\ IsInspected(s)
    /\ edges' = {}
    /\ seen' = [seen EXCEPT ![s] = NoJournal]
    /\ Goto(s, "idle")
    /\ UNCHANGED <<kind, state, journal, node, next, own, minted>>

\* The process ends and starts again, with the sweep first.
StartUp(s) ==
    /\ own' = [own EXCEPT ![s] = NoAttempt]
    /\ seen' = [seen EXCEPT ![s] = NoJournal]
    /\ Goto(s, "sweep")
    /\ UNCHANGED <<kind, stores, next, minted>>

Restart(s) == pc[s] = "idle" /\ StartUp(s) /\ UNCHANGED faults

Crash(s) == pc[s] # "idle" /\ Fault("crash") /\ StartUp(s)

-----------------------------------------------------------------------------
Init ==
    /\ kind \in Kinds
    /\ state = "pending"
    /\ journal = NoJournal /\ node = FALSE /\ edges = {}
    /\ pc = [s \in Servers |-> "idle"]
    /\ next = [s \in Servers |-> 1]
    /\ own = [s \in Servers |-> NoAttempt]
    /\ seen = [s \in Servers |-> NoJournal]
    /\ minted = 0 /\ faults = 0

\* What a server that has begun something does next.
Step(s) ==
    \/ WriteJournal(s) \/ PutEdge(s) \/ PutNode(s) \/ MarkApproved(s) \/ Finish(s)
    \/ CheckPending(s) \/ Rollback(s)
    \/ MarkRejected(s)
    \/ ReadJournals(s) \/ ReadStates(s) \/ Complete(s)

Next ==
    \/ \E s \in Servers :
          \/ Approve(s) \/ Reject(s) \/ Step(s)
          \/ Error(s) \/ RollbackUncommitted(s) \/ Restart(s) \/ Crash(s)
    \/ Age

Spec == Init /\ [][Next]_vars

\* A server goes on with what it has begun, and time passes; nothing makes
\* anyone approve, reject or start a server.
FairSpec == Spec /\ (\A s \in Servers : WF_vars(Step(s))) /\ WF_vars(Age)

-----------------------------------------------------------------------------
\* Attempts are never reused, and a server that undoes or completes something
\* knows what.
QueueTypeOK ==
    /\ kind \in Kinds
    /\ state \in {"pending", "approved", "rejected"}
    /\ minted \in 0..MaxAttempts /\ faults \in 0..MaxFaults
    /\ journal \in Journal \cup {NoJournal}
    /\ journal # NoJournal => journal.attempt <= minted
    /\ node \in BOOLEAN
    /\ edges \subseteq 1..EdgeCount
    /\ pc \in [Servers -> {"idle", "journal", "plan", "mark", "finish", "failed", "rollback",
                           "reject", "sweep", "judge", "complete"}]
    /\ next \in [Servers -> 1..EdgeCount + 1]
    /\ own \in [Servers -> 0..minted]
    /\ seen \in [Servers -> Journal \cup {NoJournal}]
    /\ \A s \in Servers : pc[s] \in {"judge", "complete"} => Sweeping(s)

\* What readers are shown: recallable hides a node whose journal exists.
Visible == node /\ journal = NoJournal

\* Nothing of steps 1 to 4 of a knowledge approval is visible: what readers are shown
\* has been approved and has every edge of its plan, whatever failed or crashed before
\* and whichever sweep raced a retry.
VisibleIsWhole == kind = "knowledge" /\ Visible => state = "approved" /\ edges = 1..EdgeCount

\* "An approved node is never undone": what was approved is there, or a journal
\* is left from which the next sweep completes it.
ApprovedIsKept == state = "approved" => node \/ journal # NoJournal

\* As long as servers are started now and then, no approval stays half-done:
\* what was approved ends up visible, and of anything else nothing is left.
SweepsSettle ==
    []<>(\E s \in Servers : pc[s] = "sweep")
        => <>[](kind = "knowledge" => journal = NoJournal /\ (node <=> state = "approved"))

\* A rejected proposal "is never promoted to an active store".
RejectedStaysHidden == state = "rejected" => ~Visible
=============================================================================
