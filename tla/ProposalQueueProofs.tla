------------------------- MODULE ProposalQueueProofs -------------------------
(***************************************************************************)
(* For any number of servers that start, sweep and crash at any moment, and *)
(* any number of edges, attempts and faults: when one server decides on a   *)
(* proposal, what readers are shown of it is approved and whole, and what   *)
(* it approved is never undone by a sweep.                                 *)
(***************************************************************************)
EXTENDS ProposalQueue, TLAPS

\* All decisions go through one server.
OneDecides(d) == d \in Servers /\ Approvers \cup Rejecters \subseteq {d}

\* What is inspected is an attempt that was made.
TypedInv ==
    /\ QueueTypeOK
    /\ \A s \in Servers : Sweeping(s) =>
          /\ seen[s].attempt <= minted
          /\ pc[s] \in {"judge", "complete", "plan", "finish", "rollback"}

\* The others only sweep.
OthersSweep(d) ==
    \A s \in Servers \ {d} :
        /\ pc[s] \notin {"journal", "mark", "failed", "reject"}
        /\ pc[s] \in {"plan", "finish", "rollback"} => Sweeping(s)

\* The state is final once it has left "pending", and only the decider moves it.
Deciding(d) ==
    \/ pc[d] \in {"journal", "mark", "failed", "reject"}
    \/ pc[d] \in {"plan", "rollback"} /\ ~Sweeping(d)

StatesAreFinal(d) ==
    /\ Deciding(d) => state = "pending"
    /\ \A s \in Servers :
          /\ pc[s] \in {"complete", "finish"} => state = "approved"
          /\ pc[s] = "plan" /\ Sweeping(s) => state = "approved"
          /\ pc[s] = "rollback" /\ Sweeping(s) => seen[s].old

\* A memory proposal has no journal; the knowledge approval in flight is that of
\* the journal, and no sweep that has seen it grow old is left.
InFlight(d) ==
    /\ kind = "memory" => /\ journal = NoJournal /\ \A s \in Servers : ~Sweeping(s)
                          /\ pc[d] \notin {"journal", "failed"}
    /\ kind = "knowledge" /\ (pc[d] = "mark" \/ (pc[d] = "plan" /\ ~Sweeping(d))) =>
          /\ journal # NoJournal /\ journal.attempt = own[d] /\ ~journal.old
          /\ \A s \in Servers : Sweeping(s) /\ seen[s].attempt = own[d] => ~seen[s].old
          /\ pc[d] = "plan" => 1..(next[d] - 1) \subseteq edges
    /\ pc[d] = "journal" => next[d] = 1
    /\ pc[d] = "mark" => node /\ (kind = "knowledge" => edges = 1..EdgeCount)

\* What is approved is there, and no sweep is about to undo it; what is not
\* approved is under a journal.
Settled ==
    /\ state = "approved" =>
          /\ node /\ (kind = "knowledge" => edges = 1..EdgeCount)
          /\ \A s \in Servers : pc[s] = "rollback" => ~IsInspected(s)
    /\ kind = "knowledge" /\ state # "approved" /\ node => journal # NoJournal

ProtocolInv(d) == OthersSweep(d) /\ StatesAreFinal(d) /\ InFlight(d) /\ Settled

-----------------------------------------------------------------------------
(* Typing, whoever decides. *)

LEMMA InitIsTyped == Init => TypedInv
<1> SUFFICES ASSUME Init PROVE TypedInv
  OBVIOUS
<1>1. EdgeCount + 1 \in Nat /\ 1 \in 1..EdgeCount + 1
  BY BoundsAreNat
<1>2. next \in [Servers -> 1..EdgeCount + 1] /\ own \in [Servers -> 0..minted]
  BY <1>1 DEF Init, NoAttempt
<1>3. minted \in 0..MaxAttempts /\ faults \in 0..MaxFaults
  BY BoundsAreNat DEF Init
<1>4. \A s \in Servers : ~Sweeping(s) /\ pc[s] = "idle"
  BY DEF Init, Sweeping
<1>. QED BY <1>2, <1>3, <1>4 DEF Init, TypedInv, QueueTypeOK

LEMMA DecideIsTyped ==
    ASSUME TypedInv, NEW s \in Servers,
           Approve(s) \/ WriteJournal(s) \/ PutEdge(s) \/ PutNode(s) \/ MarkApproved(s)
    PROVE  TypedInv'
<1> USE BoundsAreNat, NoJournalIsNone DEF TypedInv, QueueTypeOK, Sweeping, Goto, stores
<1>1. CASE Approve(s)
  <2>1. next' \in [Servers -> 1..EdgeCount + 1]
    BY <1>1 DEF Approve
  <2>. QED BY <1>1, <2>1 DEF Approve
<1>2. CASE WriteJournal(s)
  <2>1. minted' \in 1..MaxAttempts /\ minted' = minted + 1
    BY <1>2 DEF WriteJournal
  <2>2. journal' \in Journal /\ journal'.attempt = minted'
    BY <1>2, <2>1 DEF WriteJournal, Journal
  <2>3. own' \in [Servers -> 0..minted']
    BY <1>2, <2>1 DEF WriteJournal
  <2>4. \A t \in Servers : Sweeping(t) => seen[t].attempt \in Int
    BY DEF Journal
  <2>. QED BY <1>2, <2>1, <2>2, <2>3, <2>4 DEF WriteJournal
<1>3. CASE PutEdge(s)
  <2>1. next[s] \in 1..EdgeCount /\ next[s] + 1 \in 1..EdgeCount + 1
    BY <1>3 DEF PutEdge
  <2>2. edges' \subseteq 1..EdgeCount /\ next' \in [Servers -> 1..EdgeCount + 1]
    BY <1>3, <2>1 DEF PutEdge
  <2>. QED BY <1>3, <2>2 DEF PutEdge
<1>4. CASE PutNode(s)
  BY <1>4 DEF PutNode, AfterNode
<1>5. CASE MarkApproved(s)
  BY <1>5 DEF MarkApproved
<1>. QED BY <1>1, <1>2, <1>3, <1>4, <1>5

LEMMA UndoIsTyped ==
    ASSUME TypedInv, NEW s \in Servers,
           \/ Finish(s) \/ CheckPending(s) \/ Rollback(s) \/ Reject(s) \/ MarkRejected(s)
           \/ Error(s) \/ RollbackUncommitted(s) \/ Restart(s) \/ Crash(s)
    PROVE  TypedInv'
<1> USE BoundsAreNat, NoJournalIsNone DEF TypedInv, QueueTypeOK, Sweeping, Goto, stores
<1>1. CASE Finish(s)
  BY <1>1 DEF Finish
<1>2. CASE CheckPending(s)
  BY <1>2 DEF CheckPending
<1>3. CASE Rollback(s)
  <2>1. own' \in [Servers -> 0..minted]
    BY <1>3 DEF Rollback, NoAttempt
  <2>2. CASE IsInspected(s)
    BY <1>3, <2>1, <2>2 DEF Rollback
  <2>3. CASE ~IsInspected(s)
    BY <1>3, <2>1, <2>3 DEF Rollback
  <2>. QED BY <2>2, <2>3
<1>4. CASE Reject(s)
  BY <1>4 DEF Reject
<1>5. CASE MarkRejected(s)
  BY <1>5 DEF MarkRejected
<1>6. CASE Error(s)
  <2>1. faults' \in 0..MaxFaults
    BY <1>6 DEF Error, Fault
  <2>. QED BY <1>6, <2>1 DEF Error
<1>7. CASE RollbackUncommitted(s)
  <2>1. faults' \in 0..MaxFaults
    BY <1>7 DEF RollbackUncommitted, Fault
  <2>. QED BY <1>7, <2>1 DEF RollbackUncommitted
<1>8. CASE Restart(s) \/ Crash(s)
  <2>1. faults' \in 0..MaxFaults
    BY <1>8 DEF Restart, Crash, Fault
  <2>2. StartUp(s)
    BY <1>8 DEF Restart, Crash
  <2>3. own' \in [Servers -> 0..minted]
    BY <2>2 DEF StartUp, NoAttempt
  <2>. QED BY <2>1, <2>2, <2>3 DEF StartUp
<1>. QED BY <1>1, <1>2, <1>3, <1>4, <1>5, <1>6, <1>7, <1>8

LEMMA SweepIsTyped ==
    ASSUME TypedInv, NEW s \in Servers, ReadJournals(s) \/ ReadStates(s) \/ Complete(s)
    PROVE  TypedInv'
<1> USE BoundsAreNat, NoJournalIsNone DEF TypedInv, QueueTypeOK, Sweeping, Goto, stores
<1>1. CASE ReadJournals(s)
  BY <1>1 DEF ReadJournals
<1>2. CASE ReadStates(s)
  BY <1>2 DEF ReadStates, Verdict
<1>3. CASE Complete(s)
  <2>1. next' \in [Servers -> 1..EdgeCount + 1]
    BY <1>3 DEF Complete
  <2>. QED BY <1>3, <2>1 DEF Complete
<1>. QED BY <1>1, <1>2, <1>3

LEMMA AgeIsTyped ==
    ASSUME TypedInv, Age
    PROVE  TypedInv' /\ journal' # NoJournal /\ journal'.attempt = journal.attempt
<1> USE NoJournalIsNone DEF TypedInv, QueueTypeOK, Sweeping
<1>1. journal \in Journal /\ journal' = [journal EXCEPT !.old = TRUE]
  BY DEF Age
<1>2. journal' \in Journal /\ journal'.attempt = journal.attempt
  BY <1>1 DEF Journal
<1>. QED BY <1>2 DEF Age

LEMMA StepIsTyped == TypedInv /\ [Next]_vars => TypedInv'
<1> SUFFICES ASSUME TypedInv, [Next]_vars PROVE TypedInv'
  OBVIOUS
<1>1. CASE UNCHANGED vars
  BY <1>1 DEF vars, stores, TypedInv, QueueTypeOK, Sweeping
<1>. QED BY <1>1, DecideIsTyped, UndoIsTyped, SweepIsTyped, AgeIsTyped DEF Next, Step

\* Attempts are never reused and every sweep knows the journal it works from,
\* with any number of servers that approve, reject and sweep.
THEOREM QueueTypeCorrect == Spec => []QueueTypeOK
<1>1. TypedInv => QueueTypeOK
  BY DEF TypedInv
<1>. QED BY InitIsTyped, StepIsTyped, <1>1, PTL DEF Spec

-----------------------------------------------------------------------------
(* The protocol, when one server decides. *)

LEMMA InitIsQuiet ==
    ASSUME NEW d \in Servers, Init PROVE ProtocolInv(d)
  BY DEF Init, ProtocolInv, OthersSweep, StatesAreFinal, Deciding, InFlight, Settled, Sweeping

\* Who takes a step of an approval or a rejection decides, or completes what is approved.
LEMMA WhoDecides ==
    ASSUME NEW d \in Servers, OneDecides(d), ProtocolInv(d), NEW s \in Servers
    PROVE  /\ Approve(s) \/ WriteJournal(s) \/ MarkApproved(s) => s = d
           /\ CheckPending(s) \/ Reject(s) \/ MarkRejected(s) => s = d
           /\ s # d /\ (PutEdge(s) \/ PutNode(s)) => Sweeping(s) /\ state = "approved"
  BY DEF OneDecides, ProtocolInv, OthersSweep, StatesAreFinal, Approve, WriteJournal,
         MarkApproved, CheckPending, Reject, MarkRejected, PutEdge, PutNode

LEMMA ApproveKeeps ==
    ASSUME TypedInv, NEW d \in Servers, OneDecides(d), ProtocolInv(d), NEW s \in Servers,
           Approve(s) \/ WriteJournal(s) \/ PutEdge(s) \/ PutNode(s) \/ MarkApproved(s)
    PROVE  ProtocolInv(d)'
<1> USE DEF Goto, stores, Sweeping
<1>1. pc \in [Servers -> {"idle", "journal", "plan", "mark", "finish", "failed", "rollback",
                          "reject", "sweep", "judge", "complete"}]
      /\ next \in [Servers -> 1..EdgeCount + 1] /\ own \in [Servers -> 0..minted]
      /\ edges \subseteq 1..EdgeCount /\ minted \in Nat /\ EdgeCount \in Nat
      /\ kind \in {"memory", "knowledge"}
  BY BoundsAreNat, KindsAreKnown DEF TypedInv, QueueTypeOK
<1>2. CASE Approve(s)
  <2>1. s = d /\ pc[d] = "idle" /\ state = "pending"
    BY <1>2, WhoDecides DEF Approve
  <2>2. ~Sweeping(d)
    BY <2>1 DEF TypedInv
  <2>3. next'[d] = (IF kind = "memory" THEN EdgeCount + 1 ELSE 1) /\ UNCHANGED <<state, journal, node, edges, own, seen, kind>>
        /\ pc' = [pc EXCEPT ![d] = IF kind = "memory" THEN "plan" ELSE "journal"]
    BY <1>1, <1>2, <2>1 DEF Approve
  <2>. QED BY <1>1, <2>1, <2>2, <2>3 DEF ProtocolInv, OthersSweep, StatesAreFinal, Deciding, InFlight, Settled, IsInspected
<1>3. CASE WriteJournal(s)
  <2>1. /\ s = d /\ pc[d] = "journal" /\ ~Sweeping(d) /\ state = "pending" /\ kind = "knowledge"
        /\ journal' = [attempt |-> minted + 1, old |-> FALSE] /\ own' = [own EXCEPT ![d] = minted + 1]
        /\ pc' = [pc EXCEPT ![d] = "plan"] /\ UNCHANGED <<kind, state, node, edges, next, seen>>
    BY <1>1, <1>3, WhoDecides DEF WriteJournal, TypedInv, ProtocolInv, StatesAreFinal, Deciding, InFlight
  <2>2. journal' # NoJournal /\ journal'.attempt = own'[d] /\ ~journal'.old
    <3>1. minted + 1 \in 1..MaxAttempts
      BY <1>3, BoundsAreNat DEF WriteJournal, TypedInv, QueueTypeOK
    <3>2. journal' \in Journal /\ journal'.attempt = minted + 1 /\ ~journal'.old
      BY <2>1, <3>1 DEF Journal
    <3>. QED BY <1>1, <2>1, <3>2, NoJournalIsNone
  <2>3. \A t \in Servers : Sweeping(t) => seen[t].attempt # own'[d]
    BY <1>1, <2>1 DEF TypedInv, QueueTypeOK, Journal
  <2>4. next[d] = 1
    BY <1>1, <2>1 DEF ProtocolInv, InFlight
  <2>5. OthersSweep(d)' /\ StatesAreFinal(d)' /\ Settled'
    BY <1>1, <2>1, <2>2 DEF ProtocolInv, OthersSweep, StatesAreFinal, Deciding, Settled
  <2>6. InFlight(d)'
    BY <1>1, <2>1, <2>2, <2>3, <2>4 DEF InFlight
  <2>. QED BY <2>5, <2>6 DEF ProtocolInv
<1>4. CASE PutEdge(s)
  BY <1>1, <1>4, WhoDecides DEF PutEdge, ProtocolInv, OthersSweep, StatesAreFinal, Deciding, InFlight, Settled, IsInspected
<1>5. CASE PutNode(s)
  <2>1. CASE s # d \/ Sweeping(d)
    <3>1. /\ Sweeping(s) /\ state = "approved" /\ node' = TRUE /\ pc' = [pc EXCEPT ![s] = "finish"]
          /\ UNCHANGED <<kind, state, journal, edges, next, own, seen>>
      BY <1>1, <1>5, <2>1, WhoDecides DEF PutNode, AfterNode, ProtocolInv, StatesAreFinal
    <3>. QED BY <1>1, <3>1 DEF ProtocolInv, OthersSweep, StatesAreFinal, Deciding, InFlight, Settled, IsInspected
  <2>2. CASE s = d /\ ~Sweeping(d)
    <3>1. /\ pc[d] = "plan" /\ node' = TRUE /\ pc' = [pc EXCEPT ![d] = "mark"]
          /\ UNCHANGED <<kind, state, journal, edges, next, own, seen>> /\ next[d] > EdgeCount
      BY <1>1, <1>5, <2>2 DEF PutNode, AfterNode
    <3>2. kind = "knowledge" => journal # NoJournal /\ edges = 1..EdgeCount
      <4>1. next[d] - 1 = EdgeCount
        BY <1>1, <3>1
      <4>. QED BY <1>1, <2>2, <3>1, <4>1 DEF ProtocolInv, InFlight
    <3>. QED BY <1>1, <2>2, <3>1, <3>2 DEF ProtocolInv, OthersSweep, StatesAreFinal, Deciding, InFlight, Settled, IsInspected
  <2>. QED BY <2>1, <2>2
<1>6. CASE MarkApproved(s)
  BY <1>1, <1>6, WhoDecides DEF MarkApproved, ProtocolInv, OthersSweep, StatesAreFinal, Deciding, InFlight, Settled, IsInspected
<1>. QED BY <1>2, <1>3, <1>4, <1>5, <1>6

LEMMA UndoKeeps ==
    ASSUME TypedInv, NEW d \in Servers, OneDecides(d), ProtocolInv(d), NEW s \in Servers,
           \/ Finish(s) \/ CheckPending(s) \/ Rollback(s) \/ Reject(s) \/ MarkRejected(s)
           \/ Error(s) \/ RollbackUncommitted(s) \/ Restart(s) \/ Crash(s)
    PROVE  ProtocolInv(d)'
<1> USE DEF Goto, stores, Sweeping
<1>1. pc \in [Servers -> {"idle", "journal", "plan", "mark", "finish", "failed", "rollback",
                          "reject", "sweep", "judge", "complete"}]
      /\ kind \in {"memory", "knowledge"}
      /\ own \in [Servers -> 0..minted] /\ seen \in [Servers -> Journal \cup {NoJournal}]
  BY KindsAreKnown DEF TypedInv, QueueTypeOK
<1>2. CASE Finish(s)
  BY <1>1, <1>2 DEF Finish, ProtocolInv, OthersSweep, StatesAreFinal, Deciding, InFlight, Settled, IsInspected
<1>3. CASE CheckPending(s)
  <2>1. /\ s = d /\ pc[d] = "failed" /\ ~Sweeping(d) /\ state = "pending"
        /\ UNCHANGED <<kind, state, journal, node, edges, next, own, seen>>
        /\ \E step \in {"rollback", "idle"} : pc' = [pc EXCEPT ![d] = step]
    BY <1>1, <1>3, WhoDecides DEF CheckPending, TypedInv, ProtocolInv, StatesAreFinal, Deciding
  <2>. QED BY <1>1, <2>1 DEF ProtocolInv, OthersSweep, StatesAreFinal, Deciding, InFlight, Settled, IsInspected
<1>4. CASE Rollback(s)
  BY <1>1, <1>4, WhoDecides, ZenonT(40) DEF Rollback, ProtocolInv, OthersSweep, StatesAreFinal, Deciding, InFlight, Settled, IsInspected
<1>5. CASE Reject(s)
  BY <1>1, <1>5, WhoDecides DEF Reject, ProtocolInv, TypedInv, OthersSweep, StatesAreFinal, Deciding, InFlight, Settled, IsInspected
<1>6. CASE MarkRejected(s)
  BY <1>1, <1>6, WhoDecides DEF MarkRejected, ProtocolInv, OthersSweep, StatesAreFinal, Deciding, InFlight, Settled, IsInspected
<1>7. CASE Error(s)
  BY <1>1, <1>7 DEF Error, ProtocolInv, OthersSweep, StatesAreFinal, Deciding, InFlight, Settled, IsInspected
<1>8. CASE RollbackUncommitted(s)
  BY <1>1, <1>8 DEF RollbackUncommitted, ProtocolInv, OthersSweep, StatesAreFinal, Deciding, InFlight, Settled, IsInspected
<1>9. CASE StartUp(s)
  BY <1>1, <1>9 DEF StartUp, ProtocolInv, OthersSweep, StatesAreFinal, Deciding, InFlight, Settled, IsInspected
<1>. QED BY <1>2, <1>3, <1>4, <1>5, <1>6, <1>7, <1>8, <1>9 DEF Restart, Crash

LEMMA SweepKeeps ==
    ASSUME TypedInv, NEW d \in Servers, OneDecides(d), ProtocolInv(d), NEW s \in Servers,
           ReadJournals(s) \/ ReadStates(s) \/ Complete(s)
    PROVE  ProtocolInv(d)'
<1> USE DEF Goto, stores, Sweeping
<1>1. pc \in [Servers -> {"idle", "journal", "plan", "mark", "finish", "failed", "rollback",
                          "reject", "sweep", "judge", "complete"}]
      /\ kind \in {"memory", "knowledge"}
      /\ own \in [Servers -> 0..minted] /\ seen \in [Servers -> Journal \cup {NoJournal}]
      /\ \A t \in Servers : pc[t] \in {"judge", "complete"} => Sweeping(t)
  BY KindsAreKnown DEF TypedInv, QueueTypeOK
<1>2. CASE ReadJournals(s)
  BY <1>1, <1>2 DEF ReadJournals, ProtocolInv, OthersSweep, StatesAreFinal, Deciding, InFlight, Settled, IsInspected
<1>3. CASE ReadStates(s)
  BY <1>1, <1>3 DEF ReadStates, Verdict, ProtocolInv, OthersSweep, StatesAreFinal, Deciding, InFlight, Settled, IsInspected
<1>4. CASE Complete(s)
  BY <1>1, <1>4 DEF Complete, ProtocolInv, OthersSweep, StatesAreFinal, Deciding, InFlight, Settled, IsInspected
<1>. QED BY <1>2, <1>3, <1>4

\* The grace period ends over an approval that is no longer in flight.
LEMMA AgeKeeps ==
    ASSUME TypedInv, NEW d \in Servers, ProtocolInv(d), Age
    PROVE  ProtocolInv(d)'
<1> USE DEF Sweeping
<1>1. /\ journal # NoJournal /\ journal' # NoJournal /\ journal'.attempt = journal.attempt
      /\ UNCHANGED <<kind, state, node, edges, pc, next, own, seen>>
      /\ \A s \in Servers : pc[s] \in {"plan", "mark", "finish"} => Sweeping(s)
  BY AgeIsTyped DEF Age
<1>2. pc[d] # "mark" /\ ~(pc[d] = "plan" /\ ~Sweeping(d))
  BY <1>1 DEF TypedInv
<1>3. OthersSweep(d)' /\ StatesAreFinal(d)' /\ Settled'
  BY <1>1 DEF ProtocolInv, OthersSweep, StatesAreFinal, Deciding, Settled, IsInspected
<1>4. InFlight(d)'
  BY <1>1, <1>2 DEF ProtocolInv, InFlight
<1>. QED BY <1>3, <1>4 DEF ProtocolInv

LEMMA ProtocolHolds ==
    ASSUME NEW d \in Servers, OneDecides(d)
    PROVE  Spec => [](TypedInv /\ ProtocolInv(d))
<1>1. Init => TypedInv /\ ProtocolInv(d)
  BY InitIsTyped, InitIsQuiet
<1>2. TypedInv /\ ProtocolInv(d) /\ [Next]_vars => ProtocolInv(d)'
  <2> SUFFICES ASSUME TypedInv, ProtocolInv(d), [Next]_vars PROVE ProtocolInv(d)'
    OBVIOUS
  <2>1. CASE UNCHANGED vars
    BY <2>1 DEF vars, stores, ProtocolInv, OthersSweep, StatesAreFinal, Deciding, InFlight,
                Settled, IsInspected, Sweeping
  <2>. QED BY <2>1, ApproveKeeps, UndoKeeps, SweepKeeps, AgeKeeps DEF Next, Step
<1>. QED BY <1>1, <1>2, StepIsTyped, PTL DEF Spec

\* When one server decides, nothing of a knowledge approval is shown before the
\* proposal is approved and every typed edge of its plan is written: not by a
\* crash between two of the five steps, nor by a sweep (on any server) that
\* judged an earlier attempt and finds the journal of a later one.
THEOREM VisibleIsApproved ==
    ASSUME NEW d \in Servers, OneDecides(d)
    PROVE  Spec => []VisibleIsWhole
<1>1. ProtocolInv(d) => VisibleIsWhole
  BY DEF ProtocolInv, Settled, Visible, VisibleIsWhole
<1>. QED BY <1>1, ProtocolHolds, PTL

\* What it approved is never undone: the node stays, whatever a sweep that saw
\* the journal before the approval does afterwards.
THEOREM ApprovedIsNeverUndone ==
    ASSUME NEW d \in Servers, OneDecides(d)
    PROVE  Spec => []ApprovedIsKept
<1>1. ProtocolInv(d) => ApprovedIsKept
  BY DEF ProtocolInv, Settled, ApprovedIsKept
<1>. QED BY <1>1, ProtocolHolds, PTL

\* "A rejected proposal is never promoted to an active store": so for a
\* knowledge proposal that one server decides.  (A memory proposal is captured
\* before it is marked, and there it does not hold.)
THEOREM RejectedKnowledgeStaysHidden ==
    ASSUME NEW d \in Servers, OneDecides(d)
    PROVE  Spec => [](kind = "knowledge" => RejectedStaysHidden)
<1>1. ProtocolInv(d) => (kind = "knowledge" => RejectedStaysHidden)
  BY DEF ProtocolInv, Settled, Visible, RejectedStaysHidden
<1>. QED BY <1>1, ProtocolHolds, PTL
=============================================================================
