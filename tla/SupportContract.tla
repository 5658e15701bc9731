--------------------------- MODULE SupportContract ---------------------------
(***************************************************************************)
(* What the support plane promises, with no tables: the base plane and the *)
(* producers' facts evolve as if the other did not exist, and the public   *)
(* edge of a key is always the projection of the two.                      *)
(***************************************************************************)
EXTENDS Integers, SupportProjection

CONSTANTS Owners, FactIds, MaxGeneration

VARIABLES
    base,         \* the base plane's contribution of each key, or NoEdge
    facts,        \* facts asserted and not retracted
    generations,  \* last generation applied of each owner, -1 before the first
    public        \* what a reader sees of each key, or NoEdge

vars == <<base, facts, generations, public>>

Support == [owner : Owners, key : Keys, id : FactIds, edge : Contents]

FactsOn(F, k) == {f.edge : f \in {g \in F : g.key = k}}

View(b, F) ==
    [k \in Keys |-> IF b[k] = NoEdge /\ FactsOn(F, k) = {} THEN NoEdge
                    ELSE Project(k, b[k], FactsOn(F, k))]

Init ==
    /\ base = [k \in Keys |-> NoEdge]
    /\ facts = {}
    /\ generations = [o \in Owners |-> -1]
    /\ public = View(base, facts)

\* The base plane writes one edge.
UpsertBase(k, e) ==
    /\ BaseWins(base[k], e)
    /\ base' = [base EXCEPT ![k] = e]
    /\ UNCHANGED <<facts, generations>>

\* The base plane retires contributions of its own, and nothing else.
RetireBase ==
    /\ base' \in [Keys -> Contents \cup {NoEdge}]
    /\ \A k \in Keys : base'[k] \in {base[k], NoEdge}
    /\ UNCHANGED <<facts, generations>>

\* An owner replaces its whole fact set under a newer generation; nobody
\* else's facts move.
Replace(o, g) ==
    /\ g > generations[o]
    /\ facts' \in SUBSET Support
    /\ {f \in facts' : f.owner # o} = {f \in facts : f.owner # o}
    /\ \A f, h \in facts' : f.owner = o /\ h.owner = o /\ f.key = h.key /\ f.id = h.id
                               => f = h
    /\ generations' = [generations EXCEPT ![o] = g]
    /\ UNCHANGED base

\* Erasure removes everything on the keys of the erased symbols.
Erase(K) ==
    /\ base' = [k \in Keys |-> IF k \in K THEN NoEdge ELSE base[k]]
    /\ facts' = {f \in facts : f.key \notin K}
    /\ UNCHANGED generations

Next ==
    /\ \/ \E k \in Keys, e \in Contents : UpsertBase(k, e)
       \/ RetireBase
       \/ \E K \in SUBSET Keys : Erase(K)
       \/ \E o \in Owners, g \in 0..MaxGeneration : Replace(o, g)
    /\ public' = View(base', facts')

Spec == Init /\ [][Next]_vars
=============================================================================
