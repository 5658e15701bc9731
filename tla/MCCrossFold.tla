----------------------------- MODULE MCCrossFold -----------------------------
(* Small questions: every graph of a few edges, with every bound that can bite. *)
EXTENDS CrossFold

Symbols == 1..4
Remembered == {3, 4}

Few(S, n)      == UNION {kSubset(k, S) : k \in 0..n}
Pairs(S, kind) == {e \in [source : S, target : S, kind : {kind}] : e.source # e.target}
Graphs(kinds, edges) == [kind : kinds, edges : edges]

\* Symbol 3 has no node: an import nobody provides.
AllCode == [x \in Symbols |-> IF x = 3 THEN "none" ELSE "code"]
Diamond == {[source |-> 2, target |-> 1, kind |-> "calls"], [source |-> 3, target |-> 1, kind |-> "calls"],
            [source |-> 4, target |-> 2, kind |-> "calls"], [source |-> 4, target |-> 3, kind |-> "calls"]}

WalkQuestions == {q \in
    [graph : Graphs({AllCode}, Few(Pairs(Symbols, "calls"), 3) \cup {Diamond}), use : {"walk"},
     engine : {"memory", "sqlite"}, seeds : {<<1>>, <<1, 4>>}, dir : Directions,
     depth : 0..2, cap : {1, 2, 4}] : q.depth = 0 => Len(q.seeds) <= q.cap}

\* Files import files; code and files call.
BlastKinds == {<<"code", "file", "file", "file">>, <<"code", "file", "code", "file">>,
               <<"file", "file", "file", "code">>}
\* A file that imports its way in and calls a file that imports it back.
Transit == {[source |-> 2, target |-> 1, kind |-> "calls"], [source |-> 3, target |-> 2, kind |-> "imports"],
            [source |-> 4, target |-> 3, kind |-> "imports"], [source |-> 3, target |-> 4, kind |-> "calls"]}
BlastQuestions ==
    UNION {[graph : Graphs({k}, Few(Pairs(Symbols, "calls")
                                    \cup Pairs({x \in Symbols : k[x] = "file"}, "imports"), 3)
                                \cup (IF k[3] = "file" /\ k[4] = "file" THEN {Transit} ELSE {})),
            use : {"blast"}, engine : {"sqlite"}, seeds : {<<1>>}, dir : {"dependents"},
            depth : 1..2, cap : {2, 4}] : k \in BlastKinds}

HomeCode == [x \in Symbols |-> IF x \in Remembered THEN "none" ELSE "code"]
RecallQuestions ==
    [graph : Graphs({HomeCode}, Few(Pairs({1, 2}, "calls"), 1)), use : {"recall"},
     engine : {"memory", "sqlite"}, seeds : {<<1>>, <<1, 2>>}, dir : {"dependents"}, depth : 1..2, cap : {1, 4}]

AllQuestions == WalkQuestions \cup BlastQuestions \cup RecallQuestions
=============================================================================
