----------------------------- MODULE MCGraphStore -----------------------------
(***************************************************************************)
(* Instances of GraphStore for TLC.                                        *)
(***************************************************************************)
EXTENDS GraphStore

Key(s, t, kind) == [source |-> s, target |-> t, kind |-> kind]
Rec(f, d, r)    == [file |-> f, isDef |-> d, rev |-> r]
Content(c, v, f, i) == [confidence |-> c, evidence |-> v, file |-> f, factKey |-> i]

-----------------------------------------------------------------------------
(* Nodes: two File symbols that import one specifier, and a C++ symbol      *)
(* declared in file 1 and defined in file 2 or the other way round.         *)
NodesSymbols == {"file1", "file2", "lib", "cpp"}
NodesImports == {"lib"}
NodesKeys    == {Key("file1", "lib", "imports"), Key("file2", "lib", "imports")}
NodesContents == {Content(1, 0, 1, 1), Content(1, 0, 2, 2), Content(1, 0, 0, 3)}
NodesExtractable ==
    [s \in NodesSymbols |->
        CASE s = "file1" -> {Rec(1, 1, 1)}
          [] s = "file2" -> {Rec(2, 1, 1)}
          [] s = "lib"   -> {Rec(1, 1, 1), Rec(2, 1, 1)}
          [] s = "cpp"   -> {Rec(1, 1, 1), Rec(1, 0, 2), Rec(2, 1, 1), Rec(2, 0, 2)}]
NodesWritable ==
    [k \in NodesKeys |-> IF k.source = "file1"
                         THEN {Content(1, 0, 1, 1), Content(1, 0, 0, 3)}
                         ELSE {Content(1, 0, 2, 2)}]

-----------------------------------------------------------------------------
(* Support: a plain and a flow key between two symbols, three contents that *)
(* rank differently under the base rule and under the projection.           *)
SupportSymbols == {"a", "b"}
SupportKeys    == {Key("a", "b", "calls"), Key("a", "b", "flows_to")}
SupportFlow    == {k \in SupportKeys : k.kind = "flows_to"}
Weak     == Content(1, 0, 1, 2)
Strong   == Content(2, 0, 2, 3)
Audited  == Content(1, 1, 0, 1)
SupportContents == {Weak, Strong, Audited}
SupportExtractable ==
    [s \in SupportSymbols |-> IF s = "a" THEN {Rec(1, 1, 1)} ELSE {Rec(2, 1, 1)}]
Calls == Key("a", "b", "calls")
Flows == Key("a", "b", "flows_to")
SupportWritable == [k \in SupportKeys |-> IF k = Calls THEN SupportContents ELSE {Strong}]
SupportAssertable ==
    {[key |-> Calls, id |-> "x", edge |-> e] : e \in {Weak, Strong}}
        \cup {[key |-> Calls, id |-> "y", edge |-> Audited],
              [key |-> Flows, id |-> "x", edge |-> Weak]}
=============================================================================
