------------------------------ MODULE MCIndexer ------------------------------
(***************************************************************************)
(* Instances of Indexer for TLC: file 1 calls x and imports file 2; files 2 *)
(* and 3 may define x.                                                     *)
(***************************************************************************)
EXTENDS Indexer

Text(defs, refs) == [defs |-> defs, ends |-> {}, refs |-> refs, opaque |-> FALSE]
Minified         == [defs |-> {}, ends |-> {}, refs |-> {}, opaque |-> TRUE]

\* The definition n with a parameter, a return value, or both.
Flowing(n, ends, refs) ==
    [Text({n}, refs) EXCEPT !.ends = [name : {n}, end : ends]]

Call(n)  == [kind |-> "calls", to |-> n]
CallX    == Call("x")
ImportOf(f) == [kind |-> "imports", to |-> f]

ThreeFiles == {1, 2, 3}
OneDir     == [f \in ThreeFiles |-> "src"]
\* Files 1 and 2 share a directory, so x binds to file 2 before file 3.
TwoDirs    == [f \in ThreeFiles |-> IF f = 3 THEN "lib" ELSE "src"]

CallerTexts == {Text({}, {CallX, ImportOf(2)})}
CalleeTexts == {Flowing("x", {"param"}, {}), Text({}, {})}
EditTexts ==
    [f \in ThreeFiles |->
        CASE f = 1 -> CallerTexts \cup {Text({}, {CallX, ImportOf(2), ImportOf(3)})}
          [] f = 2 -> CalleeTexts
          [] f = 3 -> {Flowing("x", {"return"}, {}), Text({}, {ImportOf(2)})}]
\* File 3 calls y of file 1, which calls x of file 2: each imports what it calls.
FlowTexts ==
    [f \in ThreeFiles |->
        CASE f = 1 -> {Flowing("y", {"param"}, {CallX, ImportOf(2)}), Flowing("y", {"param", "return"}, {})}
          [] f = 2 -> {Text({}, {}), Flowing("x", {"param"}, {}), Flowing("x", {"param", "return"}, {})}
          [] f = 3 -> {Text({}, {Call("y"), ImportOf(1)}), Text({}, {Call("y"), ImportOf(1), CallX, ImportOf(2)})}]
\* What FlowTexts leaves out: a definition that loses its parameter, a caller that
\* does not import what it calls, a second definition that shadows the first, a file
\* that extraction skips.
LostParamTexts == [FlowTexts EXCEPT ![2] = @ \cup {Flowing("x", {}, {})}]
BarrelTexts    == [FlowTexts EXCEPT ![3] = {Text({}, {Call("y")})}]
ShadowTexts    == [FlowTexts EXCEPT ![3] = {Flowing("x", {"param"}, {}), Flowing("x", {"param", "return"}, {})}]
OpaqueTexts    == [FlowTexts EXCEPT ![2] = @ \cup {Minified}]

MinifiedTexts ==
    [f \in ThreeFiles |-> IF f = 2 THEN CalleeTexts \cup {Minified} ELSE CallerTexts]

-----------------------------------------------------------------------------
Env(version, scheme, overrides, rules) ==
    [version |-> version, scheme |-> scheme, overrides |-> overrides, rules |-> rules,
     records |-> version > 1]

OneEnvironment == {Env(2, 2, 0, 0)}
NoUpgrade      == {}

\* A release that changes the id scheme, an override installed, and a change of
\* the extra-edge rules.
Releases == {Env(1, 1, 0, 0), Env(2, 2, 0, 0), Env(2, 2, 1, 0), Env(2, 2, 1, 1)}
Forward  == {<<Env(1, 1, 0, 0), Env(2, 2, 0, 0)>>, <<Env(2, 2, 0, 0), Env(2, 2, 1, 0)>>,
             <<Env(2, 2, 1, 0), Env(2, 2, 1, 1)>>}

Overrides == {Env(1, 1, 0, 0), Env(1, 1, 1, 0)}
Toggle    == {p \in Overrides \X Overrides : p[1] # p[2]}
=============================================================================
