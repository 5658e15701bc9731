---------------------------- MODULE MCMemoryTiers ----------------------------
(***************************************************************************)
(* Instances of MemoryTiers for TLC: the root and one project, whose        *)
(* memories may be restricted by a facet.                                  *)
(***************************************************************************)
EXTENDS MemoryTiers

OneProject == {<<"root", "root">>, <<"root", "demo">>, <<"demo", "demo">>}
Place(s, f) == [scope |-> s, facets |-> f]
Contents == {"note", "summary", "fact", "name"}
OneText == [t \in Contents |-> IF t = "note" THEN {"fact"} ELSE {}]
OneName == [t \in Contents |-> IF t = "note" THEN {"name"} ELSE {}]

Input(kind, place) == [kind |-> kind, tier |-> "episodic", place |-> place, text |-> "note"]
Inputs == {Input("episode", Place("demo", "alice")), Input("working", Place("demo", "alice"))}

\* A root summary by 0.29.0 of scratch and of an episode of the project, and an
\* episode of the root that no pass has met.
Old(id, kind, s, tier, text, sources) ==
    [id |-> id, kind |-> kind, tier |-> tier, place |-> Place(s, "none"), born |-> 0,
     text |-> text, used |-> FALSE, sources |-> sources]
ByOldReleases ==
    {{}, {Old(1, "episode", "root", "episodic", "note", {})},
         {Old(1, "working", "demo", "archival", "summary", {}),
          Old(2, "episode", "demo", "archival", "summary", {}),
          Old(3, "archive", "root", "archival", "summary", {1, 2})}}
=============================================================================
