----------------------------- MODULE MCSourceLinks -----------------------------
(***************************************************************************)
(* An instance of SourceLinks for TLC: two documents that share an end, so  *)
(* a walk of two hops crosses from one to the other.                       *)
(***************************************************************************)
EXTENDS SourceLinks

CONSTANTS Repo, Issue  \* a control end and a knowledge end

\* The second content drops document 1, keeps 2 with other links and adds 3.
Older == [d \in {1, 2} |-> IF d = 1 THEN {Repo, Issue} ELSE {Issue}]
Newer == [d \in {2, 3} |-> IF d = 2 THEN {Repo} ELSE {Issue}]
TwoContents == {Older, Newer}
TwoWalks == {<<Repo, 2>>, <<2, 1>>}
=============================================================================
