---------------------------- MODULE SourceContract ----------------------------
(***************************************************************************)
(* What replacing a source promises: a reader of the source sees one        *)
(* complete generation and exactly the links that generation owns, and goes *)
(* from one to a newer one in a single step.                                *)
(***************************************************************************)
EXTENDS Integers

CONSTANTS
    Contents,       \* what a generation may hold: documents with the ends they link to
    MaxGeneration

VARIABLES
    generation,     \* the committed generation, 0 before the first
    documents,      \* the documents a reader finds, each with its content
    links           \* the links a reader finds: <<document, end>>

vars == <<generation, documents, links>>

NoDocuments == [d \in {} |-> {}]

LinksOf(content) == UNION {{d} \X content[d] : d \in DOMAIN content}

Init == generation = 0 /\ documents = NoDocuments /\ links = {}

Replace(g, content) ==
    /\ g > generation
    /\ generation' = g
    /\ documents' = content
    /\ links' = LinksOf(content)

Next == \E g \in 1..MaxGeneration, c \in Contents : Replace(g, c)

Spec == Init /\ [][Next]_vars
=============================================================================
