\* The node tables under indexing, removal, erasure and prune: two files, no support.
SPECIFICATION Spec
CONSTANTS
    Symbols       <- NodesSymbols
    ImportSymbols <- NodesImports
    Files         = {1, 2}
    Revs          = {1, 2}
    MaxEpoch      = 1
    NoNode        = NoNode
    Keys          <- NodesKeys
    FlowKeys      = {}
    Contents      <- NodesContents
    NoEdge        = NoEdge
    Owners        = {}
    FactIds       = {}
    MaxGeneration = 0
    NoRow         = NoRow
    Extractable   <- NodesExtractable
    Writable      <- NodesWritable
    Assertable    = {}
INVARIANTS
    TypeOK
    PrimaryIsPreferred
    SearchMirrorsNodes
PROPERTIES
    RemovalIsExact
