\* The edge tables with two support owners over a plain and a flow key.
SPECIFICATION Spec
CONSTANTS
    Symbols       <- SupportSymbols
    ImportSymbols = {}
    Files         = {1, 2}
    Revs          = {1}
    MaxEpoch      = 0
    NoNode        = NoNode
    Keys          <- SupportKeys
    FlowKeys      <- SupportFlow
    Contents      <- SupportContents
    NoEdge        = NoEdge
    Owners        = {p, q}
    FactIds       = {"x", "y"}
    MaxGeneration = 1
    NoRow         = NoRow
    Extractable   <- SupportExtractable
    Writable      <- SupportWritable
    Assertable    <- SupportAssertable
INVARIANTS
    PublicIsProjection
PROPERTIES
    ImplementsContract
