\* Captures, erasures, passes over either scope, and one fault: an error, a death or an erasure elsewhere.
SPECIFICATION FairSpec
CONSTANTS
    Above       <- OneProject
    Root        = "root"
    NoFacets    = "none"
    Capturable  <- Inputs
    FactsIn     <- OneText
    NamesIn     <- OneName
    TTL         = 1
    OldAge      = 2
    Legacy      <- ByOldReleases
    MaxTime     = 2
    MaxCalls    = 2
    MaxFaults   = 1
    MaxSummaries = 3
INVARIANTS
    TiersTypeOK
    NothingWidens
    ScratchLeavesNoTrace
    DerivedOnce
    FilesAgree
PROPERTIES
    PassCleans
    FoldedOnce
    ScratchGoes
