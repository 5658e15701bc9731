\* Two calls that may stop anywhere, an end deleted and re-added, and one reader.
SPECIFICATION Spec
CONSTANTS
    Repo             = Repo
    Issue            = Issue
    Docs             = {1, 2, 3}
    ControlEnds      = {Repo}
    KnowledgeEnds    = {Issue}
    Contents         <- TwoContents
    MaxGeneration    = 2
    MaxCalls         = 2
    MaxEpoch         = 1
    Walks            <- TwoWalks
    NeighborAttempts = 2
INVARIANTS
    LinksTypeOK
    WalkIsOneState
    CatalogIsOneGeneration
PROPERTIES
    ImplementsSource
    LinksStayBound
