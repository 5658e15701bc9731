\* Edits, deletions, restorations and --force between runs that all complete, over
\* calls whose arguments and results flow; each caller imports what it calls.
SPECIFICATION FairSpec
CONSTANTS
    Files        <- ThreeFiles
    Names        = {"x", "y"}
    FileName     = FileName
    Dir          <- TwoDirs
    Texts        <- FlowTexts
    Deletable    <- ThreeFiles
    Absent       = Absent
    NoDigest     = NoDigest
    Cleared      = Cleared
    Environments <- OneEnvironment
    Upgrades     <- NoUpgrade
    MaxEdits     = 4
    MaxCrashes   = 0
INVARIANTS
    IndexTypeOK
PROPERTIES
    ImportsAccounted
    LikeAFirstIndex
    IndexCatchesUp
