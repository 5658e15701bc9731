\* A run that dies between its write and its resolution.
SPECIFICATION Spec
CONSTANTS
    Files        <- ThreeFiles
    Names        = {"x"}
    FileName     = FileName
    Dir          <- OneDir
    Texts        <- EditTexts
    Deletable    = {}
    Absent       = Absent
    NoDigest     = NoDigest
    Cleared      = Cleared
    Environments <- OneEnvironment
    Upgrades     <- NoUpgrade
    MaxEdits     = 1
    MaxCrashes   = 1
PROPERTIES
    RefsSurviveCrashes
