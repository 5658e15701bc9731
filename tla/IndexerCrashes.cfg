\* Runs that die between any two transactions, under releases, an override and
\* changed rules in between; only the caller is deleted.
SPECIFICATION Spec
CONSTANTS
    Files        <- ThreeFiles
    Names        = {"x"}
    FileName     = FileName
    Dir          <- TwoDirs
    Texts        <- EditTexts
    Deletable    = {1}
    Absent       = Absent
    NoDigest     = NoDigest
    Cleared      = Cleared
    Environments <- Releases
    Upgrades     <- Forward
    MaxEdits     = 4
    MaxCrashes   = 2
INVARIANTS
    DigestCertifiesNodes
PROPERTIES
    RefsAccounted
    WholeRunRepairs
    CompletedRunIsCurrent
    WriteLastKeysCertify
