\* Two servers, every writer, requests overlapping writes.
SPECIFICATION Spec
CONSTANTS
    Servers     = {a, b}
    Writes      = {"index", "evidence", "unversioned"}
    NoAnswer    = NoAnswer
    NoVersion   = NoVersion
    MaxVersion  = 2
    MaxRevision = 2
    MaxFileTime = 1
SYMMETRY ServerSymmetry
INVARIANTS
    CacheTypeOK
    QuietBumpHeals
