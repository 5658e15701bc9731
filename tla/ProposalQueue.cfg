\* One server decides, another is started now and then; crashes and errors.
SPECIFICATION FairSpec
CONSTANTS
    Servers     = {a, b}
    Approvers   = {a}
    Rejecters   = {a}
    Kinds       = {"memory", "knowledge"}
    EdgeCount   = 2
    NoJournal   = NoJournal
    MaxAttempts = 4
    MaxFaults   = 3
    Faults      = {"crash", "error"}
INVARIANTS
    QueueTypeOK
    VisibleIsWhole
    ApprovedIsKept
PROPERTIES
    SweepsSettle
