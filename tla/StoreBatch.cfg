\* A knowledge engine and index runs on one file, with a server that fills its cache.
SPECIFICATION FairSpec
CONSTANTS
    Clients   = {"knowledge", "index"}
    OnError   <- Careful
    Servers   = {"server"}
    Keys      = {1, 2}
    Units     = {{1, 2}, {2}}
    Nobody    = Nobody
    MaxUnits  = 2
    MaxFaults = 2
    MaxPuts   = 1
CHECK_DEADLOCK FALSE
INVARIANTS
    BatchTypeOK
PROPERTIES
    CommitsWholeUnits
    UnitsLand
