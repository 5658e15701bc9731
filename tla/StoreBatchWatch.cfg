\* watch, which goes on with the same store after an error, and a server.
SPECIFICATION FairSpec
CONSTANTS
    Clients   = {"watch"}
    OnError   <- Heedless
    Servers   = {"server"}
    Keys      = {1, 2}
    Units     = {{1, 2}, {2}}
    Nobody    = Nobody
    MaxUnits  = 2
    MaxFaults = 0
    MaxPuts   = 1
CHECK_DEADLOCK FALSE
PROPERTIES
    UnitsLand
