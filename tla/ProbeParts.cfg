\* Three levels of settings and two answers at a time; one connection; two
\* downloads at a time.
SPECIFICATION Spec
CONSTANTS
    Turns = 8
    NumGroups = 0
    Values = {v1}
    Default = d
    Builds = {1, 2}
    Nobody = Nobody
    Preset = {1, 2}
    MaxEdits = 1
    MaxLosses = 1
    MaxWire = 1
    MaxRescans = 2
    Updaters = {1, 2}
    NumChunks = 2
    MaxFiles = 2
    MaxTroubles = 2
\* Connections and updates end.
CHECK_DEADLOCK FALSE
INVARIANTS
    ProbePartsTypeOK
    NearestWins
    ExeIsWhole
PROPERTIES
    ConfigCatchesUp
    ConnectionEnds
    RunningProbeIsUpdated
    UpdatedBadgeEnds
