\* Two pushes at a time, of one probe or of two; a device comes or leaves, and a
\* row is deleted meanwhile.
SPECIFICATION FairSpec
CONSTANTS
    Probes = {p1, p2}
    ArpProbes = {p1}
    Macs = {m1, m2}
    Ips = {a1}
    Pushes = {h1, h2}
    None = None
    MaxRows = 2
    Kinds = {"delete"}
    MaxRequests = 1
    MaxChanges = 1
PROPERTIES
    LeaverGoesOffline
    StayerIsShown
