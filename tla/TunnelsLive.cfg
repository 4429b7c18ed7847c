\* Two tunnels, two openings at a time, and a restart of the server.
SPECIFICATION FairSpec
CONSTANTS
    Tunnels = {t1, t2}
    Users = {u1}
    Probes = {p1}
    Calls = {c1, c2}
    None = None
    MaxPerUser = 1
    MaxPerTenant = 1
    MaxClosing = 1
    MaxRestarts = 1
CHECK_DEADLOCK FALSE
PROPERTIES
    ImplementsLifecycle
    SlotsAreFreed
