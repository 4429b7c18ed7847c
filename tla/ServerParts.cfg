\* Five sockets of a probe; one tunnel and two requests on it; one device, two
\* probes and two loads; two flows and two handlers; a chain of three groups and
\* two teams; two persons of one user name and two sign-ins.
SPECIFICATION Spec
CONSTANTS
    Turns = 11
    NumSockets = 5
    MaxBreaks = 2
    Requests = {1, 2}
    MaxCloses = 2
    MaxPieces = 2
    Devices = {d1}
    NoMac = {}
    Probes = {p1, p2}
    Primary = {p1}
    Loads = {1, 2}
    MaxChanges = 2
    MaxDrops = 1
    Flows = {f1, f2}
    Handlers = {h1, h2}
    MaxReports = 3
    MaxRows = 6
    MaxClears = 1
    Groups = {g1, g2, g3}
    Root = Root
    Teams = {t1, t2}
    Savers = {s1, s2}
    MaxChangesMade = 2
    NumPersons = 2
    SignIns = {1, 2}
    MaxMishaps = 1
\* Every part has an end.
CHECK_DEADLOCK FALSE
INVARIANTS
    ServerPartsTypeOK
    DoneClosedOnce
    FlowsAddUp
    
    OwnAccount
PROPERTIES
    ConnectedStaysRegistered
    DialingProbeSettles
    NothingIsLeft
    RequestsAreAnswered
    PageCatchesUp
    PersonGetsIn
