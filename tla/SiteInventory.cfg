\* One push at a time, of a probe that sees MACs or of one that does not.
SPECIFICATION Spec
CONSTANTS
    Probes = {p1, p2}
    ArpProbes = {p1}
    Macs = {m1, m2}
    Ips = {a1, a2}
    Pushes = {h1}
    None = None
    MaxRows = 4
    Kinds = {"create", "edit", "delete", "drop"}
    MaxRequests = 1
    MaxChanges = 1
SYMMETRY Symmetry
\* The probes are deleted: the end.
CHECK_DEADLOCK FALSE
INVARIANTS
    TypeOK
    OneRowPerMac
PROPERTY
    PushesTouchOwnRows
