\* Two administrators' requests of any kind, two push handlers at a time, the
\* probe registered up to twice.
SPECIFICATION Spec
CONSTANTS
    Requests = {r1, r2}
    Pushes = {h1, h2}
    Kinds = {"update", "uninstall"}
    None = None
    MaxReg = 2
    MaxQueue = 1
SYMMETRY Symmetry
\* A probe that is uninstalled, its row deleted and all requests made: the end.
CHECK_DEADLOCK FALSE
INVARIANTS
    TypeOK
    OncePerRoad
    UninstalledIsStamped
