\* Three probes, two sites, one call at a time, no primary moved.
SPECIFICATION CarefulSpec
CONSTANTS
    Probes = {p1, p2, p3}
    Sites = {s1, s2}
    Pushes = {h1}
    Edits = {e1, e2}
    None = None
SYMMETRY Symmetry
\* Probes are switched off or deleted and all requests made: the end.
CHECK_DEADLOCK FALSE
INVARIANTS
    OnePrimary
PROPERTY
    PushLeavesPrimary
