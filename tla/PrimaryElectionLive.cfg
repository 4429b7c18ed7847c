\* Calls that interleave: two pushes at a time and one request.
SPECIFICATION LiveSpec
CONSTANTS
    Probes = {p1, p2}
    Sites = {s1}
    Pushes = {h1, h2}
    Edits = {e1}
    None = None
CHECK_DEADLOCK FALSE
PROPERTY
    PrimaryReturns
