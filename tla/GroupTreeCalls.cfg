\* Three groups, two calls that interleave, any new parent, any delete.
SPECIFICATION Spec
CONSTANTS
    Groups = {g1, g2, g3}
    Calls = {c1, c2}
    None = None
    MaxDepth = 3
SYMMETRY Symmetry
\* All ids are given and the groups deleted: the end.
CHECK_DEADLOCK FALSE
INVARIANT
    NothingDangles
