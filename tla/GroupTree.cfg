\* Five groups, one call at a time, no group with children deleted: the tables
\* agree.
SPECIFICATION CarefulSpec
CONSTANTS
    Groups = {g1, g2, g3, g4, g5}
    Calls = {c1}
    None = None
    MaxDepth = 5
SYMMETRY Symmetry
\* All ids are given and the groups deleted: the end.
CHECK_DEADLOCK FALSE
INVARIANTS
    ClosureMirrorsParents
    DepthIsDistance
    MoveLinksFit
