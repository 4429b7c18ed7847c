\* The liveness of one uninstall request, two push handlers at a time.
SPECIFICATION FairSpec
CONSTANTS
    Requests = {r1}
    Pushes = {h1, h2}
    Kinds = {"update", "uninstall"}
    None = None
    MaxReg = 2
    MaxQueue = 1
CHECK_DEADLOCK FALSE
PROPERTIES
    UninstalledIsReaped
    QueuedIsTaken
