\* Four tunnels of two users, two openings at a time. Only the cleanup closes.
SPECIFICATION Spec
CONSTANTS
    Tunnels = {t1, t2, t3, t4}
    Users = {u1, u2}
    Probes = {p1}
    Calls = {c1, c2}
    None = None
    MaxPerUser = 1
    MaxPerTenant = 2
    MaxClosing = 0
    MaxRestarts = 0
SYMMETRY Symmetry
\* All ids are used: the end.
CHECK_DEADLOCK FALSE
INVARIANTS
    TypeOK
    UserLimit
    TenantLimit
