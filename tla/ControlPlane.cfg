\* Two handlers that interleave at every call, a failure anywhere.
CONSTANTS
    Procs = {p1, p2}
    Projects = {i1, i2}
    Slugs = {s1, s2}
    Creds = {c1, c2}
    Kids = {k1, k2, k3}
    Shared = {d1}
    Links = {l1, l2}
    NULL = NULL
    MaxRequests = 4
    MaxFaults = 2
SPECIFICATION Spec
SYMMETRY Symmetry
INVARIANTS RotationRetires RevealedIsManageable SlugsResolve LinksCanBeRevoked TokensSurviveRotation
PROPERTY DeletedStaysDeleted
CHECK_DEADLOCK FALSE
