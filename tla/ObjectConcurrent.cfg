\* Two handlers that interleave at every call, failures anywhere.
CONSTANTS
    Procs = {p1, p2}
    Keys = {k1, k2}
    Objects = {1}
    Revs = {1, 2, 3, 4}
    Bodies = {b1}
    NULL = NULL
    MaxVersion = 3
    MaxCopies = 2
    MaxFaults = 1
    OverlappingRetries = FALSE
SPECIFICATION Spec
SYMMETRY Symmetry
INVARIANTS TypeOK PointersResolve RevisionTree OneRevisionPerKey
CHECK_DEADLOCK FALSE
