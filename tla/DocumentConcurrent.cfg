\* Two handlers that interleave at every call, failures anywhere.
CONSTANTS
    Procs = {p1, p2}
    Keys = {k1, k2}
    Records = {r1}
    Events = {1, 2, 3, 4}
    Vals = {v1}
    NULL = NULL
    MaxVersion = 3
    MaxFaults = 1
    OverlappingRetries = FALSE
SPECIFICATION Spec
SYMMETRY Symmetry
INVARIANTS JournalFirst Lineage HistoryHasNoHoles OneRevisionPerKey
CHECK_DEADLOCK FALSE
