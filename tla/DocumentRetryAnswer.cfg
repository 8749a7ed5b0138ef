\* One handler at a time: a create whose receipt is lost, a patch of its record,
\* then the create again.
CONSTANTS
    Procs = {p1}
    Keys = {k1, k2}
    Records = {r1}
    Events = {1, 2, 3}
    Vals = {v1, v2}
    NULL = NULL
    MaxVersion = 3
    MaxFaults = 1
    OverlappingRetries = FALSE
SPECIFICATION Spec
SYMMETRY Symmetry
INVARIANT RetryReturnsOriginalResult
CHECK_DEADLOCK FALSE
