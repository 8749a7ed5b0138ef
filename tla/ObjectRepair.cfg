\* Two objects in pages of one, a handler at a time, failures anywhere.
CONSTANTS
    Procs = {p1}
    Keys = {k1, k2}
    Objects = {1, 2}
    Revs = {1, 2, 3}
    Bodies = {b1}
    NULL = NULL
    MaxVersion = 2
    MaxCopies = 2
    MaxFaults = 1
    OverlappingRetries = FALSE
    BatchSize = 1
SPECIFICATION SpecRepair
SYMMETRY Symmetry
INVARIANT RepairRestores
CHECK_DEADLOCK FALSE
