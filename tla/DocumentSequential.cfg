\* One handler at a time, failures anywhere, retries of every key.
CONSTANTS
    Procs = {p1}
    Keys = {k1, k2}
    Records = {r1}
    Events = {1, 2, 3}
    Vals = {v1, v2}
    NULL = NULL
    MaxVersion = 3
    MaxFaults = 2
    OverlappingRetries = FALSE
SPECIFICATION FairSpec
INVARIANTS LiveRecordsAreListed AcknowledgedSurvives
PROPERTIES ImplementsVersionedRecords RetriesRecover
CHECK_DEADLOCK FALSE
