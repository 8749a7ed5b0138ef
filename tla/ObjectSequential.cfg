\* One handler at a time, failures anywhere, retries of every key.
CONSTANTS
    Procs = {p1}
    Keys = {k1, k2}
    Objects = {1}
    Revs = {1, 2, 3}
    Bodies = {b1}
    NULL = NULL
    MaxVersion = 3
    MaxCopies = 3
    MaxFaults = 2
    OverlappingRetries = FALSE
SPECIFICATION FairSpec
INVARIANTS AnswersStayTrue AcknowledgedIsListed
PROPERTIES ImplementsVersionedObjects RetriesRecover
CHECK_DEADLOCK FALSE
