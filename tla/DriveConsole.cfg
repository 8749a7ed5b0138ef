\* The page and one other caller, an object beside a folder and one in it.
SPECIFICATION Spec
CONSTANTS
    Procs = {p1, p2}
    Callers = {page, other}
    Page = page
    Keys <- MCKeys
    Folders <- MCFolders
    Contents = {c1, c2}
    Names = {"a", "b"}
    Patterns <- MCPatterns
    NULL = NULL
    MaxRequests = 3
    MaxFaults = 1
    MaxLists = 2
    MaxOps = 2
SYMMETRY Symmetry
INVARIANTS BytesSurvive TrashHides ShowsWhereItIs
CHECK_DEADLOCK FALSE
