\* Two handlers, two files, two albums within a depth of two.
SPECIFICATION Spec
CONSTANTS
    Procs = {p1, p2}
    Files = {f1, f2}
    Shorts = {s1}
    AlbumIds = {a1, a2, a3}
    AlbumNames = {n1, n2}
    MaxDepth = 2
    NULL = NULL
    MaxRequests = 5
    MaxFaults = 1
SYMMETRY Symmetry
INVARIANTS BlockSticks LinksResolve Rooted
CHECK_DEADLOCK FALSE
