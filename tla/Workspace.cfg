\* Two files, one album, one retry, clicks and reloads at any moment, and any
\* write to IndexedDB lost.
CONSTANTS
    Files = {f1, f2}
    Albums = {a1}
    NULL = NULL
    MaxRetries = 1
    MaxCalls = 5
SPECIFICATION WorkspaceFairSpec
INVARIANTS StagedIsKept PushingIsQueued AlbumIsFiled OneFileAtATime
PROPERTY RunsFinish
CHECK_DEADLOCK FALSE
