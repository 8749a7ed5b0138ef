\* Four files: two that failed and are retried while a third is sent, and one that
\* is picked after one of the two walks has ended.  Three clicks at any moment.
CONSTANTS
    Entries = {1, 2, 3, 4}
    NULL = NULL
    MaxClicks = 3
SPECIFICATION FairSpec
INVARIANT SentOnce
PROPERTIES WaitingIsSent UploadedIsListed
CHECK_DEADLOCK FALSE
