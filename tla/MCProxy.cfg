SPECIFICATION FairSpec
CONSTANTS
    Sess = {s1}
    Sockets = {c1}
    MaxPreviews = 2
    Urls = {u1, u2}
    MaxChanges = 1
    MaxJobs = 1
    MaxRetries = 1
    CacheMax = 1
INVARIANTS
    
    NothingAfterRevoke
    MissingIsTold
PROPERTIES
    EveryoneAnswered
CHECK_DEADLOCK FALSE
