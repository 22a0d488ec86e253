SPECIFICATION FairSpec
CONSTANTS
    Task = {t1, t2}
    NoTask = NoTask
    SelfSigned = {}
    Target = 1
    ItemLength = 1
    MinPlayed = 1
    MaxCandidates = 1
    MaxFailures = 1
    ReadsFail = FALSE
    PromptEnds = TRUE
    EventBound = 1
INVARIANTS QueueServed PrivacyKept ForegroundFirst
PROPERTIES NoDueTaskDropped 
