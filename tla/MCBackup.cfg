SPECIFICATION FairSpec
CONSTANTS
    MaxFiles = 2
    MaxToken = 2
    PageLimit = 2
    MaximumRetries = 2
    Dir = {d1, d2}
    NoDir = NoDir
INVARIANTS
    StagingSafe
PROPERTIES
    OneOutcome
    OperationEnds
