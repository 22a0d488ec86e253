SPECIFICATION FairSpec
CONSTANTS
    Job = {1, 2}
    NoJob = NoJob
    Kind <- TwoKinds
    Private = {1}
    NeedsSecret = {1, 2}
INVARIANTS
    DiskFollowsMemory  NoQueueStall
PROPERTIES
     StopEnds
