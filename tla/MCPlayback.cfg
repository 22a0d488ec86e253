SPECIFICATION Spec
CONSTANTS
    MaxTries = 2
    MaxTimers = 1
    MaxEvents = 1
    MaxHandles = 2
    MaxRequests = 1
INVARIANTS
    PlaybackInv
    PlayedIsServed
    CoverSettles
CHECK_DEADLOCK FALSE
