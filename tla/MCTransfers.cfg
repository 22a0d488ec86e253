CONSTANTS
    f = f
    c1 = c1
    c2 = c2
    c3 = c3
    x1 = x1
    Task = {c1, c2, x1}
    Group = {f}
    NoGroup = NoGroup
    Parent <- SmallParent
    GroupOrder <- SmallOrder
    IsUpload = {f}
    Direction <- SmallDirection
    RetainPartial = {x1}
    StrongEtag = {x1}
    SizeKnown = {c1, c2}
    MaxConcurrentDownloads = 1
    MaxAutomaticRetryCount = 2
SPECIFICATION FairSpec
PROPERTIES
    RetainedBytesSurvive TransfersProgress
