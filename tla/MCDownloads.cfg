CONSTANTS
    f = f
    c1 = c1
    c2 = c2
    c3 = c3
    x1 = x1
    Task = {c1, c2, c3, x1}
    Group = {f}
    NoGroup = NoGroup
    Parent <- DownloadsParent
    GroupOrder <- DownloadsOrder
    IsUpload = {}
    Direction <- DownloadsDirection
    RetainPartial = {}
    StrongEtag = {}
    SizeKnown = {c1, c2, c3, x1}
    MaxConcurrentDownloads = 2
    MaxAutomaticRetryCount = 1
SPECIFICATION Spec
INVARIANTS
    ExclusiveSlots NoStall RowsConsistent
PROPERTIES
    DoneNotRedone
