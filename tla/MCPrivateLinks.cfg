SPECIFICATION Spec
CONSTANTS
    k = k
    m = m
    Links = {k}
    Media = {m}
    First <- Played
    PageSize = 1
    None = None
    MaxStarts = 1
    MaxRare = 1
INVARIANT
    LinkPageHidesPrivate
