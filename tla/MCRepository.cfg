SPECIFICATION PartsSpec
CONSTANTS
    k = k
    m = m
    Links = {k}
    Media = {m}
    First <- Played
    PageSize = 1
    None = None
    MaxStarts = 1
    MaxRare = 1
    Gui = gui
    Proc = {gui, cli}
    MediaServer = {server}
    OtherService = {dav}
    Saved <- SavedServices
    Nothing = Nothing
    server = server
    dav = dav
    Ref = {r1, r2}
    NoRef = NoRef
    Plain = Plain
    MaxOps = 2
    MaxCrashes = 1
SYMMETRY RefSymmetry
INVARIANTS
    HistoryInv
    LinksMatch
    ServicesInv
PROPERTIES
    OrdinaryKeepsPrivate
    SecretsKept
    MovesKeepPrivatePlaces
CHECK_DEADLOCK FALSE
