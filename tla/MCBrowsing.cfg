SPECIFICATION PartsSpec
CONSTANTS
    None = None
    Folders = {root, sub}
    Root = root
    Movies = {}
    Shows = {x}
    Seasons = {1, 2}
    Resumable = {x}
    Terms = {t}
    MaxPages = 2
    MaxResults = 2
    MaxDepth = 1
    MaxDetails = 2
    MediaCards = {e, j}
    EmbyCards = {e}
    DavCards = {w}
    PlaylistCards = {i}
    MaxCopies = 1
INVARIANTS
    
    EntryInv
PROPERTIES
    AppendsWhatIsNext
    RightServiceOnly
CHECK_DEADLOCK FALSE
