SPECIFICATION CardsSpec
CONSTANTS
    Gui = gui
    Proc = {gui, cli}
    server = server
    dav = dav
    MediaServer = {server}
    OtherService = {dav}
    Saved <- SavedServices
    Ref = {r1, r2}
    NoRef = NoRef
    Plain = Plain
    Nothing = Nothing
    MaxOps = 2
    MaxCrashes = 1
PROPERTIES
    ReferencedSecretsStay
CHECK_DEADLOCK FALSE
