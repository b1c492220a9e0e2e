SPECIFICATION Spec
CONSTANTS
    Sources <- MCSources
    DocumentTypes <- MCDocumentTypes
    BuiltIn <- MCBuiltIn
    Shipped <- MCShipped
    Spellings <- MCSpellings
    Canonical <- MCCanonical
    Processes = {server, command}
    Server = server
    HasDatabase = TRUE
    Faults = {"connect", "disk", "crash"}
    NoName = NoName
INVARIANTS
    BuiltInsStay
    ServerRemembers
PROPERTIES
    KnownAtStart
