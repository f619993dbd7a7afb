\* Crashes and restarts, statements do not fail.
CONSTANTS
    d1 = d1
    d2 = d2
    text = text
    Drivers <- MCDrivers
    Replies <- MCReplies
    SeedRequests <- MCSeedRequests
    SeedNotifications <- MCSeedNotifications
    MaxRequests = 3
    WithPendingSeed = TRUE
SPECIFICATION ServerSpec
INVARIANTS
    ServerTypeOK
    TablesAgreeWhenIdle
PROPERTIES
    ImplementsService
    DecisionsStand
