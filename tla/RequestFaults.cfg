\* Crashes, restarts and failing statements.
CONSTANTS
    d1 = d1
    d2 = d2
    text = text
    Drivers <- MCOneDriver
    Replies <- MCReplies
    SeedRequests <- MCSeedRequests
    SeedNotifications <- MCSeedNotifications
    MaxRequests = 2
    WithPendingSeed = FALSE
SPECIFICATION FaultySpec
INVARIANTS
    RequestInsertNeverConflicts
    NoNoticeOfUnmadeDecision
