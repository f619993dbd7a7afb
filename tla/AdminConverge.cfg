\* One tab whose polls, decisions and refreshes overlap.
CONSTANTS
    d1 = d1
    d2 = d2
    text = text
    Drivers <- MCOneDriver
    Replies <- MCReplies
    SeedRequests <- MCSeedRequests
    SeedNotifications <- MCSeedNotifications
    MaxRequests = 2
    Tabs = {t1}
    Calls = {1, 2}
    ApproveText = text
    Reasons <- MCReplies
    MaxClicks = 2
    MaxResets = 1
    MaxLosses = 1
SPECIFICATION FairConsoleSpec
INVARIANTS
    DecidedOnScreenIsDecided
PROPERTIES
    TabsConverge
