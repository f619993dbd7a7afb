\* Two admins with stale lists, one driver submitting, one reset.
CONSTANTS
    d1 = d1
    d2 = d2
    text = text
    Drivers <- MCDrivers
    Replies <- MCReplies
    SeedRequests <- MCSeedRequests
    SeedNotifications <- MCSeedNotifications
    MaxRequests = 2
    Tabs = {t1, t2}
    Calls = {1}
    ApproveText = text
    Reasons <- MCReplies
    MaxClicks = 2
    MaxResets = 1
    MaxLosses = 0
SPECIFICATION ConsoleSpec
INVARIANTS
    ConsoleTypeOK
    DecidedOnScreenIsDecided
    DecisionsHitTheirCard
