\* Two drivers selected in turn, overlapping polls and loads, a decision or a
\* reset; no forms.
CONSTANTS
    d1 = d1
    d2 = d2
    text = text
    Drivers <- MCDrivers
    Replies <- MCReplies
    SeedRequests <- MCSeedRequests
    SeedNotifications <- MCSeedNotifications
    MaxRequests = 1
    Calls = {1, 2}
    MaxForms = 0
    MaxSwitches = 2
    MaxDecisions = 1
    MaxLosses = 1
SPECIFICATION PortalSpec
INVARIANTS
    PortalTypeOK
PROPERTIES
    PageFollowsSelection
