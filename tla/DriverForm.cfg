\* One driver, one form, two lost calls.
CONSTANTS
    d1 = d1
    d2 = d2
    text = text
    Drivers <- MCOneDriver
    Replies <- MCReplies
    SeedRequests <- MCSeedRequests
    SeedNotifications <- MCSeedNotifications
    MaxRequests = 4
    Calls = {1, 2}
    MaxForms = 1
    MaxSwitches = 1
    MaxDecisions = 0
    MaxLosses = 2
SPECIFICATION PortalSpec
INVARIANTS
    OneRequestPerForm
PROPERTIES
    ButtonReturns
