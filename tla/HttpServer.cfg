\* Two clients, one call each, any pause and any end of either.  The run ends
\* when both calls have: the server then waits in accept.
CONSTANTS
    Clients <- MCClients
    Requests <- MCRequests
    Backlog = 1
SPECIFICATION Spec
INVARIANTS
    HttpTypeOK
    SentInTimeIsReadWhole
    NothingIsMadeOfHalfABody
    RoutedAsIntended
PROPERTIES
    EveryCallEnds
CHECK_DEADLOCK FALSE
