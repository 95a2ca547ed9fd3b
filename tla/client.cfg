SPECIFICATION Spec
CONSTANTS
    MaxInFlight = 2
    MaxFaults = 2
CHECK_DEADLOCK FALSE
INVARIANTS TypeOK SocketNotLeaked PayloadNotLeaked EndsOnlyWhileReconnecting
PROPERTIES ImplementsStatusFeed WindowRecovers
