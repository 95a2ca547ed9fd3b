SPECIFICATION Spec
CONSTANTS
    MaxConnections = 2
    MaxClicks = 1
    MaxInFlight = 2
    MaxFlips = 1
CHECK_DEADLOCK FALSE
INVARIANTS TypeOK ServedAtMostOnce NewestStands
PROPERTIES ImplementsStatusFeed ViewConverges NewestDecides
