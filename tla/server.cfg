SPECIFICATION Spec
CONSTANTS
    Clients = {c1, c2}
    MaxDescriptor = 3
    MaxRequests = 2
    PromptThreads = TRUE
CHECK_DEADLOCK FALSE
INVARIANTS TypeOK EachSocketHasItsThread SignalNeedsTwoRequests
PROPERTIES ImplementsStatusService EveryClientServed QuitEnds
