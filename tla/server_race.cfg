SPECIFICATION Spec
CONSTANTS
    Clients = {c1, c2}
    MaxDescriptor = 3
    MaxRequests = 2
    PromptThreads = FALSE
CHECK_DEADLOCK FALSE

INVARIANTS NoConnectionShared
