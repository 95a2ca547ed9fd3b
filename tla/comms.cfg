SPECIFICATION Spec
CONSTANTS
    Commands = {1, 2}
    Bodies <- TypeLikeBodies
    OBJECT_STATUS = 1
    StatusLength = 3
    ByteMod = 4
    MaxMessages = 3
CHECK_DEADLOCK FALSE
INVARIANTS TypeOK PayloadFits NoErrorUnlessCoalesced
PROPERTIES ImplementsMessageChannel EventuallyDelivered
