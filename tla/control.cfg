SPECIFICATION Spec
CONSTANTS
    Clients = {}
    ClientRequests = {}
    ConsoleRequests = {"Grid", "Boost"}
    ManualAmps = {}
    MayQuit = FALSE
    Times <- BoundaryTimes
    PanelValues <- AnyPanelValues
    MaxFaults = 2
    CheckModeTimeout = 1
    MaxPassTime = 1
INVARIANTS TypeOK ContextWhenUsed RegistersFollowState StateFollowsWindow FreshReadback
PROPERTIES ImplementsModeControl EventuallySettled
