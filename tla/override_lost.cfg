SPECIFICATION Spec
CONSTANTS
    Clients = {}
    ClientRequests = {}
    ConsoleRequests = {}
    ManualAmps = {20}
    MayQuit = FALSE
    Times <- BoundaryTimes
    PanelValues <- AnyPanelValues
    MaxFaults = 0
    CheckModeTimeout = 1
    MaxPassTime = 1
PROPERTIES OverrideKept
