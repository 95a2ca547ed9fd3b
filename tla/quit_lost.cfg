SPECIFICATION Spec
CONSTANTS
    Clients = {}
    ClientRequests = {}
    ConsoleRequests = {}
    ManualAmps = {}
    MayQuit = TRUE
    Times <- PeakTimes
    PanelValues <- AnyPanelValues
    MaxFaults = 1
    CheckModeTimeout = 1
    MaxPassTime = 1
PROPERTIES QuitTerminates
CHECK_DEADLOCK FALSE
