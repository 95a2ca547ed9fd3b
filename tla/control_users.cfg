SPECIFICATION Spec
CONSTANTS
    Clients = {c1}
    ClientRequests = {"Grid", "Boost"}
    ConsoleRequests = {}
    ManualAmps = {20}
    MayQuit = TRUE
    Times <- PeakTimes
    PanelValues <- SettledPanelValues
    MaxFaults = 1
    CheckModeTimeout = 0
    MaxPassTime = 0
INVARIANTS ContextWhenUsed OneRequestPending
PROPERTIES RequestActedOn QuitStands QuitFromProcess ConsoleKeepsContext
CHECK_DEADLOCK FALSE
