SPECIFICATION Spec
CONSTANTS
    Clients = {c1, c2}
    ClientRequests = {"Grid", "Boost"}
    ConsoleRequests = {}
    ManualAmps = {}
    MayQuit = FALSE
    Times <- PeakTimes
    PanelValues <- AnyPanelValues
    MaxFaults = 0
    CheckModeTimeout = 1
    MaxPassTime = 1
PROPERTIES RequestActedOn
