SPECIFICATION FairSpec
CONSTANTS
    Databases = {"main", "other", "third"}
    PortTaken = FALSE
    LogFails = FALSE
INVARIANTS
    HostSurvives
    ReturnsToAServer
PROPERTY FirstLoadServes
CHECK_DEADLOCK FALSE
