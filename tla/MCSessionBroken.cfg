\* A configuration file that cannot be parsed.
CONSTANTS
    Waiter = waiter
    Engine = engine
    Clients = {waiter, engine}
    Backlog = 1
    Configs = {"valid", "noInterface", "invalid", "broken"}
    MaxCrashes = 0
    Overlap = FALSE
SPECIFICATION SessionSpec
PROPERTY BrokenConfigGivesUp
CHECK_DEADLOCK FALSE
