\* `start` while `stop` has yet to clean up.
CONSTANTS
    Waiter = waiter
    Engine = engine
    Clients = {waiter, engine}
    Backlog = 1
    Configs = {"valid", "noInterface", "invalid", "broken"}
    MaxCrashes = 0
    Overlap = TRUE
SPECIFICATION SessionSpec
PROPERTY ComesUp
CHECK_DEADLOCK FALSE
