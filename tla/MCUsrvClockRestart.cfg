\* The server is restarted while a client is connected.
CONSTANTS
    Clients = {engine}
    Backlog = 1
SPECIFICATION ClockSpec
PROPERTY ClientReconnects
