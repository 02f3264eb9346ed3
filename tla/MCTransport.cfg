SPECIFICATION Spec
CONSTANTS
    MaxClients = 3
    MaxConnects = 3
    MaxCommands = 4
    MaxFailures = 2
INVARIANTS
    TypeOK
    PolledOnce
    RecordOfSessions
PROPERTIES
    ClosedForCause
    EveryoneServed
CHECK_DEADLOCK FALSE
