SPECIFICATION Spec
CONSTANTS
    MaxConnects = 1
    MaxCommands = 2
PROPERTY PromisesSettle
CHECK_DEADLOCK FALSE
