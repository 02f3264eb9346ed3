SPECIFICATION Spec
CONSTANTS
    MaxConnects = 2
    MaxCommands = 2
INVARIANTS
    TypeOK
    AnswersOwnCommand
    CallbackKept
    OpenEndsConnecting
PROPERTIES
    StaysUp
    ImplementsRemoteCall
CHECK_DEADLOCK FALSE
