SPECIFICATION Spec
CONSTANTS
    command = command
    program = program
    page = page
    Commands = {}
    Programs <- OneProgram
    Pages <- OnePage
    MaxCalls = 2
CHECK_DEADLOCK FALSE
INVARIANTS
    TypeOK
    NothingForStrangers
    OwnResultUntilTrouble
PROPERTIES
    EveryCallEnds
    GoneIsForgotten
