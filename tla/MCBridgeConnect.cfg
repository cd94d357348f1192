SPECIFICATION Spec
CONSTANTS
    command = command
    program = program
    page = page
    Commands <- OneCommand
    Programs = {}
    Pages = {}
    MaxCalls = 1
CHECK_DEADLOCK FALSE
INVARIANT ConnectAuthenticates
