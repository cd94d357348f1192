SPECIFICATION Spec
CONSTANTS
    Invocations = {start, other}
    Pids = {1, 2}
CHECK_DEADLOCK FALSE
INVARIANTS
    TypeOK
    TokenFitsUnlessRivalled
    SignalsOnlyDaemonNumbers
PROPERTY EveryInvocationEnds
