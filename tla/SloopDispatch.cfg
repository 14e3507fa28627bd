SPECIFICATION Spec
CONSTANTS
    NSocket = 3
    NTimeout = 0
    NSignal = 1
    Fd = {1, 2}
    SigNo = {15}
    Delay = {0}
    Gran = 1
    MaxTime = 0
    MaxPipe = 1
INVARIANTS PoolIntegrity CursorInList OncePerPass NoneSkipped Registrations
CHECK_DEADLOCK FALSE
