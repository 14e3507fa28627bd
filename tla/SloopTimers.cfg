SPECIFICATION Spec
CONSTANTS
    NSocket = 1
    NTimeout = 2
    NSignal = 1
    Fd = {1}
    SigNo = {15}
    Delay = {0, 3}
    Gran = 2
    MaxTime = 3
    MaxPipe = 1
INVARIANTS TypeOK TimersSorted
PROPERTY KeepsPromise
CHECK_DEADLOCK FALSE
