SPECIFICATION FairSpec
CONSTANTS
    NSocket = 1
    NTimeout = 2
    NSignal = 1
    Fd = {1}
    SigNo = {15}
    Delay = {0, 1}
    Gran = 1
    MaxTime = 1
    MaxPipe = 1
PROPERTIES SignalServed TimersFire TerminateStops
CHECK_DEADLOCK FALSE
