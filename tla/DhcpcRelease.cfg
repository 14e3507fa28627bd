SPECIFICATION Spec
CONSTANTS
    Server = {1, 2}
    Addr = {1, 2}
    LeaseTime = {9}
    DefaultLease = 1
    Word = 65536
    Delay = 1
    Retry = 3
    MaxBackoff = 2
    Sleep = 1
    ArpWait = 1
    Options <- MCOptions
    MaxQueue = 1
    MaxPipe = 1
INVARIANT ReleaseReleases
