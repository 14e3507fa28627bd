SPECIFICATION NetSpec
CONSTANTS
    c1 = c1
    c2 = c2
    Client = {c1, c2}
    Me = c1
    Blank = Blank
    StaticLeases <- NoStatic
    Start = 1
    End = 1
    Edge = {}
    MaxLeases = 1
    Word = 64
    ServerLease = 5
    MinLease = 1
    OfferTime = 1
    DeclineTime = 1
    AutoTime = 1
    Remaining = TRUE
    LastByte = {1}
    Server = 9
    Epoch = 0
    Asked = {}
    LeaseOption = {}
    Neighbours = {}
    MaxTime = 6
    FileKept = TRUE
    FileOpens = FALSE
    MaxDelay = 2
    MaxFlight = 1
    CDelay = 1
    CRetry = 2
    CBackoff = 1
    CSleep = 1
    CArp = 0
    CDefault = 5
INVARIANT HeldIsReserved
PROPERTY AddressKept
CHECK_DEADLOCK FALSE
VIEW Memory
