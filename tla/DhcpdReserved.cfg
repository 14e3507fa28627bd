SPECIFICATION Spec
CONSTANTS
    c1 = c1
    c2 = c2
    s1 = s1
    Client = {c1, c2, s1}
    Blank = Blank
    StaticLeases <- MCStaticLeases
    Start = 1
    End = 3
    Edge = {}
    MaxLeases = 2
    Word = 64
    ServerLease = 2
    MinLease = 1
    OfferTime = 1
    DeclineTime = 1
    AutoTime = 0
    Remaining = TRUE
    LastByte = {}
    Server = 9
    Epoch = 0
    Asked = {1, 2, 3}
    LeaseOption = {}
    Neighbours = {3}
    MaxTime = 2
    FileKept = TRUE
    FileOpens = FALSE
PROPERTY Reserved
SYMMETRY Dynamic
