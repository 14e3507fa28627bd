SPECIFICATION FairSpec
CONSTANTS
    Proc = {p1, p2}
    Session = {1, 2}
    s1 = s1
    s2 = s2
    Service = {s1, s2}
    Request <- MCRequest
    MaxCalls = 3
INVARIANTS TypeOK CheckedOnly RestartPending
PROPERTY CallsReturn
CHECK_DEADLOCK FALSE
