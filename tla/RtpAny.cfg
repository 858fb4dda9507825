SPECIFICATION FairSpec
CONSTANTS
    Apps = {c, r}
    Control = c
    Polls = {p, q}
    Addrs = {}
    MaxSsrc = 0
    MaxPackets = 1
    Nil = Nil
CHECK_DEADLOCK FALSE
PROPERTIES
    LeaveReturns
