SPECIFICATION FairSpec
CONSTANTS
    Threads = {c, t1}
    Control = c
    NoThread = none
    NoName = noName
    Ips = {i1, i2}
    Ports = {1, 2}
    Loopback = i1
    Groups = {g1, g2}
    Names <- MCNames
    MaxQueue = 2
    PipeSize = 2
INVARIANTS TypeOK KernelMatches DestroyWaits FilterAgrees
PROPERTIES DestroyReturns
CHECK_DEADLOCK FALSE
