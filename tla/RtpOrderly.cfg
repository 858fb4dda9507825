SPECIFICATION FairOrderlySpec
CONSTANTS
    Apps = {c, r}
    Control = c
    Polls = {p}
    Addrs = {x, y}
    MaxSsrc = 2
    MaxPackets = 2
    Nil = Nil
INVARIANTS
    TableGuarded
    NothingDeletedIsUsed
    NothingLeftBehind
PROPERTIES
    ByeGoesOut
    TableIsGranted
