SPECIFICATION OrderlySpec
CONSTANTS
    Apps = {c, r, s}
    Control = c
    Polls = {p, q}
    Addrs = {x, y}
    MaxSsrc = 2
    MaxPackets = 2
    Nil = Nil
SYMMETRY Symmetry
INVARIANTS
    ByesForUsedSsrcs
