SPECIFICATION MCSpec
CONSTANTS
    MaxHandles = 2
    Apps = {c}
    Controls = {c}
    Threads = {t1, t2}
    Callbacks = {print}
    MaxSources = 1
    MaxPackets = 1
    Multicast = TRUE
    Nil = Nil
SYMMETRY Symmetry
INVARIANT NullIsNotCalled
