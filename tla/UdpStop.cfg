SPECIFICATION FairSpec
CONSTANTS
    MaxHandles = 1
    Apps = {c, a}
    Controls = {c}
    Threads = {t1}
    Fds = {f1, f2}
    Callbacks = {print}
    MaxChunks = 1
    Multicast = FALSE
    Nil = Nil
INVARIANTS
    NoLeak
PROPERTIES
    StopsWhenUnregistered
