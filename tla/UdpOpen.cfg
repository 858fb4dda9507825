SPECIFICATION Spec
CONSTANTS
    MaxHandles = 2
    Apps = {c}
    Controls = {c}
    Threads = {t1, t2}
    Fds = {f1, f2}
    Callbacks = {print}
    MaxChunks = 1
    Multicast = FALSE
    Nil = Nil
SYMMETRY Symmetry
INVARIANTS
    ServesItsOpen
