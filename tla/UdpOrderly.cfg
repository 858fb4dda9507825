SPECIFICATION FairOrderlySpec
CONSTANTS
    MaxHandles = 2
    Apps = {c}
    Controls = {c}
    Threads = {t1, t2}
    Fds = {f1, f2}
    Callbacks = {print}
    MaxChunks = 2
    Multicast = TRUE
    Nil = Nil
INVARIANTS
    SocketsOwned
    ReceiversOwnTheirHandle
PROPERTIES
    SendsGoToTheirDestination
