SPECIFICATION MCFairSpec
CONSTANTS
    MaxHandles = 2
    Apps = {c}
    Controls = {c}
    Threads = {t1, t2}
    Callbacks = {print}
    MaxSources = 2
    MaxPackets = 2
    Multicast = TRUE
    Nil = Nil
INVARIANTS
    SessionsInStep
    ReceiversOwnTheirHandle
    StopIsEnough
PROPERTIES
    PacketsAreDelivered
    SendsReturn
    CloseReturns
