SPECIFICATION MembersSpec
CONSTANTS
    Ssrcs = {s1, s2, s3}
    NoSsrc = noSsrc
    Addresses = {1, 2, 3}
    HostOf <- MCHostOf
    Local = local
    NoAddress = noAddress
    Cnames = {n1}
    NoName = noName
    ProbationCount = 2
    MaxProbation = 2
    MaxQueue = 4
    MaxPackets = 3
    SeqNumbers = 8
    TsNumbers = 128
    TsStep = 2
    TsFirst = 110
    ProbationLength = 2
    ProbationPackets = 3
    MaxGap = 2
    MaxLate = 1
    FirstPackets = {0, 6}
    LastPacket = 9
    MaxAccepted = 4
    MaxWaiting = 4
    Keys = {1, 2, 3, 4}
    Buckets = {0, 1}
    Bucket <- MCBucket
    Values = {v1}
    Null = null
    Wild = wild
    FirstAverage = 10
    Overhead = 0
    Sizes = {10}
    Bandwidth = 6
    SenderPercent = 25
    MinInterval = 3
    HalfAtStartup = TRUE
    ImmediateBYE = TRUE
    Multipliers = {50, 125}
    FewMembers = 2
    MaxActive = 2
    MaxIncoming = 1
    MaxSince = 7
    Threads = {t1, t2, t3}
    Nobody = nobody
INVARIANT ActiveIsCounted
CHECK_DEADLOCK FALSE
