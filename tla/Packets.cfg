SPECIFICATION PacketsSpec
CONSTANTS
    Limit = 4
    MaxLength = 25
    Multicast = FALSE
    MaxCount = 2
    MinPacket = 40
    MaxItem = 30
    Peers = {1, 2, 3}
    Own = 9
    MaxPacket = 76
    CnameLength = 1
    SDESItems <- MCItems
    MaxRtp = 2
    SeqWrap = 65536
    StampWrap = 1073741824
    CountWrap = 2
    RandomSeqs = {65534}
    RandomStamps = {1073741822}
    RandomSSRCs = {65537}
    MaxCSRCs = 2
    Unset = unset
    Fields = {cname}
    PrivNames = {p1, p2, p3}
    Contents = {c1, c2}
    TooLong = {c2}
    MaxPrivItems = 2
    Users = {u1, u2}
    Setter = u1
    PollThread = poll
    NoUser = noUser
    SmallestSize = 600
    LargestSize = 65535
    SizesAsked = {599, 600, 1400, 65535, 65536}
    Lengths = {500, 1000, 65535}
    Blank = blank
    Bottom = bottom
    Lost = lost
INVARIANTS
    PacketsTypeOK
    EveryByteHanded
    RtpIsRead
    BuildIsRead
    WalkStaysInside
    ReportsReachAll
    EachPrefixOnce
    LimitsAgree
CHECK_DEADLOCK FALSE
