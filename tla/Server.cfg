SPECIFICATION FairSpec
CONSTANTS
    c1 = c1
    c2 = c2
    t1 = t1
    t2 = t2
    Addrs <- TwoAddrs
    Tokens <- TwoTokens
    MinInterval = 2
    PacketBurst = 2
    MaxDuration = 2
    MaxDurationGrace = 0
    Timeout = 3
    TimeoutGrace = 0
    SeqnoMod = 1
    WindowBits = 1
    CheckExpiredCount = 1
    MaxTime = 5
    MaxCount = 4
INVARIANTS
    RateBound
    LifetimeBound
PROPERTIES
    NoConformingDrop
    CloseFlagTruthful
    OnlyOwnerOrExpiry
    ExpiredRemoved
