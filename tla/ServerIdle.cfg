SPECIFICATION FairSpec
CONSTANTS
    c1 = c1
    c2 = c2
    t1 = t1
    t2 = t2
    Addrs <- OneAddr
    Tokens <- TwoTokens
    MinInterval = 1
    PacketBurst = 1
    MaxDuration = 1
    MaxDurationGrace = 1
    Timeout = 1
    TimeoutGrace = 1
    SeqnoMod = 1
    WindowBits = 1
    CheckExpiredCount = 1
    MaxTime = 4
    MaxCount = 2
PROPERTIES
    IdleConnectionsClosed
