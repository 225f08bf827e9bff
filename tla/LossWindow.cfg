SPECIFICATION Spec
CONSTANTS
    Addrs = {c1}
    MinInterval = 0
    PacketBurst = 1
    MaxDuration = 0
    MaxDurationGrace = 0
    Timeout = 0
    TimeoutGrace = 0
    SeqnoMod = 16
    UintMod = 256
    WindowBits = 3
    BufCap = 5
    MaxSends = 5
    MaxEchoes = 5
    MaxDeliveries = 3
CHECK_DEADLOCK FALSE
INVARIANTS
    WindowSound
    LoopAgrees
    DownTruthful
    UpTruthfulInOrder
