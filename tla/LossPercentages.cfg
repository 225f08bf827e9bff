SPECIFICATION Spec
CONSTANTS
    Addrs = {c1}
    MinInterval = 0
    PacketBurst = 1
    MaxDuration = 0
    MaxDurationGrace = 0
    Timeout = 0
    TimeoutGrace = 0
    SeqnoMod = 16
    UintMod = 256
    WindowBits = 2
    BufCap = 3
    MaxSends = 3
    MaxEchoes = 4
    MaxDeliveries = 3
CHECK_DEADLOCK FALSE
INVARIANTS
    PercentagesAsDocumented
