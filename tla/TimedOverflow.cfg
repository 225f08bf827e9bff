SPECIFICATION TimedSpec
CONSTANTS
    client = c
    Addrs = {c}
    MinInterval = 0
    PacketBurst = 1
    MaxDuration = 0
    MaxDurationGrace = 0
    Timeout = 0
    TimeoutGrace = 0
    SeqnoMod = 1
    WindowBits = 1
    Interval = 10
    Duration = 105
    MaxSendTime = 0
    MaxPrepareTime = 0
    MaxEarly = 5
    MaxLate = 9
    MaxJitter = 0
    MaxLost = 0
    TimerChoices <- DefaultTimer
    Latencies = {0, 9}
    LatencyShare = 1
    Scale = 1000
    Alpha = 10
    Window = 1
    SleepTenths = 9
CHECK_DEADLOCK FALSE
INVARIANTS
    FitsBuffer
