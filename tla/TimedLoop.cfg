SPECIFICATION TimedSpec
CONSTANTS
    client = c
    Addrs = {c}
    MinInterval = 4
    PacketBurst = 3
    MaxDuration = 21
    MaxDurationGrace = 8
    Timeout = 16
    TimeoutGrace = 18
    SeqnoMod = 1
    WindowBits = 1
    Interval = 4
    Duration = 21
    MaxSendTime = 1
    MaxPrepareTime = 2
    MaxEarly = 2
    MaxLate = 5
    MaxJitter = 2
    MaxLost = 1
    TimerChoices <- AllTimers
    Latencies = {0, 1, 2, 5}
    LatencyShare = 3
    Scale = 12
    Alpha = 50
    Window = 2
    SleepTenths = 9
CHECK_DEADLOCK FALSE
INVARIANTS
    FitsBuffer
    PacedServed
    StaysOpen
    NotCutOff
PROPERTIES
    KeepsSchedule
