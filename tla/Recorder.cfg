SPECIFICATION Spec
CONSTANTS
    BufCap = 3
    MaxSends = 7
    MaxDuplicates = 2
CHECK_DEADLOCK FALSE
INVARIANTS
    ReplyFindsRoundTrip
    AgedOutMeansOverwritten
    CountedOnce
    HandlersGivenTheirs
