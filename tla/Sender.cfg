SPECIFICATION Spec
CONSTANTS
    Uses <- MCUses
    Clock = 524288
    RtoDef = 200
    RtoMax = 60000
    FastackLimit = 5
    SlapLimit = 10000
    ProbeInit = 500
    ProbeLimit = 900
    MaxWrites = 4
    MaxTime = 22000
    MaxAcks = 2
    MaxNet = 4
CONSTRAINT NetBound
INVARIANTS SampleIsRoundTrip FastResendIsEarned FlushScheduled ResentInTime ProbedInTime QueuedGoesInTime
PROPERTIES NoEarlyResend
CHECK_DEADLOCK FALSE
