SPECIFICATION FairSpec
CONSTANTS
    Key = {k1, k2}
    Short = Short
    Polled = {k1}
    Readings <- MCReadings
    ChanCap = 1
    AcceptCap = 1
    CleanupAt = 0
    SocketCap = 2
    MaxPackets = 3
INVARIANTS OneLiveSession NoGhostWithinTtl NoneSkipped
PROPERTIES RouterReturns 
CHECK_DEADLOCK FALSE
