SPECIFICATION FairSpec
CONSTANTS
    Key = {k1, k2}
    Short = Short
    Polled = {k1}
    Readings <- AsyncOnly
    ChanCap = 1
    AcceptCap = 1
    CleanupAt = 0
    SocketCap = 2
    MaxPackets = 2
PROPERTIES RouterReturnsEver
CHECK_DEADLOCK FALSE
