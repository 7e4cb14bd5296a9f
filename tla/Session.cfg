SPECIFICATION FairSpec
CONSTANTS
    Inbound <- MCMessages
    Uses <- MCUses
    BufLens = {1, 2}
    ReadBufLen = 4
    Mss = 2
    FragLimit = 3
    SourceCap = 2
    MaxSends = 2
INVARIANTS BytesInOrder AcceptedIsQueued
PROPERTIES ClosedIsFinal  SilenceEndsRecv
