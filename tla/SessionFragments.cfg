SPECIFICATION Spec
CONSTANTS
    Inbound <- MCMessages
    Uses <- MCShortBuffers
    BufLens = {1, 2}
    ReadBufLen = 4
    Mss = 2
    FragLimit = 3
    SourceCap = 2
    MaxSends = 2
INVARIANT TooSmallMeansLarger
