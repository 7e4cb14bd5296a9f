SPECIFICATION FairSpec
CONSTANTS
    Uses <- MCPollWrite
    MaxPackets = 1
    MaxSends = 1
PROPERTY PollingWriterReturns
