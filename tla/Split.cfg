SPECIFICATION FairSpec
CONSTANTS
    Uses <- MCUses
    MaxPackets = 3
    MaxSends = 2
INVARIANTS TypeOK TakenAreInput
PROPERTIES NothingAfterClose CloseStopsReader WriterReturns QueuedGoesOut
