SPECIFICATION FairSpec
CONSTANTS
    Uses <- MCUses
    Overhead = 24
    Lens = {10, 40}
    MaxSegs = 2
    MaxNet = 2
    MaxAcks = 1
INVARIANTS WholeSegmentsOnly AckedIsTakenIn PackedOnce
PROPERTIES AllAcknowledged
CHECK_DEADLOCK FALSE
