SPECIFICATION FairSpec
CONSTANTS
    Connections = 1
    Conn <- MCConn
    KeyOf <- FreshKeys
    Reading = TRUE
    NoTimeout = NoTimeout
    Timeout <- FastTimeout
    Ttl = 10
    MaxDelay = 1
    MaxWrites = 2
    MaxNet = 4
    MaxSessions = 2
INVARIANTS NoGhost AckedIsDelivered
PROPERTIES PeerNoticesEnd
CHECK_DEADLOCK FALSE
