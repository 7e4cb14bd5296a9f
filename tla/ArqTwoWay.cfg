SPECIFICATION Spec
CONSTANTS
    Data = {d1}
    WndRcv = 2
    ClientSends = 2
    ServerSends = 1
    NetToClient = 1
    NetToServer = 2
    SenderWindow = 2
    WndMod = 8
    ReceiverWindow = 2
    MaxSent <- MCMaxSent
    MaxNet <- MCMaxNet
    SndWnd <- MCSndWnd
    RcvWnd <- MCRcvWnd
    NoCwnd = FALSE
    Duplicating = TRUE
INVARIANTS TypeOK NothingLost
PROPERTIES AckPointsAdvance
