SPECIFICATION FairSpec
CONSTANTS
    Data = {d1}
    WndRcv = 2
    ClientSends = 3
    ServerSends = 0
    NetToClient = 1
    NetToServer = 2
    SenderWindow = 2
    WndMod = 8
    ReceiverWindow = 2
    MaxSent <- MCMaxSent
    MaxNet <- MCMaxNet
    SndWnd <- MCSndWnd
    RcvWnd <- MCRcvWnd
    NoCwnd = TRUE
    Duplicating = FALSE
PROPERTIES ChannelDelivers EventuallyAcknowledged
