SPECIFICATION Spec
CONSTANTS
    Data = {d1, d2}
    WndRcv = 3
    ClientSends = 4
    ServerSends = 0
    NetToClient = 1
    NetToServer = 2
    SenderWindow = 2
    WndMod = 8
    ReceiverWindow = 3
    MaxSent <- MCMaxSent
    MaxNet <- MCMaxNet
    SndWnd <- MCSndWnd
    RcvWnd <- MCRcvWnd
    NoCwnd = TRUE
    Duplicating = FALSE
SYMMETRY DataSymmetry
INVARIANTS InOrder NoneStranded WithinWindows FullQueueReadable
PROPERTIES ChannelSpec
