------------------------------ MODULE MCKcpArq ------------------------------
(* Instances of KcpArq for TLC. *)
EXTENDS KcpArq, TLC

CONSTANTS ClientSends, ServerSends,   \* segments each peer may send
          NetToClient, NetToServer,   \* datagrams under way to each peer
          SenderWindow, ReceiverWindow

MCMaxSent == "client" :> ClientSends @@ "server" :> ServerSends
MCMaxNet == "client" :> NetToClient @@ "server" :> NetToServer
MCSndWnd == [p \in Peer |-> SenderWindow]
MCRcvWnd == [p \in Peer |-> ReceiverWindow]

DataSymmetry == Permutations(Data)
=============================================================================
