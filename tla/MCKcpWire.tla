------------------------------ MODULE MCKcpWire ------------------------------
(* Instances of KcpWire for TLC. *)
EXTENDS KcpWire

\* The smallest mtu, which is raised later; a receive buffer that cuts datagrams of
\* two segments; and a transport that adds bytes and rejects what was cut.
MCUses ==
    { [mtu |-> 50, mtus |-> {90}, recvBuf |-> 65536, added |-> 0, sealed |-> FALSE],
      [mtu |-> 100, mtus |-> {}, recvBuf |-> 70, added |-> 0, sealed |-> FALSE],
      [mtu |-> 100, mtus |-> {}, recvBuf |-> 90, added |-> 16, sealed |-> TRUE] }

\* The mtu is lowered while segments wait.
LoweringUses ==
    { [mtu |-> 100, mtus |-> {50}, recvBuf |-> 65536, added |-> 0, sealed |-> FALSE] }

\* A segment does not fit into the receive buffer.
SmallBufferUses ==
    { [mtu |-> 100, mtus |-> {}, recvBuf |-> 60, added |-> 0, sealed |-> FALSE] }
=============================================================================
