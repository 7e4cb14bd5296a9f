---------------------------- MODULE MCKcpSession -----------------------------
(* Instances of KcpSession for TLC: what the peer sends, and how the session   *)
(* is used.                                                                     *)
EXTENDS KcpSession, TLC

Fragment(len, frg) == [len |-> len, frg |-> frg]

\* A message of two fragments, then one that is longer than the buffers.
MCMessages == <<Fragment(1, 1), Fragment(1, 0), Fragment(3, 0)>>

\* A client in message mode with flush_write and a timeout.
Client(operations) ==
    [operations |-> operations, lens |-> {1, 3, 6}, stream |-> FALSE,
     flushing |-> TRUE, timed |-> TRUE, server |-> FALSE, resetting |-> FALSE]

Writing == {"send_kcp", "flush", "close"}

MCSafeUses ==
    {[Client({"recv_kcp"} \cup Writing) EXCEPT !.resetting = TRUE],
     [Client(Recvs \cup Writing) EXCEPT !.server = TRUE, !.flushing = FALSE],
     Client({"poll_read"} \cup Writing),
     [Client({"recv_kcp"} \cup Writing) EXCEPT !.stream = TRUE, !.lens = {1, 3}]}

MCLiveUses ==
    {[Client(Recvs \cup {"send_kcp"}) EXCEPT !.resetting = TRUE, !.lens = {1}],
     [Client({"recv_kcp", "send_kcp"}) EXCEPT !.timed = FALSE],
     [Client({"recv_kcp", "send_kcp"}) EXCEPT !.server = TRUE, !.flushing = FALSE],
     Client({"poll_read", "send_kcp"})}

MCUses == MCSafeUses \cup MCLiveUses

\* Uses in which the code does something else than it says.
MCMixed == {Client({"recv_kcp", "poll_read"})}
MCShortBuffers == {Client({"recv_kcp_buf"})}
MCStreamRecv == {[Client({"recv_kcp_buf"}) EXCEPT !.stream = TRUE]}
MCAsyncRead == {Client({"poll_read"})}
MCLateRead == {[Client({"recv_kcp"}) EXCEPT !.server = TRUE]}
MCReset == {[Client({"recv_kcp"}) EXCEPT !.resetting = TRUE]}
MCSend == {Client({"send_kcp"})}
MCFlush == {[Client({"send_kcp", "flush"}) EXCEPT !.flushing = FALSE]}
MCStreamSend == {[Client({"send_kcp"}) EXCEPT !.stream = TRUE, !.flushing = FALSE]}
=============================================================================
