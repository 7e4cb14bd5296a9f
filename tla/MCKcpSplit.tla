----------------------------- MODULE MCKcpSplit ------------------------------
(* Instances of KcpSplit for TLC: how the split stream is used. *)
EXTENDS KcpSplit

\* A client with a timeout and flush_write, read with recv_kcp and written with
\* the async calls.
Client == [reading |-> "recv_kcp", cancelling |-> FALSE, writing |-> WriterCalls,
           polling |-> FALSE, server |-> FALSE, flushing |-> TRUE, timed |-> TRUE]

\* The same, a server, calls dropped at any .await, AsyncRead, and AsyncRead
\* with AsyncWrite.
MCUses == {Client,
           [Client EXCEPT !.server = TRUE, !.flushing = FALSE],
           [Client EXCEPT !.cancelling = TRUE],
           [Client EXCEPT !.reading = "poll_read"],
           [Client EXCEPT !.reading = "poll_read", !.polling = TRUE]}

MCPollWrite == {[Client EXCEPT !.polling = TRUE, !.writing = {"send_kcp"}, !.timed = FALSE]}

MCRouterEnds == {[Client EXCEPT !.server = TRUE, !.writing = {"send_kcp"}]}
=============================================================================
