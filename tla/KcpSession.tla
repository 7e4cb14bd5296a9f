----------------------------- MODULE KcpSession ------------------------------
(***************************************************************************)
(* One KcpSession and the KcpStream over it (src/src/tokio_rt/session.rs,  *)
(* stream.rs, src/src/core/kcp.rs): what the calls of the application do   *)
(* to the engine, when they wait, and when they end.                       *)
(*                                                                         *)
(* The engine is reduced to what these calls see of it: how many fragments *)
(* of the peer's messages have come into rcv_queue (KcpArq shows that they *)
(* come in order), what lies in snd_queue, and whether ikcp_update was     *)
(* ever called.  Windows and congestion window are assumed open.  Bytes    *)
(* are numbered: byte i is the i-th the peer sent.                         *)
(* A stream and its session are behind &mut, so one call runs at a time;   *)
(* between two .awaits a call is one step.                                 *)
(***************************************************************************)
EXTENDS Naturals, Sequences, SequencesExt

CONSTANTS Inbound,     \* the fragments the peer sends, [len, frg] each
          Uses,        \* how a session is configured and used
          BufLens,     \* lengths of the buffers the application reads into
          ReadBufLen,  \* recv_buf_size
          Mss,         \* bytes a segment holds
          FragLimit,   \* IKCP_WND_RCV
          SourceCap,   \* bound: datagrams waiting for the session
          MaxSends     \* bound: calls of send_kcp

Fragments == 0..Len(Inbound)
Recvs == {"recv_kcp", "recv_kcp_buf"}

\* What the application calls, the lengths it sends, stream_mode, flush_write,
\* whether a timeout is set, RecvMode::Channel, and whether the socket reports
\* ICMP errors (Windows).
Use == [operations : SUBSET (Recvs \cup {"poll_read", "send_kcp", "flush", "close"}),
        lens : SUBSET Nat,
        stream : BOOLEAN, flushing : BOOLEAN, timed : BOOLEAN,
        server : BOOLEAN, resetting : BOOLEAN]

ASSUME SessionAssumption ==
    /\ Inbound \in Seq([len : Nat, frg : Nat])
    /\ \A i \in DOMAIN Inbound : i + Inbound[i].frg \in DOMAIN Inbound
    /\ \A u \in Uses : u \in Use
    /\ BufLens \cup {ReadBufLen, SourceCap, MaxSends} \subseteq Nat
    /\ {Mss, FragLimit} \subseteq Nat \ {0}

VARIABLES
    use,          \* how this session is configured and used
    source,       \* datagrams in the socket buffer or in the channel
    sent,         \* fragments the peer has sent
    routed,       \* server: does the listener's task still hold the channel?
    input,        \* fragments ikcp_input has put into rcv_queue
    taken,        \* fragments ikcp_recv has taken out of it
    leftover,     \* bytes of read_buf between read_pos and read_len
    delivered,    \* history: the bytes given to the application
    call,         \* the call that waits
    result,       \* what the last call returned
    closed,       \* session.closed
    silent,       \* is last_recv_time longer ago than the timeout?
    updated,      \* kcp->updated
    sndQueue,     \* lengths of the segments in snd_queue
    transmitted,  \* bytes moved from snd_queue to the transport
    accepted,     \* bytes the calls of send_kcp said they took
    sends         \* calls of send_kcp so far

netVars == <<source, sent, routed>>
recvVars == <<input, taken, leftover, delivered>>
sendVars == <<sndQueue, transmitted, accepted, sends>>
vars == <<use, netVars, recvVars, call, result, closed, silent, updated, sendVars>>

Idle == [op |-> "none", size |-> 0]
None == [op |-> "none", is |-> "none", size |-> 0]

FromPeer(k) == [from |-> "peer", frags |-> k]
FromStranger == [from |-> "stranger", frags |-> 0]
ResetError == [from |-> "icmp", frags |-> 0]

Init ==
    /\ use \in Uses
    /\ source = <<>> /\ sent = 0 /\ routed = TRUE
    /\ input = 0 /\ taken = 0 /\ leftover = <<>> /\ delivered = <<>>
    /\ call = Idle /\ result = None
    /\ closed = FALSE /\ silent = FALSE /\ updated = FALSE
    /\ sndQueue = <<>> /\ transmitted = 0 /\ accepted = 0 /\ sends = 0

-----------------------------------------------------------------------------
(* The network, the listener and the clock *)

\* A datagram of the peer: k more fragments come into order with it, or none
\* (an acknowledgement, a duplicate, a segment ahead of its turn).
ArrivePeer(k) ==
    /\ Len(source) < SourceCap
    /\ routed
    /\ sent + k <= Len(Inbound)
    /\ sent' = sent + k
    /\ source' = Append(source, FromPeer(k))
    /\ UNCHANGED <<use, routed, recvVars, call, result, closed, silent, updated, sendVars>>

\* A datagram of somebody else, or an ICMP error: only a socket has these.
ArriveOther ==
    /\ ~use.server
    /\ Len(source) < SourceCap
    /\ \/ source' = Append(source, FromStranger)
       \/ use.resetting /\ source' = Append(source, ResetError)
    /\ UNCHANGED <<use, sent, routed, recvVars, call, result, closed, silent, updated, sendVars>>

\* The listener's task ends and drops the sender of the channel.
RouterEnds ==
    /\ use.server
    /\ routed
    /\ routed' = FALSE
    /\ UNCHANGED <<use, source, sent, recvVars, call, result, closed, silent, updated, sendVars>>

\* The timeout has passed since last_recv_time.
Elapse ==
    /\ use.timed
    /\ ~silent
    /\ silent' = TRUE
    /\ UNCHANGED <<use, netVars, recvVars, call, result, closed, updated, sendVars>>

-----------------------------------------------------------------------------
(* The engine *)

Offset[i \in Fragments] == IF i = 0 THEN 0 ELSE Offset[i - 1] + Inbound[i].len

\* The last fragment of the message at the head of rcv_queue.
HeadEnd == taken + 1 + Inbound[taken + 1].frg

HeadLen == Offset[HeadEnd] - Offset[taken]

\* ikcp_peeksize finds a message when g fragments have come.
HeadComplete(g) == taken < g /\ HeadEnd <= g

Run(a, b) == [j \in 1..(b - a) |-> a + j]

HeadBytes == Run(Offset[taken], Offset[HeadEnd])

Least(a, b) == IF a < b THEN a ELSE b

\* What kcp.recv or try_recv_auto returns: a message, nothing yet, or an error
\* for every other negative value of ikcp_recv.
Fits(op, size, g) == HeadComplete(g) /\ (op = "recv_kcp" \/ HeadLen <= size)

WouldBlock(op, g) == IF op = "recv_kcp" THEN ~HeadComplete(g) ELSE taken = g

TooSmall(op, size, g) == ~Fits(op, size, g) /\ ~WouldBlock(op, g)

\* The sum of the lengths of some segments.
Total(lens) ==
    LET sum[i \in 0..Len(lens)] == IF i = 0 THEN 0 ELSE sum[i - 1] + lens[i]
    IN  sum[Len(lens)]

\* ikcp_flush does nothing before the first ikcp_update.
FlushTo(queue) ==
    IF updated THEN /\ sndQueue' = <<>>
                    /\ transmitted' = transmitted + Total(queue)
               ELSE /\ sndQueue' = queue
                    /\ UNCHANGED transmitted

\* ikcp_update: the first call flushes, a later one when interval has passed.
Update ==
    /\ updated' = TRUE
    /\ \/ /\ sndQueue' = <<>>
          /\ transmitted' = transmitted + Total(sndQueue)
       \/ updated /\ UNCHANGED <<sndQueue, transmitted>>
    /\ UNCHANGED <<accepted, sends>>


\* The update of wait_for_data when the timer was first.
TickUpdate == Update

-----------------------------------------------------------------------------
(* Receiving: recv, recv_auto and wait_for_data *)

Return(op, size, what) ==
    /\ call' = Idle
    /\ result' = [op |-> op, is |-> what, size |-> size]

\* ikcp_recv takes the message at the head, and the first n bytes of it go to
\* the application; the rest stays in read_buf.
DeliverHead(n) ==
    /\ taken' = HeadEnd
    /\ delivered' = delivered \o SubSeq(HeadBytes, 1, n)
    /\ leftover' = SubSeq(HeadBytes, n + 1, HeadLen)

\* The loop of recv and recv_auto, when g fragments have come: try, then check
\* the timeout, then wait.
TryOrWait(op, size, g) ==
    /\ input' = g
    /\ \/ /\ Fits(op, size, g)
          /\ taken' = HeadEnd
          /\ delivered' = delivered \o HeadBytes
          /\ Return(op, size, "ok")
          /\ UNCHANGED <<leftover, closed>>
       \/ /\ TooSmall(op, size, g)
          /\ Return(op, size, "too_small")
          /\ UNCHANGED <<taken, leftover, delivered, closed>>
       \/ /\ WouldBlock(op, g)
          /\ silent'
          /\ closed' = TRUE
          /\ Return(op, size, "timeout")
          /\ UNCHANGED <<taken, leftover, delivered>>
       \/ /\ WouldBlock(op, g)
          /\ ~silent'
          /\ call' = [op |-> op, size |-> size]
          /\ result' = None
          /\ UNCHANGED <<taken, leftover, delivered, closed>>

RecvRefused == closed

RecvCall(op, size) ==
    /\ call = Idle
    /\ op \in use.operations \cap Recvs
    /\ IF RecvRefused
       THEN Return(op, size, "closed") /\ UNCHANGED <<recvVars, closed, silent>>
       ELSE silent' = silent /\ TryOrWait(op, size, input)
    /\ UNCHANGED <<use, netVars, updated, sendVars>>

\* wait_for_data: a datagram came first.
RecvDatagram ==
    /\ call.op \in Recvs
    /\ source # <<>>
    /\ source' = Tail(source)
    /\ \/ /\ Head(source).from = "peer"
          /\ silent' = FALSE
          /\ Update
          /\ TryOrWait(call.op, call.size, input + Head(source).frags)
       \/ /\ Head(source) = FromStranger
          /\ silent' = silent
          /\ Update
          /\ TryOrWait(call.op, call.size, input)
       \/ /\ Head(source) = ResetError
          /\ Return(call.op, call.size, "io")
          /\ UNCHANGED <<recvVars, closed, silent, updated, sendVars>>
    /\ UNCHANGED <<use, sent, routed>>

\* Mutant: a tick counts as a sign of life.
RecvTick_Touches ==
    /\ call.op \in Recvs
    /\ TickUpdate
    /\ silent' = FALSE
    /\ TryOrWait(call.op, call.size, input)
    /\ UNCHANGED <<use, netVars>>

\* wait_for_data: flush_interval passed first.
RecvTick ==
    /\ call.op \in Recvs
    /\ TickUpdate
    /\ silent' = silent
    /\ TryOrWait(call.op, call.size, input)
    /\ UNCHANGED <<use, netVars>>

\* wait_for_data: the channel is empty and its sender gone.
RecvNone ==
    /\ call.op \in Recvs
    /\ ~routed
    /\ source = <<>>
    /\ closed' = TRUE
    /\ Return(call.op, call.size, "closed")
    /\ UNCHANGED <<use, netVars, recvVars, silent, updated, sendVars>>

-----------------------------------------------------------------------------
(* Receiving: poll_read of a client *)

\* Mutant: the rest of a message is lost when the buffer is shorter.
Leftover_Discarded(n) ==
    /\ delivered' = delivered \o SubSeq(leftover, 1, n)
    /\ leftover' = <<>>

\* The first n bytes that were left over go to the application.
Leftover(n) ==
    /\ delivered' = delivered \o SubSeq(leftover, 1, n)
    /\ leftover' = SubSeq(leftover, n + 1, Len(leftover))

PollBuffered(size) ==
    /\ call = Idle
    /\ leftover # <<>>
    /\ Leftover(Least(size, Len(leftover)))
    /\ Return("poll_read", size, "ok")
    /\ UNCHANGED <<use, netVars, input, taken, closed, silent, updated, sendVars>>

\* try_recv into read_buf, when g fragments have come.
PollTry(size, g) ==
    /\ input' = g
    /\ \/ /\ Fits("poll_read", ReadBufLen, g)
          /\ DeliverHead(Least(size, HeadLen))
          /\ Return("poll_read", size, "ok")
       \/ /\ TooSmall("poll_read", ReadBufLen, g)
          /\ Return("poll_read", size, "too_small")
          /\ UNCHANGED <<taken, leftover, delivered>>
       \/ /\ WouldBlock("poll_read", g)
          /\ call' = [op |-> "poll_read", size |-> size]
          /\ result' = None
          /\ UNCHANGED <<taken, leftover, delivered>>

\* One poll, the first of a call or, as it wakes itself, a later one.
PollRead(size) ==
    /\ call = [op |-> "poll_read", size |-> size] \/ call = Idle
    /\ leftover = <<>>
    /\ \/ /\ closed
          /\ Return("poll_read", size, "eof")
          /\ UNCHANGED <<use, netVars, recvVars, silent, updated, sendVars>>
       \/ /\ ~closed
          /\ ~WouldBlock("poll_read", input)
          /\ PollTry(size, input)
          /\ UNCHANGED <<use, netVars, silent, updated, sendVars>>
       \/ /\ ~closed
          /\ WouldBlock("poll_read", input)
          /\ source = <<>>
          /\ Update
          /\ PollTry(size, input)
          /\ UNCHANGED <<use, netVars, silent>>
       \/ /\ ~closed
          /\ WouldBlock("poll_read", input)
          /\ source # <<>>
          /\ source' = Tail(source)
          /\ IF Head(source) = ResetError
             THEN /\ Return("poll_read", size, "io")
                  /\ UNCHANGED <<recvVars, silent, updated, sendVars>>
             ELSE /\ silent' = (silent /\ Head(source).from # "peer")
                  /\ Update
                  /\ PollTry(size, input + Head(source).frags)
          /\ UNCHANGED <<use, sent, routed>>
    /\ UNCHANGED closed

-----------------------------------------------------------------------------
(* Sending, flushing and closing *)

\* len bytes as segments of mss.
Cut(len) ==
    LET count == IF len <= Mss THEN 1 ELSE (len + Mss - 1) \div Mss
    IN  [i \in 1..count |-> IF i < count THEN Mss ELSE len - (count - 1) * Mss]

\* Bytes that go into the last segment of snd_queue.
Extend(len) ==
    IF use.stream /\ sndQueue # <<>> /\ sndQueue[Len(sndQueue)] < Mss
    THEN Least(len, Mss - sndQueue[Len(sndQueue)])
    ELSE 0

Extended(e) ==
    IF e = 0 THEN sndQueue ELSE [sndQueue EXCEPT ![Len(sndQueue)] = @ + e]

\* Mutant: fragments in excess are cut off, where ikcp_send refuses.
EngineSend_Truncates(len) ==
    LET segs == Cut(len)
    IN  [queue |-> sndQueue \o SubSeq(segs, 1, Least(Len(segs), FragLimit - 1)),
         ok |-> TRUE]

\* ikcp_send: snd_queue after it, and whether it returned no error.
EngineSend(len) ==
    LET e == Extend(len)
        rest == len - e
    IN  IF use.stream /\ rest = 0 THEN [queue |-> Extended(e), ok |-> TRUE]
        ELSE IF Len(Cut(rest)) >= FragLimit THEN [queue |-> Extended(e), ok |-> e > 0]
        ELSE [queue |-> Extended(e) \o Cut(rest), ok |-> TRUE]

\* Mutant: a closed session still sends.
SendRefused_Never == FALSE

SendRefused == closed

\* send_kcp and poll_write: Kcp::send reports all of len whenever ikcp_send
\* returned no error.
SendKcp(len) ==
    /\ call = Idle
    /\ "send_kcp" \in use.operations
    /\ sends < MaxSends
    /\ sends' = sends + 1
    /\ LET engine == EngineSend(len)
       IN  \/ /\ SendRefused
              /\ Return("send_kcp", len, "closed")
              /\ UNCHANGED <<sndQueue, transmitted, accepted>>
           \/ /\ ~SendRefused
              /\ ~engine.ok
              /\ Return("send_kcp", len, "failed")
              /\ UNCHANGED <<sndQueue, transmitted, accepted>>
           \/ /\ ~SendRefused
              /\ engine.ok
              /\ accepted' = accepted + len
              /\ IF use.flushing
                 THEN FlushTo(engine.queue)
                 ELSE sndQueue' = engine.queue /\ UNCHANGED transmitted
              /\ Return("send_kcp", len, "ok")
    /\ UNCHANGED <<use, netVars, recvVars, closed, silent, updated>>

\* flush and poll_flush.
Flush ==
    /\ call = Idle
    /\ "flush" \in use.operations
    /\ Update
    /\ Return("flush", 0, "ok")
    /\ UNCHANGED <<use, netVars, recvVars, closed, silent>>

\* close and poll_shutdown.
Close ==
    /\ call = Idle
    /\ "close" \in use.operations
    /\ closed' = TRUE
    /\ Return("close", 0, "ok")
    /\ UNCHANGED <<use, netVars, recvVars, silent, updated, sendVars>>

PollReads == "poll_read" \in use.operations /\ ~use.server

Next ==
    \/ \E k \in Fragments : ArrivePeer(k)
    \/ ArriveOther
    \/ RouterEnds
    \/ Elapse
    \/ RecvCall("recv_kcp", 0)
    \/ \E size \in BufLens : RecvCall("recv_kcp_buf", size)
    \/ RecvDatagram
    \/ RecvTick
    \/ RecvNone
    \/ PollReads /\ \E size \in BufLens : PollBuffered(size) \/ PollRead(size)
    \/ \E len \in use.lens : SendKcp(len)
    \/ Flush
    \/ Close

Spec == Init /\ [][Next]_vars

\* A poll or a tick that finds the flush of the engine due.
Driven == updated' /\ sndQueue' = <<>>

\* The runtime polls a call that can go on, the timer of flush_interval fires
\* again and again so that a flush of the engine becomes due (interval and
\* flush_interval are the same in the presets), and time passes.  The
\* application need not call anything, and nothing need arrive.
Fairness ==
    /\ WF_vars(RecvDatagram)
    /\ WF_vars(RecvTick)
    /\ WF_vars(RecvTick /\ Driven)
    /\ WF_vars(RecvNone)
    /\ \A size \in BufLens :
           /\ WF_vars(PollReads /\ call # Idle /\ PollRead(size))
           /\ WF_vars(PollReads /\ call # Idle /\ PollRead(size) /\ Driven)
    /\ WF_vars(Elapse)

FairSpec == Spec /\ Fairness

-----------------------------------------------------------------------------
(* Properties *)

\* Everything has its type; a call waits only on an open session.
TypeOK ==
    /\ use \in Uses
    /\ source \in Seq({FromPeer(k) : k \in Fragments} \cup {FromStranger, ResetError})
    /\ Len(source) <= SourceCap
    /\ {sent, input, taken} \subseteq Fragments
    /\ leftover \in Seq(Nat) /\ delivered \in Seq(Nat)
    /\ call \in {Idle} \cup [op : Recvs \cup {"poll_read"}, size : Nat]
    /\ call # Idle => ~closed
    /\ result \in [op : use.operations \cup {"none"}, size : Nat,
                   is : {"none", "ok", "eof", "closed", "timeout", "too_small", "io", "failed"}]
    /\ {routed, closed, silent, updated} \subseteq BOOLEAN
    /\ sndQueue \in Seq(0..Mss)
    /\ {transmitted, accepted} \subseteq Nat
    /\ sends \in 0..MaxSends

\* The application gets the bytes of the peer in order, none twice and none
\* left out, and only of messages that have come as a whole, through buffers
\* of any length.
BytesInOrder ==
    /\ \A i \in DOMAIN delivered : delivered[i] = i
    /\ Len(delivered) + Len(leftover) = Offset[taken]
    /\ taken <= input

\* A closed session stays closed, and from then on its engine is given nothing
\* to send and gives nothing out (close, and every error that closes).
ClosedIsFinal ==
    [][closed => /\ closed'
                 /\ taken' = taken
                 /\ accepted' = accepted]_vars

\* What send_kcp reports as accepted is in the engine or on its way.
AcceptedIsQueued == accepted = transmitted + Total(sndQueue)


\* When the peer has fallen silent, a call of recv_kcp or recv_kcp_buf that
\* waits does not wait for ever, if a timeout is set.
PeerFallsSilent == <>[](\A i \in DOMAIN source : source[i].from # "peer")

SilenceEndsRecv ==
    PeerFallsSilent => (use.timed /\ call.op \in Recvs ~> call = Idle)

\* The same of a call of AsyncRead.
SilenceEndsRead ==
    PeerFallsSilent => (use.timed /\ call.op = "poll_read" ~> call = Idle)

\* A receive call reports a buffer that is too small only when a whole message,
\* larger than the buffer, is there.
TooSmallMeansLarger ==
    result.is = "too_small" => HeadComplete(input) /\ HeadLen > result.size

\* In stream mode a receive call returns what fits into its buffer.
StreamRecvFits == use.stream => result.is # "too_small"

\* AsyncRead::read does not fail when a whole message has come, whatever its
\* length: a stream has no messages.
ReadsLikeAStream ==
    result.op = "poll_read" /\ HeadComplete(input) => result.is # "too_small"

\* A call times out only if no datagram of the peer is waiting to be read.
TimeoutMeansSilence ==
    [][result'.is = "timeout" /\ ~closed =>
           \A i \in DOMAIN source' : source'[i].from # "peer"]_vars

\* The ICMP error of a socket never ends a call.
ResetIgnored == result.is # "io"

\* With flush_write, what send_kcp took has been transmitted when it returns.
FlushWriteSends ==
    use.flushing /\ result.op = "send_kcp" /\ result.is = "ok" => sndQueue = <<>>

\* What was queued has been transmitted when flush returns.
FlushSends == result.op = "flush" => sndQueue = <<>>
=============================================================================
