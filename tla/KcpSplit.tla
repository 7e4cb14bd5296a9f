------------------------------ MODULE KcpSplit -------------------------------
(***************************************************************************)
(* A KcpStream split into OwnedReadHalf and OwnedWriteHalf                 *)
(* (src/src/tokio_rt/stream.rs): two tasks share one KcpSession behind a   *)
(* tokio Mutex.  The reader waits for data without the lock and takes it   *)
(* twice in each round; the writer takes it once in each call.             *)
(*                                                                         *)
(* Every .await, and every moment at which the other task can find the     *)
(* lock taken, lies between two steps.  The mutex is tokio's: waiters are  *)
(* served first come, first served, and a release hands the lock over.     *)
(* The engine is reduced to counters: each packet completes one message,   *)
(* the buffers of the application are long enough, and the socket reports   *)
(* no errors but those recv_kcp ignores (KcpSession looks at all three).   *)
(***************************************************************************)
EXTENDS Naturals, Sequences

CONSTANTS Uses,         \* how a split stream is configured and used
          MaxPackets,   \* bound: packets for this session
          MaxSends      \* bound: messages sent

WriterCalls == {"send_kcp", "flush", "close"}

\* Is the stream read by recv_kcp or by AsyncRead; may the application drop the
\* futures of recv_kcp; what it calls on the write half, and whether through
\* AsyncWrite; RecvSource::Channel; flush_write; whether a timeout is set.
Use == [reading : {"recv_kcp", "poll_read"}, cancelling : BOOLEAN,
        writing : SUBSET WriterCalls, polling : BOOLEAN,
        server : BOOLEAN, flushing : BOOLEAN, timed : BOOLEAN]

ASSUME SplitAssumption ==
    /\ \A u \in Uses : u \in Use
    /\ {MaxPackets, MaxSends} \subseteq Nat

VARIABLES
    use,        \* how this stream is configured and used
    arrived,    \* packets that reached the session's channel or socket
    source,     \* those that wait there
    routed,     \* server: does the listener's task hold the channel?
    holder,     \* who holds the mutex
    waiting,    \* who waits for it
    reader,     \* where the reader's call is
    inHand,     \* received_data: the packet taken and not yet input
    read,       \* what the reader's last call returned
    writer,     \* where the writer's call is
    request,    \* the call of the writer
    wrote,      \* what the writer's last call returned
    input,      \* session: the packets given to ikcp_input
    delivered,  \* session: messages taken by ikcp_recv
    closed,     \* session.closed
    silent,     \* session: is the timeout over?
    updated,    \* kcp->updated
    queued,     \* messages in snd_queue
    sends       \* messages sent so far

netVars == <<arrived, source, routed>>
lockVars == <<holder, waiting>>
readerVars == <<reader, inHand, read>>
writerVars == <<writer, request, wrote>>
inVars == <<input, delivered, silent>>
outVars == <<updated, queued>>
vars == <<use, netVars, lockVars, readerVars, writerVars, inVars, outVars, closed, sends>>

Init ==
    /\ use \in Uses
    /\ arrived = 0 /\ source = <<>> /\ routed = TRUE
    /\ holder = "nobody" /\ waiting = <<>>
    /\ reader = "idle" /\ inHand = <<>> /\ read = "nothing"
    /\ writer = "idle" /\ request = "none" /\ wrote = "nothing"
    /\ input = <<>> /\ delivered = 0 /\ silent = FALSE
    /\ updated = FALSE /\ queued = 0
    /\ closed = FALSE /\ sends = 0

-----------------------------------------------------------------------------
(* The network, the listener and the clock *)

Arrive ==
    /\ routed
    /\ arrived < MaxPackets
    /\ arrived' = arrived + 1
    /\ source' = Append(source, arrived + 1)
    /\ UNCHANGED <<use, routed, lockVars, readerVars, writerVars, inVars, outVars, closed, sends>>

RouterEnds ==
    /\ use.server
    /\ routed
    /\ routed' = FALSE
    /\ UNCHANGED <<use, arrived, source, lockVars, readerVars, writerVars, inVars, outVars,
                   closed, sends>>

Elapse ==
    /\ use.timed
    /\ ~silent
    /\ silent' = TRUE
    /\ UNCHANGED <<use, netVars, lockVars, readerVars, writerVars, input, delivered, outVars,
                   closed, sends>>

-----------------------------------------------------------------------------
(* tokio's mutex, and the engine *)

\* lock().await is polled for the first time.
Lock(who) ==
    IF holder = "nobody"
    THEN holder' = who /\ UNCHANGED waiting
    ELSE waiting' = Append(waiting, who) /\ UNCHANGED holder

Unlock ==
    IF waiting = <<>>
    THEN holder' = "nobody" /\ UNCHANGED waiting
    ELSE holder' = Head(waiting) /\ waiting' = Tail(waiting)

\* A future that waits for the lock, or has just been handed it, is dropped.
\* While one of the two tasks holds the lock, only the other can be waiting.
Abandon(who) ==
    IF holder = who THEN Unlock
    ELSE /\ waiting' = IF waiting = <<who>> THEN <<>> ELSE waiting
         /\ UNCHANGED holder

\* ikcp_update: the first call flushes, a later one when interval has passed.
Update ==
    /\ updated' = TRUE
    /\ queued' = 0 \/ (updated /\ queued' = queued)

Take == delivered' = delivered + 1

-----------------------------------------------------------------------------
(* OwnedReadHalf::recv_kcp and recv_kcp_buf *)

RecvKcp ==
    /\ reader = "idle"
    /\ use.reading = "recv_kcp"
    /\ reader' = "trying"
    /\ read' = "nothing"
    /\ Lock("reader")
    /\ UNCHANGED <<use, netVars, inHand, writerVars, inVars, outVars, closed, sends>>

\* Mutant: the session's closed flag is not looked at.
RecvRefused_Never == FALSE

RecvRefused == closed

\* Mutant: the lock is held while the reader waits.
TryRecv_HoldsLock ==
    /\ reader = "trying"
    /\ holder = "reader"
    /\ \/ /\ RecvRefused \/ delivered < Len(input)
          /\ delivered' = IF RecvRefused THEN delivered ELSE delivered + 1
          /\ reader' = "idle" /\ read' = IF RecvRefused THEN "closed" ELSE "data"
          /\ Unlock
       \/ /\ ~RecvRefused
          /\ delivered = Len(input)
          /\ reader' = "waiting"
          /\ UNCHANGED <<read, delivered, lockVars>>
    /\ UNCHANGED <<use, netVars, inHand, writerVars, input, closed, silent, outVars, sends>>

\* 1. Under the lock: try_recv, then the timeout, then back to waiting.
TryRecv ==
    /\ reader = "trying"
    /\ holder = "reader"
    /\ \/ /\ RecvRefused
          /\ reader' = "idle" /\ read' = "closed"
          /\ UNCHANGED <<delivered, closed>>
       \/ /\ ~RecvRefused
          /\ delivered < Len(input)
          /\ Take
          /\ reader' = "idle" /\ read' = "data"
          /\ UNCHANGED closed
       \/ /\ ~RecvRefused
          /\ delivered = Len(input)
          /\ silent
          /\ closed' = TRUE
          /\ reader' = "idle" /\ read' = "timeout"
          /\ UNCHANGED delivered
       \/ /\ ~RecvRefused
          /\ delivered = Len(input)
          /\ ~silent
          /\ reader' = "waiting"
          /\ UNCHANGED <<read, delivered, closed>>
    /\ Unlock
    /\ UNCHANGED <<use, netVars, inHand, writerVars, input, silent, outVars, sends>>

\* Mutant: a packet is thrown away when the lock is taken.
WaitData_TryLock ==
    /\ reader = "waiting"
    /\ source # <<>>
    /\ source' = Tail(source)
    /\ inHand' = IF holder = "nobody" THEN <<Head(source)>> ELSE <<>>
    /\ reader' = "feeding"
    /\ Lock("reader")
    /\ UNCHANGED <<use, arrived, routed, read, writerVars, inVars, outVars, closed, sends>>

\* 2. Without the lock: a packet comes first.
WaitData ==
    /\ reader = "waiting"
    /\ source # <<>>
    /\ source' = Tail(source)
    /\ inHand' = <<Head(source)>>
    /\ reader' = "feeding"
    /\ Lock("reader")
    /\ UNCHANGED <<use, arrived, routed, read, writerVars, inVars, outVars, closed, sends>>

\* Mutant: the reader waits for data alone.
WaitTick_Never == FALSE

\* 2. flush_interval passes first, or the socket has something that is not a
\* packet of the peer (another address, ConnectionReset).
WaitTick ==
    /\ reader = "waiting"
    /\ reader' = "feeding"
    /\ Lock("reader")
    /\ UNCHANGED <<use, netVars, inHand, read, writerVars, inVars, outVars, closed, sends>>

\* 2. The channel is empty and its sender gone.
WaitNone ==
    /\ reader = "waiting"
    /\ ~routed
    /\ source = <<>>
    /\ reader' = "idle"
    /\ read' = "closed"
    /\ UNCHANGED <<use, netVars, lockVars, inHand, writerVars, inVars, outVars, closed, sends>>

\* Mutant: the engine is driven only when a packet has come.
Drive_OnlyWithData == IF inHand = <<>> THEN UNCHANGED outVars ELSE Update

Drive == Update

\* Mutant: the lock is kept from input to the next try.
Feed_KeepsLock ==
    /\ reader = "feeding"
    /\ holder = "reader"
    /\ input' = input \o inHand
    /\ silent' = (silent /\ inHand = <<>>)
    /\ Drive
    /\ inHand' = <<>>
    /\ reader' = "looping"
    /\ UNCHANGED <<use, netVars, lockVars, read, writerVars, delivered, closed, sends>>

\* 3. Under the lock: input and update.
Feed ==
    /\ reader = "feeding"
    /\ holder = "reader"
    /\ input' = input \o inHand
    /\ silent' = (silent /\ inHand = <<>>)
    /\ Drive
    /\ inHand' = <<>>
    /\ reader' = "looping"
    /\ Unlock
    /\ UNCHANGED <<use, netVars, read, writerVars, delivered, closed, sends>>

\* Back to 1.
Again ==
    /\ reader = "looping"
    /\ reader' = "trying"
    /\ Lock("reader")
    /\ UNCHANGED <<use, netVars, inHand, read, writerVars, inVars, outVars, closed, sends>>

\* The application drops the future at an .await (select!, timeout, abort).
CancelRecv ==
    /\ use.cancelling
    /\ reader \in {"trying", "waiting", "feeding"}
    /\ IF reader = "waiting" THEN UNCHANGED lockVars ELSE Abandon("reader")
    /\ reader' = "idle"
    /\ inHand' = <<>>
    /\ UNCHANGED <<use, netVars, read, writerVars, inVars, outVars, closed, sends>>

-----------------------------------------------------------------------------
(* AsyncRead of OwnedReadHalf, on a client *)

\* A poll, the first of a call or one that the last poll asked for, tries the
\* lock.  If it is taken the poll goes on, and the future that waits for the
\* lock lives until the poll ends: it may be handed a lock it never uses.
PollRead ==
    /\ use.reading = "poll_read"
    /\ reader \in {"idle", "polled"}
    /\ reader' = IF holder = "nobody" THEN "poll_trying" ELSE "poll_io"
    /\ Lock("reader")
    /\ read' = "nothing"
    /\ UNCHANGED <<use, netVars, inHand, writerVars, inVars, outVars, closed, sends>>

PollTryRecv ==
    /\ reader = "poll_trying"
    /\ \/ /\ closed
          /\ reader' = "idle" /\ read' = "eof"
          /\ UNCHANGED <<delivered, outVars>>
       \/ /\ ~closed
          /\ delivered < Len(input)
          /\ Take
          /\ reader' = "idle" /\ read' = "data"
          /\ UNCHANGED outVars
       \/ /\ ~closed
          /\ delivered = Len(input)
          /\ Update
          /\ reader' = "poll_io"
          /\ UNCHANGED <<read, delivered>>
    /\ Unlock
    /\ UNCHANGED <<use, netVars, inHand, writerVars, input, silent, closed, sends>>

PollSocket ==
    /\ reader = "poll_io"
    /\ \/ /\ source # <<>>
          /\ source' = Tail(source)
          /\ inHand' = <<Head(source)>>
          /\ reader' = "poll_locking"
          /\ UNCHANGED lockVars
       \/ /\ source = <<>>
          /\ reader' = "polled"
          /\ Abandon("reader")
          /\ UNCHANGED <<source, inHand>>
    /\ UNCHANGED <<use, arrived, routed, read, writerVars, inVars, outVars, closed, sends>>

\* The lock once more; if it is taken, be it by the poll's own first future,
\* the datagram is gone.
PollLock ==
    /\ reader = "poll_locking"
    /\ \/ /\ holder = "nobody"
          /\ holder' = "reader"
          /\ reader' = "poll_feeding"
          /\ UNCHANGED <<waiting, inHand>>
       \/ /\ holder # "nobody"
          /\ Abandon("reader")
          /\ reader' = "polled"
          /\ inHand' = <<>>
    /\ UNCHANGED <<use, netVars, read, writerVars, inVars, outVars, closed, sends>>

PollFeed ==
    /\ reader = "poll_feeding"
    /\ input' = input \o inHand
    /\ inHand' = <<>>
    /\ silent' = FALSE
    /\ Update
    /\ \/ /\ closed
          /\ reader' = "idle" /\ read' = "eof"
          /\ UNCHANGED delivered
       \/ /\ ~closed
          /\ Take
          /\ reader' = "idle" /\ read' = "data"
    /\ Unlock
    /\ UNCHANGED <<use, netVars, writerVars, closed, sends>>

-----------------------------------------------------------------------------
(* OwnedWriteHalf *)

\* send_kcp, flush and close wait for the lock.
WriterLocks(op) ==
    /\ writer = "idle"
    /\ ~use.polling
    /\ op \in use.writing
    /\ op = "send_kcp" => sends < MaxSends
    /\ request' = op
    /\ writer' = "locking"
    /\ wrote' = "nothing"
    /\ Lock("writer")
    /\ UNCHANGED <<use, netVars, readerVars, inVars, outVars, closed, sends>>

\* poll_write, poll_flush and poll_shutdown try the lock; if it is taken, they
\* drop the future that waits for it, and with it the waker, and are pending.
\* Only something else can make the task poll again.
WriterPolls(op) ==
    /\ use.polling
    /\ op \in use.writing
    /\ \/ writer = "idle" /\ (op = "send_kcp" => sends < MaxSends)
       \/ writer = "parked" /\ request = op
    /\ request' = op
    /\ wrote' = "nothing"
    /\ IF holder = "nobody"
       THEN writer' = "locking" /\ holder' = "writer"
       ELSE writer' = "parked" /\ UNCHANGED holder
    /\ UNCHANGED <<use, netVars, waiting, readerVars, inVars, outVars, closed, sends>>

SendRefused == closed

\* Under the lock: what was asked for.
WriterActs ==
    /\ writer = "locking"
    /\ holder = "writer"
    /\ \/ /\ request = "send_kcp"
          /\ IF SendRefused
             THEN wrote' = "closed" /\ UNCHANGED <<queued, sends>>
             ELSE /\ wrote' = "ok"
                  /\ sends' = sends + 1
                  /\ queued' = IF use.flushing /\ updated THEN 0 ELSE queued + 1
          /\ UNCHANGED <<updated, closed>>
       \/ /\ request = "flush"
          /\ Update
          /\ wrote' = "ok"
          /\ UNCHANGED <<closed, sends>>
       \/ /\ request = "close"
          /\ closed' = TRUE
          /\ wrote' = "ok"
          /\ UNCHANGED <<outVars, sends>>
    /\ writer' = "idle"
    /\ Unlock
    /\ UNCHANGED <<use, netVars, readerVars, request, inVars>>

-----------------------------------------------------------------------------

ReaderStep ==
    TryRecv \/ WaitData \/ WaitTick \/ WaitNone \/ Feed \/ Again

PollStep == PollTryRecv \/ PollSocket \/ PollLock \/ PollFeed

Next ==
    \/ Arrive
    \/ RouterEnds
    \/ Elapse
    \/ RecvKcp
    \/ ReaderStep
    \/ CancelRecv
    \/ PollRead
    \/ PollStep
    \/ \E op \in WriterCalls : WriterLocks(op) \/ WriterPolls(op)
    \/ WriterActs

Spec == Init /\ [][Next]_vars

\* Each task is run while its call can go on, the timer of flush_interval fires
\* and finds the engine's own interval over now and then, and the reader reads
\* in a loop that ends with the first error, as in the example of into_split.
\* The writer need not call anything.
Fairness ==
    /\ WF_vars(RecvKcp /\ read \notin {"closed", "timeout"})
    /\ WF_vars(ReaderStep)
    /\ SF_vars(Feed /\ queued' = 0)
    /\ WF_vars(PollStep)
    /\ WF_vars(PollRead /\ reader = "polled")
    /\ WF_vars(WriterActs)

FairSpec == Spec /\ Fairness

-----------------------------------------------------------------------------
(* Properties *)

\* The lock is held by one task, only the other can wait for it, and each does so
\* for a call that needs it: no call leaves the lock, or its place in the queue,
\* behind.
LockOK ==
    /\ holder \in {"nobody", "reader", "writer"}
    /\ waiting \in {<<>>, <<"reader">>, <<"writer">>}
    /\ waiting = <<"reader">> =>
          /\ holder = "writer"
          /\ reader \in {"trying", "feeding", "poll_io", "poll_locking"}
    /\ waiting = <<"writer">> => holder = "reader" /\ writer = "locking"
    /\ holder = "reader" => reader \in {"trying", "feeding", "poll_trying", "poll_io",
                                       "poll_locking", "poll_feeding"}
    /\ holder = "writer" => writer = "locking"

DataOK ==
    /\ arrived \in 0..MaxPackets
    /\ source \in Seq(1..MaxPackets)
    /\ inHand \in Seq(1..MaxPackets)
    /\ input \in Seq(1..MaxPackets)
    /\ delivered \in 0..Len(input)
    /\ queued \in 0..MaxSends
    /\ sends \in 0..MaxSends

\* Everything has its type, and the lock is in order.
TypeOK ==
    /\ use \in Uses
    /\ LockOK
    /\ DataOK
    /\ reader \in {"idle", "trying", "waiting", "feeding", "looping", "poll_trying", "poll_io",
                   "poll_locking", "poll_feeding", "polled"}
    /\ read \in {"nothing", "data", "closed", "timeout", "eof"}
    /\ writer \in {"idle", "locking", "parked"}
    /\ request \in WriterCalls \cup {"none"}
    /\ wrote \in {"nothing", "ok", "closed"}
    /\ routed \in BOOLEAN
    /\ closed \in BOOLEAN
    /\ silent \in BOOLEAN
    /\ updated \in BOOLEAN

\* Every packet that recv_kcp takes from the channel or socket is given to the
\* engine, once and in order, though the lock is free between the two
\* (OwnedReadHalf::wait_for_data), unless the application drops its future.
TakenAreInput ==
    use.reading = "recv_kcp" /\ ~use.cancelling =>
        input \o inHand \o source = [i \in 1..arrived |-> i]

\* Once the session is closed by either half, no message is read and none is
\* accepted, whatever step of a call the other half was in.
NothingAfterClose ==
    [][closed => closed' /\ delivered' = delivered /\ sends' = sends]_vars

\* A close by the write half ends the reader's call of recv_kcp, though no packet
\* comes and nothing wakes the reader for it.
CloseStopsReader ==
    use.reading = "recv_kcp" /\ closed /\ reader # "idle" ~> reader = "idle"

\* The halves never block each other: a call of send_kcp, flush or close
\* returns, wherever the reader is, however it reads, and however often its calls
\* are cancelled.
WriterReturns == ~use.polling /\ writer # "idle" ~> writer = "idle"

\* The same of a write, flush or shutdown of AsyncWrite.
PollingWriterReturns == use.polling /\ writer # "idle" ~> writer = "idle"

\* What the write half queued is transmitted while the reader waits in recv_kcp,
\* even when no packet comes: the reader's rounds drive the engine for both.
QueuedGoesOut ==
    use.reading = "recv_kcp" /\ queued > 0 ~> queued = 0 \/ reader = "idle"

\* A reader is told that the session is closed only when it is.
ClosedIsShared == read = "closed" => closed
=============================================================================
