-------------------------- MODULE KcpSplit_proofs ---------------------------
(***************************************************************************)
(* Proofs about KcpSplit, for every use of a split stream and any number   *)
(* of packets and messages.                                                *)
(*                                                                         *)
(* TypeOK holds the discipline of the lock.  It is not inductive: what a   *)
(* task has in hand and what it was asked for must fit where its call is.  *)
(* InHandInv and RequestInv say so; LockedInv adds that a poll which found *)
(* the lock free still has it.  The lemmas about the lock say what a step  *)
(* of either half does to it; those about the data need no lock at all,    *)
(* and TakenAreInput is inductive beside them.                             *)
(***************************************************************************)
EXTENDS KcpSplit, SequenceTheorems, TLAPS

\* The reader has a packet in hand only between taking and feeding it, and
\* each way of reading has its own places.
InHandInv ==
    /\ Len(inHand) <= 1
    /\ reader \in {"poll_locking", "poll_feeding"} => Len(inHand) = 1
    /\ inHand # <<>> => reader \in {"feeding", "poll_locking", "poll_feeding"}
    /\ reader \in {"trying", "waiting", "feeding", "looping"} => use.reading = "recv_kcp"
    /\ reader \in {"poll_trying", "poll_io", "poll_locking", "poll_feeding", "polled"}
          => use.reading = "poll_read"

\* A message that the writer was asked to send still fits the bound.
RequestInv ==
    /\ writer # "idle" /\ request = "send_kcp" => sends < MaxSends
    /\ queued <= sends

LockedInv == reader \in {"poll_trying", "poll_feeding"} => holder = "reader"

IInv == TypeOK /\ InHandInv /\ RequestInv /\ LockedInv

\* What lock, release and abandon do to the holder and the queue.
Task == {"reader", "writer"}

QueueOK ==
    /\ holder \in {"nobody"} \cup Task
    /\ waiting \in {<<>>, <<"reader">>, <<"writer">>}
    /\ waiting = <<"reader">> => holder = "writer"
    /\ waiting = <<"writer">> => holder = "reader"

\* t has nothing to do with the lock.
Away(t) == holder # t /\ waiting # <<t>>

LEMMA Queues ==
    /\ <<"reader">> # <<>> /\ <<"writer">> # <<>> /\ <<"reader">> # <<"writer">>
    /\ \A t : Head(<<t>>) = t /\ Tail(<<t>>) = <<>> /\ Append(<<>>, t) = <<t>>
<1>1. <<"reader">>[1] = "reader" /\ <<"writer">>[1] = "writer"
  OBVIOUS
<1>2. Len(<<"reader">>) = 1 /\ Len(<<"writer">>) = 1 /\ Len(<<>>) = 0
  OBVIOUS
<1> QED BY <1>1, <1>2

LEMMA LockEffect ==
    ASSUME QueueOK, NEW t \in Task, NEW u \in Task \ {t}, Away(t), Lock(t)
    PROVE  /\ QueueOK'
           /\ Away(u) => Away(u)'
           /\ holder' = t => waiting' # <<t>>
           /\ holder = "nobody" => holder' = t
           /\ holder = u => holder' = u
<1>1. CASE holder = "nobody"
  BY <1>1, Queues DEF QueueOK, Away, Lock, Task
<1>2. CASE holder # "nobody"
  BY <1>2, Queues DEF QueueOK, Away, Lock, Task
<1> QED BY <1>1, <1>2

LEMMA UnlockEffect ==
    ASSUME QueueOK, NEW t \in Task, NEW u \in Task \ {t}, holder = t, Unlock
    PROVE  /\ QueueOK'
           /\ Away(t)'
           /\ holder' = u \/ waiting' = <<u>> => waiting = <<u>>
BY Queues DEF QueueOK, Away, Unlock, Task

LEMMA AbandonEffect ==
    ASSUME QueueOK, NEW t \in Task, NEW u \in Task \ {t}, Abandon(t)
    PROVE  /\ QueueOK'
           /\ Away(t)'
           /\ Away(u) => Away(u)'
BY UnlockEffect, Queues DEF QueueOK, Away, Abandon, Task

-----------------------------------------------------------------------------
(* The lock *)

LEMMA LockIsQueue == LockOK => QueueOK
BY Queues DEF LockOK, QueueOK, Task

\* The places of the reader's call that have to do with the lock; the writer's
\* is "locking".
WithLock == {"trying", "feeding", "poll_trying", "poll_io", "poll_locking", "poll_feeding"}

LEMMA ReaderAway ==
    ASSUME LockOK, reader \notin WithLock
    PROVE  Away("reader")
BY DEF LockOK, Away, WithLock

LEMMA WriterAway ==
    ASSUME LockOK, writer # "locking"
    PROVE  Away("writer")
BY Queues DEF LockOK, Away

\* What a step of the reader must establish: the lock is in order, the writer's
\* part in it is at most what it was, and the reader has its place in it only
\* where its call needs it.
LEMMA ReaderKeepsLock ==
    ASSUME LockOK, QueueOK', writer' = writer,
           Away("writer") => Away("writer")',
           \/ Away("reader")'
           \/ /\ holder' = "reader" => reader' \in WithLock
              /\ waiting' = <<"reader">> =>
                    reader' \in {"trying", "feeding", "poll_io", "poll_locking"},
           reader' \in {"poll_trying", "poll_feeding"} => holder' = "reader"
    PROVE  LockOK' /\ LockedInv'
BY Queues, WriterAway DEF LockOK, QueueOK, LockedInv, Away, WithLock, Task

LEMMA WriterKeepsLock ==
    ASSUME LockOK, LockedInv, QueueOK', reader' = reader,
           Away("reader") => Away("reader")',
           holder = "reader" => holder' = "reader",
           waiting' = <<"reader">> => waiting = <<"reader">>,
           Away("writer")' \/ writer' = "locking"
    PROVE  LockOK' /\ LockedInv'
BY Queues, ReaderAway DEF LockOK, QueueOK, LockedInv, Away, WithLock, Task

\* The three ways in which a step of t changes the lock, as the two lemmas above
\* need them.
LEMMA ReaderLocks ==
    ASSUME LockOK, Away("reader"), Lock("reader"), writer' = writer,
           holder' = "reader" => reader' \in WithLock,
           waiting' = <<"reader">> => reader' \in {"trying", "feeding", "poll_io", "poll_locking"},
           reader' \in {"poll_trying", "poll_feeding"} => holder = "nobody"
    PROVE  LockOK' /\ LockedInv'
BY LockIsQueue, LockEffect, ReaderKeepsLock DEF Task

LEMMA ReaderUnlocks ==
    ASSUME LockOK, holder = "reader", Unlock, writer' = writer,
           reader' \notin {"poll_trying", "poll_feeding"}
    PROVE  LockOK' /\ LockedInv'
<1>1. QueueOK' /\ Away("reader")' /\ (Away("writer") => Away("writer")')
  BY LockIsQueue, UnlockEffect DEF Task, Away
<1> QED BY <1>1, ReaderKeepsLock

LEMMA ReaderAbandons ==
    ASSUME LockOK, Abandon("reader"), writer' = writer,
           reader' \notin {"poll_trying", "poll_feeding"}
    PROVE  LockOK' /\ LockedInv'
<1>1. QueueOK' /\ Away("reader")' /\ (Away("writer") => Away("writer")')
  BY LockIsQueue, AbandonEffect DEF Task
<1> QED BY <1>1, ReaderKeepsLock

LEMMA LockUntouched ==
    ASSUME LockOK, LockedInv, UNCHANGED <<holder, waiting>>, writer' = writer,
           holder = "reader" => reader' \in WithLock,
           waiting = <<"reader">> => reader' \in {"trying", "feeding", "poll_io", "poll_locking"},
           reader' \in {"poll_trying", "poll_feeding"} => holder = "reader"
    PROVE  LockOK' /\ LockedInv'
BY LockIsQueue, ReaderKeepsLock DEF QueueOK, Away

LEMMA WriterUnlocks ==
    ASSUME LockOK, LockedInv, holder = "writer", Unlock, reader' = reader
    PROVE  LockOK' /\ LockedInv'
<1>1. QueueOK' /\ Away("writer")' /\ (Away("reader") => Away("reader")')
  BY LockIsQueue, UnlockEffect DEF Task, Away
<1>2. waiting' # <<"reader">>
  BY Queues, LockIsQueue DEF Unlock, QueueOK
<1> QED BY <1>1, <1>2, WriterKeepsLock

\* Every step keeps the lock in order.
LEMMA LockInvariance ==
    ASSUME LockOK, LockedInv, [Next]_vars
    PROVE  LockOK' /\ LockedInv'
<1> USE DEF WithLock
<1>1. CASE Arrive \/ RouterEnds \/ Elapse \/ WaitNone \/ UNCHANGED vars
  BY <1>1, LockUntouched, ReaderAway
  DEF Arrive, RouterEnds, Elapse, WaitNone, lockVars, readerVars, writerVars, vars, LockOK,
      LockedInv
<1>2. CASE RecvKcp \/ WaitData \/ WaitTick \/ Again
  BY <1>2, ReaderLocks, ReaderAway
  DEF RecvKcp, WaitData, WaitTick, Again, writerVars
<1>3. CASE PollRead
  <2>1. Away("reader") /\ Lock("reader") /\ writer' = writer
    BY <1>3, ReaderAway DEF PollRead, writerVars
  <2>2. holder = "nobody" => waiting' # <<"reader">>
    BY <2>1, LockIsQueue, LockEffect DEF Task
  <2> QED BY <1>3, <2>1, <2>2, ReaderLocks DEF PollRead
<1>4. CASE TryRecv \/ Feed \/ PollTryRecv \/ PollFeed
  BY <1>4, ReaderUnlocks
  DEF TryRecv, Feed, PollTryRecv, PollFeed, writerVars, LockedInv
<1>5. CASE CancelRecv
  <2>1. CASE reader = "waiting"
    BY <1>5, <2>1, LockUntouched, ReaderAway DEF CancelRecv, lockVars, writerVars, Away
  <2>2. CASE reader # "waiting"
    BY <1>5, <2>2, ReaderAbandons DEF CancelRecv, writerVars
  <2> QED BY <2>1, <2>2
<1>6. CASE PollSocket
  BY <1>6, ReaderAbandons, LockUntouched DEF PollSocket, lockVars, writerVars, LockOK
<1>7. CASE PollLock
  BY <1>7, ReaderAbandons, ReaderKeepsLock, LockIsQueue, Queues
  DEF PollLock, writerVars, QueueOK, Away, Task
<1>8. ASSUME NEW op \in WriterCalls, WriterLocks(op) PROVE LockOK' /\ LockedInv'
  BY <1>8, WriterAway, LockIsQueue, LockEffect, WriterKeepsLock, Queues
  DEF WriterLocks, readerVars, Task, Lock
<1>9. ASSUME NEW op \in WriterCalls, WriterPolls(op) PROVE LockOK' /\ LockedInv'
  BY <1>9, LockIsQueue, WriterKeepsLock, WriterAway, Queues
  DEF WriterPolls, readerVars, QueueOK, Away, Task, LockOK
<1>10. CASE WriterActs
  BY <1>10, WriterUnlocks DEF WriterActs, readerVars
<1> QED
  BY <1>1, <1>2, <1>3, <1>4, <1>5, <1>6, <1>7, <1>8, <1>9, <1>10
  DEF Next, ReaderStep, PollStep

-----------------------------------------------------------------------------
(* The calls and the data *)

CallsOK ==
    /\ use \in Uses
    /\ reader \in {"idle", "trying", "waiting", "feeding", "looping"} \cup
                 {"poll_trying", "poll_io", "poll_locking", "poll_feeding", "polled"}
    /\ read \in {"nothing", "data", "closed", "timeout", "eof"}
    /\ writer \in {"idle", "locking", "parked"}
    /\ request \in WriterCalls \cup {"none"}
    /\ wrote \in {"nothing", "ok", "closed"}
    /\ routed \in BOOLEAN /\ closed \in BOOLEAN /\ silent \in BOOLEAN /\ updated \in BOOLEAN

LEMMA TypeParts == TypeOK <=> LockOK /\ DataOK /\ CallsOK
BY DEF TypeOK, CallsOK

LEMMA CallsInvariance ==
    ASSUME CallsOK, DataOK, InHandInv, [Next]_vars
    PROVE  CallsOK'
<1> USE DEF CallsOK, WriterCalls
<1>1. CASE UNCHANGED vars
  BY <1>1 DEF netVars, readerVars, writerVars, inVars, outVars, vars
<1>a. CASE Arrive \/ RouterEnds
  BY <1>a DEF Arrive, RouterEnds, readerVars, writerVars, inVars, outVars
<1>b. CASE Elapse \/ WaitNone
  BY <1>b DEF Elapse, WaitNone, netVars, readerVars, writerVars, inVars, outVars
<1>2. CASE RecvKcp \/ Again \/ CancelRecv
  BY <1>2 DEF RecvKcp, Again, CancelRecv, netVars, writerVars, inVars, outVars
<1>c. CASE WaitData \/ WaitTick
  BY <1>c DEF WaitData, WaitTick, netVars, writerVars, inVars, outVars
<1>3. CASE TryRecv
  BY <1>3 DEF TryRecv, RecvRefused, netVars, writerVars, outVars
<1>4. CASE Feed
  BY <1>4 DEF Feed, Drive, Update, netVars, writerVars
<1>5. CASE PollRead \/ PollSocket \/ PollLock
  BY <1>5 DEF PollRead, PollSocket, PollLock, netVars, writerVars, inVars, outVars
<1>6. CASE PollTryRecv \/ PollFeed
  BY <1>6 DEF PollTryRecv, PollFeed, Update, netVars, writerVars, outVars
<1>7. ASSUME NEW op \in WriterCalls, WriterLocks(op) \/ WriterPolls(op) PROVE CallsOK'
  BY <1>7 DEF WriterLocks, WriterPolls, netVars, readerVars, inVars, outVars
<1>8. CASE WriterActs
  BY <1>8 DEF WriterActs, SendRefused, Update, netVars, readerVars, inVars, outVars
<1> QED
  BY <1>1, <1>a, <1>b, <1>2, <1>c, <1>3, <1>4, <1>5, <1>6, <1>7, <1>8 DEF Next, ReaderStep, PollStep

LEMMA InHandInvariance ==
    ASSUME CallsOK, DataOK, InHandInv, [Next]_vars
    PROVE  InHandInv'
<1> USE DEF InHandInv
<1>0. Len(<<>>) = 0 /\ Len(<<Head(source)>>) = 1 /\ <<Head(source)>> # <<>>
  <2>1. Len(<<Head(source)>>) = 1
    OBVIOUS
  <2> QED BY <2>1
<1>1. CASE Arrive \/ RouterEnds \/ Elapse \/ WaitNone \/ UNCHANGED vars
  BY <1>1
  DEF Arrive, RouterEnds, Elapse, WaitNone, readerVars, vars
<1>2. CASE RecvKcp \/ WaitTick \/ Again \/ CancelRecv
  BY <1>0, <1>2 DEF RecvKcp, WaitTick, Again, CancelRecv
<1>3. CASE WaitData
  BY <1>0, <1>3 DEF WaitData
<1>4. CASE TryRecv \/ Feed
  BY <1>0, <1>4 DEF TryRecv, Feed
<1>5. CASE PollRead \/ PollSocket \/ PollLock
  <2>1. CASE PollRead
    BY <2>1 DEF PollRead
  <2>2. CASE PollSocket
    <3>1. use' = use /\ use.reading = "poll_read"
      BY <2>2 DEF PollSocket
    <3>2. CASE source = <<>>
      BY <2>2, <3>1, <3>2 DEF PollSocket
    <3>3. CASE source # <<>>
      <4>1. reader' = "poll_locking" /\ Len(inHand') = 1 /\ inHand' # <<>>
        BY <1>0, <2>2, <3>3 DEF PollSocket
      <4> QED BY <3>1, <4>1
    <3> QED BY <3>2, <3>3
  <2>3. CASE PollLock
    BY <1>0, <2>3 DEF PollLock
  <2> QED BY <1>5, <2>1, <2>2, <2>3
<1>6. CASE PollTryRecv \/ PollFeed
  BY <1>0, <1>6 DEF PollTryRecv, PollFeed
<1>7. ASSUME NEW op \in WriterCalls, WriterLocks(op) \/ WriterPolls(op) PROVE InHandInv'
  BY <1>7 DEF WriterLocks, WriterPolls, readerVars
<1>8. CASE WriterActs
  BY <1>8 DEF WriterActs, readerVars
<1> QED
  BY <1>1, <1>2, <1>3, <1>4, <1>5, <1>6, <1>7, <1>8 DEF Next, ReaderStep, PollStep

\* What the steps do to the packets.
Packets == Seq(1..MaxPackets)

LEMMA TakeFirst ==
    ASSUME source \in Packets, source # <<>>
    PROVE  Tail(source) \in Packets /\ <<Head(source)>> \in Packets
<1>1. Head(source) \in 1..MaxPackets /\ Tail(source) \in Packets
  BY HeadTailProperties DEF Packets
<1> QED BY <1>1 DEF Packets

LEMMA InputGrows ==
    ASSUME input \in Packets, inHand \in Packets
    PROVE  /\ input \o inHand \in Packets
           /\ Len(input \o inHand) = Len(input) + Len(inHand)
           /\ Len(input) \in Nat /\ Len(inHand) \in Nat
<1>1. /\ input \o inHand \in Packets
      /\ Len(input \o inHand) = Len(input) + Len(inHand)
  BY ConcatProperties DEF Packets
<1>2. Len(input) \in Nat /\ Len(inHand) \in Nat
  BY LenProperties DEF Packets
<1> QED BY <1>1, <1>2

LEMMA PacketsInvariance ==
    ASSUME DataOK, InHandInv, [Next]_vars
    PROVE  /\ arrived' \in 0..MaxPackets
           /\ source' \in Packets /\ inHand' \in Packets /\ input' \in Packets
           /\ delivered' \in 0..Len(input')
<1> DEFINE Goal == /\ arrived' \in 0..MaxPackets
                   /\ source' \in Packets /\ inHand' \in Packets /\ input' \in Packets
                   /\ delivered' \in 0..Len(input')
<1>0. /\ MaxPackets \in Nat /\ arrived \in 0..MaxPackets
      /\ source \in Packets /\ inHand \in Packets /\ input \in Packets
      /\ delivered \in 0..Len(input) /\ <<>> \in Packets
      /\ Len(input) \in Nat
  BY SplitAssumption, EmptySeq, LenProperties DEF DataOK, Packets
<1> HIDE DEF Packets
<1>1. CASE Arrive
  <2>1. Append(source, arrived + 1) \in Packets
    BY <1>0, <1>1 DEF Arrive, Packets
  <2> QED BY <1>0, <1>1, <2>1 DEF Arrive, readerVars, inVars
<1>2. CASE RouterEnds \/ Elapse \/ WaitNone \/ UNCHANGED vars
  BY <1>0, <1>2
  DEF RouterEnds, Elapse, WaitNone, netVars, readerVars, inVars, vars
<1>3. CASE RecvKcp \/ WaitTick \/ Again \/ CancelRecv \/ PollRead \/ PollLock
  BY <1>0, <1>3
  DEF RecvKcp, WaitTick, Again, CancelRecv, PollRead, PollLock, netVars, inVars
<1>4. CASE WaitData \/ PollSocket
  BY <1>0, <1>4, TakeFirst DEF WaitData, PollSocket, inVars
<1>5. CASE TryRecv \/ PollTryRecv
  BY <1>0, <1>5 DEF TryRecv, PollTryRecv, Take, netVars
<1>6. CASE Feed
  BY <1>0, <1>6, InputGrows DEF Feed, netVars
<1>7. CASE PollFeed
  <2>1. Len(inHand) = 1
    BY <1>7 DEF PollFeed, InHandInv
  <2> QED BY <1>0, <1>7, <2>1, InputGrows DEF PollFeed, Take, netVars
<1>8. ASSUME NEW op \in WriterCalls, WriterLocks(op) \/ WriterPolls(op) PROVE Goal
  BY <1>0, <1>8 DEF WriterLocks, WriterPolls, netVars, readerVars, inVars
<1>9. CASE WriterActs
  BY <1>0, <1>9 DEF WriterActs, netVars, readerVars, inVars
<1> QED
  BY <1>1, <1>2, <1>3, <1>4, <1>5, <1>6, <1>7, <1>8, <1>9 DEF Next, ReaderStep, PollStep

LEMMA SendsInvariance ==
    ASSUME DataOK, RequestInv, CallsOK, [Next]_vars
    PROVE  /\ queued' \in 0..MaxSends /\ sends' \in 0..MaxSends
           /\ RequestInv'
<1> DEFINE Goal == /\ queued' \in 0..MaxSends /\ sends' \in 0..MaxSends
                   /\ RequestInv'
<1>0. MaxSends \in Nat /\ queued \in 0..MaxSends /\ sends \in 0..MaxSends
  BY SplitAssumption DEF DataOK
<1> USE DEF RequestInv
<1>1. CASE Arrive \/ RouterEnds \/ Elapse \/ WaitNone \/ UNCHANGED vars
  BY <1>0, <1>1 DEF Arrive, RouterEnds, Elapse, WaitNone, writerVars, outVars, vars
<1>2. CASE RecvKcp \/ WaitData \/ WaitTick \/ Again \/ CancelRecv \/ TryRecv
  BY <1>0, <1>2
  DEF RecvKcp, WaitData, WaitTick, Again, CancelRecv, TryRecv, writerVars, outVars
<1>3. CASE PollRead \/ PollSocket \/ PollLock
  BY <1>0, <1>3 DEF PollRead, PollSocket, PollLock, writerVars, outVars
<1>4. CASE Feed \/ PollTryRecv \/ PollFeed
  BY <1>0, <1>4 DEF Feed, Drive, PollTryRecv, PollFeed, Update, writerVars, outVars
<1>5. ASSUME NEW op \in WriterCalls, WriterLocks(op) \/ WriterPolls(op) PROVE Goal
  BY <1>0, <1>5 DEF WriterLocks, WriterPolls, outVars
<1>6. CASE WriterActs
  BY <1>0, <1>6 DEF WriterActs, Update, outVars
<1> QED
  BY <1>1, <1>2, <1>3, <1>4, <1>5, <1>6 DEF Next, ReaderStep, PollStep

\* The initial state and every step, put together.
LEMMA Initially == Init => IInv
<1> SUFFICES ASSUME Init PROVE IInv
  OBVIOUS
<1>1. <<>> \in Seq(1..MaxPackets) /\ Len(<<>>) = 0
  BY EmptySeq
<1>2. DataOK
  BY <1>1, SplitAssumption DEF Init, DataOK
<1>3. LockOK
  BY Queues DEF Init, LockOK
<1>4. CallsOK
  BY DEF Init, CallsOK
<1>5. InHandInv /\ RequestInv /\ LockedInv
  BY <1>1 DEF Init, InHandInv, RequestInv, LockedInv
<1> QED BY <1>2, <1>3, <1>4, <1>5, TypeParts DEF IInv

LEMMA Inductive == IInv /\ [Next]_vars => IInv'
<1> SUFFICES ASSUME IInv, [Next]_vars PROVE IInv'
  OBVIOUS
<1>1. LockOK /\ DataOK /\ CallsOK /\ InHandInv /\ RequestInv /\ LockedInv
  BY TypeParts DEF IInv
<1>2. LockOK' /\ LockedInv'
  BY <1>1, LockInvariance
<1>3. CallsOK' /\ InHandInv'
  BY <1>1, CallsInvariance, InHandInvariance
<1>4. DataOK' /\ RequestInv'
  BY <1>1, PacketsInvariance, SendsInvariance DEF DataOK, Packets
<1>5. TypeOK'
  BY <1>2, <1>3, <1>4 DEF TypeOK, CallsOK
<1> QED BY <1>2, <1>3, <1>4, <1>5 DEF IInv

-----------------------------------------------------------------------------
(* The order of the packets *)

LEMMA AppendAfter ==
    ASSUME NEW S, NEW a \in Seq(S), NEW b \in Seq(S), NEW c \in Seq(S), NEW x \in S
    PROVE  a \o b \o Append(c, x) = Append(a \o b \o c, x)
<1> DEFINE ab == a \o b
<1>1. ab \in Seq(S) /\ ab \o c \in Seq(S) /\ <<x>> \in Seq(S)
  BY ConcatProperties
<1>2. Append(c, x) = c \o <<x>> /\ Append(ab \o c, x) = (ab \o c) \o <<x>>
  BY <1>1, AppendIsConcat
<1> HIDE DEF ab
<1>3. (ab \o c) \o <<x>> = ab \o (c \o <<x>>)
  <2> DEFINE e == <<x>>
  <2>1. e \in Seq(S)
    BY <1>1
  <2> HIDE DEF e
  <2>2. (ab \o c) \o e = ab \o (c \o e)
    BY <1>1, <2>1, ConcatAssociative, SMTT(20)
  <2> QED BY <2>2, Zenon DEF e
<1> QED BY <1>2, <1>3 DEF ab

LEMMA HeadThenTail ==
    ASSUME NEW S, NEW s \in Seq(S), s # <<>>
    PROVE  <<Head(s)>> \o Tail(s) = s
<1>1. /\ Head(s) \in S /\ Head(s) = s[1]
      /\ Tail(s) \in Seq(S) /\ Len(Tail(s)) = Len(s) - 1
      /\ \A i \in 1..Len(Tail(s)) : Tail(s)[i] = s[i + 1]
  BY HeadTailProperties
<1>2. <<Head(s)>> \in Seq(S) /\ Len(<<Head(s)>>) = 1 /\ <<Head(s)>>[1] = s[1]
  BY <1>1
<1> DEFINE h == <<Head(s)>>
           t == Tail(s)
<1> HIDE DEF h, t
<1>3. /\ h \o t \in Seq(S) /\ Len(h \o t) = Len(h) + Len(t)
      /\ \A i \in 1..Len(h) + Len(t) : (h \o t)[i] = IF i <= Len(h) THEN h[i] ELSE t[i - Len(h)]
  BY <1>1, <1>2, ConcatProperties DEF h, t
<1>4. Len(s) \in Nat /\ Len(h) = 1 /\ Len(t) = Len(s) - 1
  BY <1>1, <1>2, LenProperties DEF h, t
<1>5. \A i \in 1..Len(s) : (h \o t)[i] = s[i]
  BY <1>1, <1>2, <1>3, <1>4 DEF h, t
<1>6. h \o t = s
  <2> DEFINE ht == h \o t
  <2>1. ht \in Seq(S) /\ Len(ht) = Len(s) /\ \A i \in 1..Len(ht) : ht[i] = s[i]
    BY <1>3, <1>4, <1>5
  <2> HIDE DEF ht
  <2> QED BY <2>1, SeqEqual DEF ht
<1> QED BY <1>6 DEF h, t

LEMMA CountOn ==
    ASSUME NEW n \in Nat, NEW m \in Nat, n < m
    PROVE  Append([i \in 1..n |-> i], n + 1) = [i \in 1..(n + 1) |-> i]
<1> DEFINE a == [i \in 1..n |-> i]
           b == [i \in 1..(n + 1) |-> i]
<1>1. a \in Seq(1..m) /\ b \in Seq(1..m) /\ Len(a) = n /\ Len(b) = n + 1
  OBVIOUS
<1>2. /\ \A i \in 1..n : a[i] = i
      /\ \A i \in 1..(n + 1) : b[i] = i
  OBVIOUS
<1> HIDE DEF a, b
<1>3. /\ Append(a, n + 1) \in Seq(1..m)
      /\ Len(Append(a, n + 1)) = n + 1
      /\ \A i \in 1..n : Append(a, n + 1)[i] = a[i]
      /\ Append(a, n + 1)[n + 1] = n + 1
  <2>1. n + 1 \in 1..m
    OBVIOUS
  <2> QED BY <1>1, <2>1, AppendProperties
<1>4. Append(a, n + 1) = b
  <2>1. \A i \in 1..(n + 1) : Append(a, n + 1)[i] = b[i]
    BY <1>2, <1>3
  <2> QED BY <1>1, <1>3, <2>1, SeqEqual
<1> QED BY <1>4 DEF a, b

LEMMA TakenInitially == Init => TakenAreInput
<1>1. <<>> \o <<>> \o <<>> = [i \in 1..0 |-> i]
  OBVIOUS
<1> QED BY <1>1 DEF Init, TakenAreInput

\* A packet moves from the channel to the hand and from the hand to the engine,
\* and never past another.
LEMMA TakenInvariance ==
    ASSUME IInv, TakenAreInput, [Next]_vars
    PROVE  TakenAreInput'
<1> SUFFICES ASSUME use'.reading = "recv_kcp", ~use'.cancelling
             PROVE  input' \o inHand' \o source' = [i \in 1..arrived' |-> i]
  BY DEF TakenAreInput
<1> DEFINE Goal == input' \o inHand' \o source' = [i \in 1..arrived' |-> i]
<1>0. /\ use' = use /\ use.reading = "recv_kcp" /\ ~use.cancelling
      /\ reader \notin {"poll_trying", "poll_io", "poll_locking", "poll_feeding", "polled"}
  BY DEF Next, ReaderStep, PollStep, Arrive, RouterEnds, Elapse, RecvKcp, TryRecv, WaitData,
         WaitTick, WaitNone, Feed, Again, CancelRecv, PollRead, PollTryRecv, PollSocket,
         PollLock, PollFeed, WriterLocks, WriterPolls, WriterActs, vars, IInv, InHandInv
<1>1. /\ input \o inHand \o source = [i \in 1..arrived |-> i]
      /\ input \in Packets /\ inHand \in Packets /\ source \in Packets
      /\ MaxPackets \in Nat /\ arrived \in 0..MaxPackets
  BY <1>0, SplitAssumption DEF TakenAreInput, IInv, TypeOK, DataOK, Packets
<1>2. CASE Arrive
  <2>1. arrived \in Nat /\ arrived < MaxPackets /\ arrived + 1 \in 1..MaxPackets
    BY <1>1, <1>2 DEF Arrive
  <2>2. /\ input' = input /\ inHand' = inHand /\ arrived' = arrived + 1
        /\ source' = Append(source, arrived + 1)
    BY <1>2 DEF Arrive, inVars, readerVars
  <2>3. input \o inHand \o Append(source, arrived + 1)
            = Append(input \o inHand \o source, arrived + 1)
    <3>1. \A a, b, c \in Packets : \A x \in 1..MaxPackets :
              a \o b \o Append(c, x) = Append(a \o b \o c, x)
      BY AppendAfter, SMTT(20) DEF Packets
    <3>2. input \in Packets /\ inHand \in Packets /\ source \in Packets
      BY <1>1
    <3>3. arrived + 1 \in 1..MaxPackets
      BY <2>1
    <3> QED BY <3>1, <3>2, <3>3, Zenon
  <2> QED BY <1>1, <2>1, <2>2, <2>3, CountOn
<1>3. CASE WaitData
  <2>1. /\ input' = input /\ arrived' = arrived /\ inHand' = <<Head(source)>>
        /\ source # <<>> /\ source' = Tail(source) /\ inHand = <<>>
    BY <1>3 DEF WaitData, inVars, IInv, InHandInv
  <2>2. <<Head(source)>> \in Packets /\ Tail(source) \in Packets
    BY <1>1, <2>1, TakeFirst
  <2>3. input \o <<Head(source)>> \o Tail(source) = input \o (<<Head(source)>> \o Tail(source))
    <3> DEFINE h == <<Head(source)>>
               t == Tail(source)
    <3>1. h \in Packets /\ t \in Packets /\ input \in Packets
      BY <1>1, <2>2
    <3> HIDE DEF h, t
    <3>2. (input \o h) \o t = input \o (h \o t)
      BY <3>1, ConcatAssociative, SMTT(20) DEF Packets
    <3> QED BY <3>2 DEF h, t
  <2>4. <<Head(source)>> \o Tail(source) = source /\ input \o <<>> = input
    BY <1>1, <2>1, HeadThenTail, ConcatEmptySeq DEF Packets
  <2> QED BY <1>1, <2>1, <2>3, <2>4
<1>4. CASE Feed
  <2>1. /\ input' = input \o inHand /\ inHand' = <<>> /\ source' = source /\ arrived' = arrived
    BY <1>4 DEF Feed, netVars
  <2>2. (input \o inHand) \o <<>> = input \o inHand
    BY <1>1, InputGrows, ConcatEmptySeq DEF Packets
  <2> QED BY <1>1, <2>1, <2>2
<1>5. CASE UNCHANGED <<input, inHand, source, arrived>>
  BY <1>1, <1>5
<1>6. CASE RouterEnds \/ Elapse \/ RecvKcp \/ TryRecv \/ WaitTick \/ WaitNone \/ Again
           \/ UNCHANGED vars
  BY <1>5, <1>6
  DEF RouterEnds, Elapse, RecvKcp, TryRecv, WaitTick, WaitNone, Again, netVars, readerVars,
      inVars, vars
<1>7. ASSUME NEW op \in WriterCalls, WriterLocks(op) \/ WriterPolls(op) PROVE Goal
  BY <1>5, <1>7 DEF WriterLocks, WriterPolls, netVars, readerVars, inVars
<1>8. CASE WriterActs
  BY <1>5, <1>8 DEF WriterActs, netVars, readerVars, inVars
<1>9. ~CancelRecv /\ ~PollRead /\ ~PollStep
  BY <1>0 DEF CancelRecv, PollRead, PollStep, PollTryRecv, PollSocket, PollLock, PollFeed
<1> QED
  BY <1>2, <1>3, <1>4, <1>6, <1>7, <1>8, <1>9 DEF Next, ReaderStep

-----------------------------------------------------------------------------
(* The theorems *)

\* The invariant holds in every reachable state.
THEOREM SplitInvariance == Spec => []IInv
<1> QED BY Initially, Inductive, PTL DEF Spec

\* The mutex is held by one half, only the other can wait for it, and no call
\* leaves the lock or its place in the queue behind, wherever it is cancelled;
\* every variable keeps its type.
THEOREM SplitTypeCorrect == Spec => []TypeOK
<1> QED BY SplitInvariance, PTL DEF IInv

\* However the halves interleave, the packets that recv_kcp takes without the
\* lock reach the engine once and in order.
THEOREM TakenPacketsAreInput == Spec => []TakenAreInput
<1> QED BY SplitInvariance, TakenInitially, TakenInvariance, PTL DEF Spec

\* Once either half has closed the session it stays closed, and neither half
\* takes or accepts a message, whatever step of a call it was in.
THEOREM ClosedForBothHalves == Spec => NothingAfterClose
<1>1. [Next]_vars => [closed => closed' /\ delivered' = delivered /\ sends' = sends]_vars
  <2> SUFFICES ASSUME Next, closed
               PROVE  closed' /\ delivered' = delivered /\ sends' = sends
    BY DEF vars
  <2>1. CASE Arrive \/ RouterEnds \/ Elapse \/ RecvKcp \/ WaitData \/ WaitTick \/ WaitNone
             \/ Again \/ CancelRecv \/ PollRead \/ PollSocket \/ PollLock
    BY <2>1
    DEF Arrive, RouterEnds, Elapse, RecvKcp, WaitData, WaitTick, WaitNone, Again, CancelRecv,
        PollRead, PollSocket, PollLock, inVars
  <2>2. CASE TryRecv \/ Feed \/ PollTryRecv \/ PollFeed
    BY <2>2 DEF TryRecv, RecvRefused, Feed, PollTryRecv, PollFeed
  <2>3. CASE (\E op \in WriterCalls : WriterLocks(op) \/ WriterPolls(op)) \/ WriterActs
    BY <2>3 DEF WriterLocks, WriterPolls, WriterActs, SendRefused, inVars
  <2> QED BY <2>1, <2>2, <2>3 DEF Next, ReaderStep, PollStep
<1> QED BY <1>1, PTL DEF Spec, NothingAfterClose
=============================================================================
