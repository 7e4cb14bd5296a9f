------------------------------- MODULE KcpArq -------------------------------
(***************************************************************************)
(* The ARQ engine of src/kcp/ikcp.c: two control blocks of one             *)
(* conversation, joined by a UDP network that loses, duplicates and        *)
(* reorders datagrams.  Each peer sends and receives; every variable that  *)
(* is a field of struct IKCPCB is a function of the peer.                  *)
(*                                                                         *)
(* What is abstracted:                                                     *)
(*  - A datagram carries one segment.  A real one carries several, and     *)
(*    ikcp_input handles them one after the other; between two of them     *)
(*    only the congestion state could tell the difference.                 *)
(*  - Time.  Which segments of snd_buf are transmitted again, and whether  *)
(*    a probe timer has expired, is any choice: a segment that is not due  *)
(*    and a segment that is lost look the same to the network.             *)
(*  - The congestion window, when nocwnd is 0, is any window up to the     *)
(*    one that flow control gives.                                         *)
(*  - Sequence numbers are naturals.  Those of one conversation that meet  *)
(*    in a comparison differ by less than 2^31, unless the network holds a *)
(*    datagram back for as many segments; up to there _itimediff agrees.   *)
(*  - ikcp_update was called once (updated is 1); KcpSession looks at what *)
(*    happens before.                                                      *)
(***************************************************************************)
EXTENDS KcpSegments, FiniteSets, Functions

CONSTANTS SndWnd,       \* snd_wnd of each peer
          RcvWnd,       \* rcv_wnd of each peer
          WndMod,       \* the header field wnd counts modulo this (2^16)
          NoCwnd,       \* nocwnd: no congestion window
          Duplicating,  \* can the network duplicate a datagram?
          MaxSent,      \* bound: segments each peer sends in a behaviour
          MaxNet        \* bound: datagrams the network holds for a peer

\* ikcp_wndsize keeps rcv_wnd at or above the fragment limit.
ASSUME ArqAssumption ==
    /\ WndRcv \in Nat
    /\ SndWnd \in [Peer -> Nat]
    /\ RcvWnd \in [Peer -> Nat]
    /\ \A p \in Peer : RcvWnd[p] >= WndRcv
    /\ WndMod \in Nat \ {0}
    /\ NoCwnd \in BOOLEAN
    /\ Duplicating \in BOOLEAN
    /\ MaxSent \in [Peer -> Nat]
    /\ MaxNet \in [Peer -> Nat]

VARIABLES
    snd_queue,    \* segments accepted by ikcp_send that have no sn yet
    snd_buf,      \* sn |-> segment: sent and not acknowledged
    snd_una,      \* the first unacknowledged sn
    snd_nxt,      \* the next sn to assign
    rmt_wnd,      \* the window the other peer last told
    probe_wait,   \* is the zero-window probe timer armed?
    rcv_queue,    \* segments in order, for ikcp_recv
    rcv_buf,      \* sn |-> segment: out of order, or waiting for rcv_queue
    rcv_nxt,      \* the next sn for rcv_queue
    acklist,      \* sn's to acknowledge at the next flush
    ask_tell,     \* is IKCP_ASK_TELL set in probe?
    net,          \* net[p]: datagrams on their way to p
    sent,         \* history: segments of the messages p has sent
    delivered     \* history: segments of the messages p has received

sndVars == <<snd_queue, snd_buf, snd_una, snd_nxt, rmt_wnd, probe_wait>>
rcvVars == <<rcv_queue, rcv_buf, rcv_nxt, acklist, ask_tell>>
vars == <<sndVars, rcvVars, net, sent, delivered>>

-----------------------------------------------------------------------------
(* Datagrams *)

Cmd == {"ACK", "WASK", "WINS"}
Control == [cmd : Cmd, sn : Nat, wnd : Nat, una : Nat]
Push == [cmd : {"PUSH"}, sn : Nat, seg : Segment, wnd : Nat, una : Nat]

\* ikcp_wnd_unused: the room left in rcv_queue.
WndUnused(p) == IF Len(rcv_queue[p]) < RcvWnd[p]
                THEN RcvWnd[p] - Len(rcv_queue[p]) ELSE 0

\* What ikcp_encode_seg leaves of it.
WndField(p) == WndUnused(p) % WndMod

ControlDatagram(p, cmd, sn) ==
    [cmd |-> cmd, sn |-> sn, wnd |-> WndField(p), una |-> rcv_nxt[p]]

PushDatagram(p, sn, seg) ==
    [cmd |-> "PUSH", sn |-> sn, seg |-> seg,
     wnd |-> WndField(p), una |-> rcv_nxt[p]]

-----------------------------------------------------------------------------
(* Moving segments between queues and buffers *)

Empty == [sn \in {} |-> 0]

\* ikcp_shrink_buf: una is the first sn of buf, or nxt when buf is empty.
IsFirstSn(una, buf, nxt) ==
    /\ una \in DOMAIN buf \cup {nxt}
    /\ \A sn \in DOMAIN buf : una <= sn

\* Mutant: the last place of the receive window is never used.
Movable_OnePlaceShort(p, queue, buf, nxt, k) ==
    /\ \A i \in 0..(k - 1) : nxt + i \in DOMAIN buf
    /\ k = 0 \/ Len(queue) + k < RcvWnd[p]
    /\ nxt + k \notin DOMAIN buf \/ Len(queue) + k >= RcvWnd[p] - 1

\* Exactly k segments go from buf to the tail of queue: in sequence from nxt,
\* as long as there is one and the receive window has room.
Movable(p, queue, buf, nxt, k) ==
    /\ \A i \in 0..(k - 1) : nxt + i \in DOMAIN buf
    /\ k = 0 \/ Len(queue) + k <= RcvWnd[p]
    /\ nxt + k \notin DOMAIN buf \/ Len(queue) + k >= RcvWnd[p]

Take(buf, nxt, k) == [i \in 1..k |-> buf[nxt + i - 1]]

\* Mutant: whatever comes first in buf is moved, in sequence or not.
MoveToQueue_SkipsGap(p, queue, buf) ==
    \E k \in 0..1 :
        \E first \in {sn \in DOMAIN buf \cup {rcv_nxt[p]} : IsFirstSn(sn, buf, rcv_nxt[p])} :
            /\ k = 1 <=> first \in DOMAIN buf /\ Len(queue) < RcvWnd[p]
            /\ rcv_queue' = [rcv_queue EXCEPT ![p] = queue \o Take(buf, first, k)]
            /\ rcv_buf' = [rcv_buf EXCEPT
                  ![p] = Restrict(buf, DOMAIN buf \ (first..(first + k - 1)))]
            /\ rcv_nxt' = [rcv_nxt EXCEPT ![p] = IF k = 1 THEN first + 1 ELSE @]

\* The loop at the end of ikcp_recv and of ikcp_parse_data.
MoveToQueue(p, queue, buf) ==
    \E k \in 0..Cardinality(DOMAIN buf) :
        /\ Movable(p, queue, buf, rcv_nxt[p], k)
        /\ rcv_queue' = [rcv_queue EXCEPT ![p] = queue \o Take(buf, rcv_nxt[p], k)]
        /\ rcv_buf' = [rcv_buf EXCEPT
              ![p] = Restrict(buf, DOMAIN buf \ (rcv_nxt[p]..(rcv_nxt[p] + k - 1)))]
        /\ rcv_nxt' = [rcv_nxt EXCEPT ![p] = @ + k]

-----------------------------------------------------------------------------
Init ==
    /\ snd_queue = [p \in Peer |-> <<>>]
    /\ snd_buf = [p \in Peer |-> Empty]
    /\ snd_una = [p \in Peer |-> 0]
    /\ snd_nxt = [p \in Peer |-> 0]
    /\ rmt_wnd = [p \in Peer |-> WndRcv]
    /\ probe_wait = [p \in Peer |-> FALSE]
    /\ rcv_queue = [p \in Peer |-> <<>>]
    /\ rcv_buf = [p \in Peer |-> Empty]
    /\ rcv_nxt = [p \in Peer |-> 0]
    /\ acklist = [p \in Peer |-> {}]
    /\ ask_tell = [p \in Peer |-> FALSE]
    /\ net = [p \in Peer |-> {}]
    /\ sent = [p \in Peer |-> <<>>]
    /\ delivered = [p \in Peer |-> <<>>]

(***************************************************************************)
(* ikcp_send in message mode: cut the message into n fragments.  A message *)
(* of WndRcv or more fragments is refused with -2 and changes nothing.     *)
(***************************************************************************)
Send(p) ==
    \E d \in Data, n \in 1..MaxSent[p] :
        /\ Len(sent[p]) + n <= MaxSent[p]
        /\ SendAccepts(n)
        /\ snd_queue' = [snd_queue EXCEPT ![p] = @ \o Fragments(d, n)]
        /\ sent' = [sent EXCEPT ![p] = @ \o Fragments(d, n)]
        /\ UNCHANGED <<snd_buf, snd_una, snd_nxt, rmt_wnd, probe_wait,
                       rcvVars, net, delivered>>

(***************************************************************************)
(* ikcp_flush: acknowledge, probe a closed window, answer a probe, give a  *)
(* sn to as many queued segments as the window w allows, and transmit.     *)
(* The network carries some of the datagrams; the others are not due or    *)
(* are lost.                                                               *)
(***************************************************************************)
Lesser(a, b) == IF a < b THEN a ELSE b

Window(p) == LET w == Lesser(SndWnd[p], rmt_wnd[p])
             IN  IF NoCwnd THEN {w} ELSE 0..w

\* Mutant: segments in flight are not counted against the window.
Fit_IgnoresInFlight(p, w) == Lesser(Len(snd_queue[p]), w)

\* How many segments of snd_queue fit in window w.
Fit(p, w) == LET room == snd_una[p] + w - snd_nxt[p]
             IN  IF room <= 0 THEN 0 ELSE Lesser(Len(snd_queue[p]), room)

\* snd_buf with the first k segments of snd_queue.
Numbered(p, k) ==
    [sn \in DOMAIN snd_buf[p] \cup (snd_nxt[p]..(snd_nxt[p] + k - 1)) |->
        IF sn \in DOMAIN snd_buf[p] THEN snd_buf[p][sn]
        ELSE snd_queue[p][sn - snd_nxt[p] + 1]]

Acks(p) == {ControlDatagram(p, "ACK", sn) : sn \in acklist[p]}

\* Mutant: a closed window is not probed.
Probes_NeverAsks(p) ==
    {ControlDatagram(p, cmd, 0) : cmd \in {c \in {"WINS"} : ask_tell[p]}}

\* The window probe goes out when its timer, armed by an earlier flush, expires.
Probes(p) ==
    {ControlDatagram(p, cmd, 0) : cmd \in
        {c \in {"WASK", "WINS"} :
            \/ c = "WASK" /\ rmt_wnd[p] = 0 /\ probe_wait[p]
            \/ c = "WINS" /\ ask_tell[p]}}

Transmissions(p, buf) ==
    Acks(p) \cup Probes(p) \cup {PushDatagram(p, sn, buf[sn]) : sn \in DOMAIN buf}

FlushWith(p, k, carried) ==
    /\ carried \subseteq Transmissions(p, Numbered(p, k))
    /\ Cardinality(net[Other(p)] \cup carried) <= MaxNet[Other(p)]
    /\ net' = [net EXCEPT ![Other(p)] = @ \cup carried]
    /\ acklist' = [acklist EXCEPT ![p] = {}]
    /\ ask_tell' = [ask_tell EXCEPT ![p] = FALSE]
    /\ probe_wait' = [probe_wait EXCEPT ![p] = (rmt_wnd[p] = 0)]
    /\ snd_queue' = [snd_queue EXCEPT ![p] = SubSeq(@, k + 1, Len(@))]
    /\ snd_buf' = [snd_buf EXCEPT ![p] = Numbered(p, k)]
    /\ snd_nxt' = [snd_nxt EXCEPT ![p] = @ + k]
    /\ UNCHANGED <<snd_una, rmt_wnd, rcv_queue, rcv_buf, rcv_nxt, sent, delivered>>

Flush(p) ==
    \E w \in Window(p) :
        \E carried \in SUBSET Transmissions(p, Numbered(p, Fit(p, w))) :
            FlushWith(p, Fit(p, w), carried)

(***************************************************************************)
(* ikcp_input of one segment m: every command updates the remote window    *)
(* and acknowledges up to una.                                             *)
(***************************************************************************)
Consume(p, m) == \/ net' = [net EXCEPT ![p] = @ \ {m}]
                 \/ Duplicating /\ UNCHANGED net

\* Mutant: una itself is taken as acknowledged.
Unacked_Inclusive(p, m) ==
    {sn \in DOMAIN snd_buf[p] : sn > m.una /\ ~(m.cmd = "ACK" /\ m.sn = sn)}

\* ikcp_parse_una, and for an ACK ikcp_parse_ack; then ikcp_shrink_buf.
Unacked(p, m) ==
    {sn \in DOMAIN snd_buf[p] : sn >= m.una /\ ~(m.cmd = "ACK" /\ m.sn = sn)}

\* Mutant: snd_una is copied from the header.
Acknowledge_TrustsHeader(p, m) ==
    /\ rmt_wnd' = [rmt_wnd EXCEPT ![p] = m.wnd]
    /\ snd_buf' = [snd_buf EXCEPT ![p] = Restrict(@, Unacked(p, m))]
    /\ snd_una' = [snd_una EXCEPT ![p] = m.una]
    /\ UNCHANGED <<snd_queue, snd_nxt, probe_wait>>

Acknowledge(p, m) ==
    LET buf == Restrict(snd_buf[p], Unacked(p, m))
    IN  /\ rmt_wnd' = [rmt_wnd EXCEPT ![p] = m.wnd]
        /\ snd_buf' = [snd_buf EXCEPT ![p] = buf]
        /\ \E una \in DOMAIN buf \cup {snd_nxt[p]} :
              /\ IsFirstSn(una, buf, snd_nxt[p])
              /\ snd_una' = [snd_una EXCEPT ![p] = una]
        /\ UNCHANGED <<snd_queue, snd_nxt, probe_wait>>

InputAck(p, m) ==
    /\ m.cmd = "ACK"
    /\ Acknowledge(p, m)
    /\ UNCHANGED rcvVars

InputWask(p, m) ==
    /\ m.cmd = "WASK"
    /\ Acknowledge(p, m)
    /\ ask_tell' = [ask_tell EXCEPT ![p] = TRUE]
    /\ UNCHANGED <<rcv_queue, rcv_buf, rcv_nxt, acklist>>

InputWins(p, m) ==
    /\ m.cmd = "WINS"
    /\ Acknowledge(p, m)
    /\ UNCHANGED rcvVars

\* Mutant: a segment that comes again is not acknowledged again.
ToAck_OnlyNew(p, sn) == sn \in rcv_nxt[p]..(rcv_nxt[p] + RcvWnd[p] - 1)

\* The sn's that are acknowledged, and those of them that are kept.
ToAck(p, sn) == sn < rcv_nxt[p] + RcvWnd[p]
InRcvWindow(p, sn) == sn \in rcv_nxt[p]..(rcv_nxt[p] + RcvWnd[p] - 1)

\* A repeated sn leaves the segment that is there.
Insert(buf, sn, seg) == [x \in DOMAIN buf \cup {sn} |->
                            IF x \in DOMAIN buf THEN buf[x] ELSE seg]

InputPush(p, m) ==
    /\ m.cmd = "PUSH"
    /\ Acknowledge(p, m)
    /\ acklist' = [acklist EXCEPT ![p] = IF ToAck(p, m.sn) THEN @ \cup {m.sn} ELSE @]
    /\ IF InRcvWindow(p, m.sn)
       THEN MoveToQueue(p, rcv_queue[p], Insert(rcv_buf[p], m.sn, m.seg))
       ELSE UNCHANGED <<rcv_queue, rcv_buf, rcv_nxt>>
    /\ UNCHANGED ask_tell

Input(p, m) ==
    /\ Consume(p, m)
    /\ InputAck(p, m) \/ InputWask(p, m) \/ InputWins(p, m) \/ InputPush(p, m)
    /\ UNCHANGED <<sent, delivered>>

(***************************************************************************)
(* ikcp_recv: hand over the first message of rcv_queue when all of its     *)
(* fragments are there, refill rcv_queue, and if it was full announce the  *)
(* window at the next flush.                                               *)
(***************************************************************************)

\* Mutant: the fragments that follow the first are not waited for.
PeekReady_AnyHead(queue) == queue # <<>>

\* ikcp_peeksize is not negative.
PeekReady(queue) ==
    /\ queue # <<>>
    /\ queue[1].frg = 0 \/ Len(queue) >= queue[1].frg + 1

\* The merge loop stops after the last fragment, or at the end of the queue.
MergeEnds(queue, k) ==
    \/ EndsFirstMessage(queue, k)
    \/ k = Len(queue) /\ \A j \in 1..k : queue[j].frg # 0

Recv(p) ==
    /\ PeekReady(rcv_queue[p])
    /\ \E k \in 1..Len(rcv_queue[p]) :
        LET rest == SubSeq(rcv_queue[p], k + 1, Len(rcv_queue[p]))
        IN  /\ MergeEnds(rcv_queue[p], k)
            /\ delivered' = [delivered EXCEPT ![p] = @ \o SubSeq(rcv_queue[p], 1, k)]
            /\ MoveToQueue(p, rest, rcv_buf[p])
    /\ ask_tell' = [ask_tell EXCEPT ![p] =
          @ \/ (Len(rcv_queue[p]) >= RcvWnd[p] /\ Len(rcv_queue'[p]) < RcvWnd[p])]
    /\ UNCHANGED <<sndVars, acklist, net, sent>>

Next == \E p \in Peer :
            \/ Send(p)
            \/ Flush(p)
            \/ \E m \in net[p] : Input(p, m)
            \/ Recv(p)

Spec == Init /\ [][Next]_vars

-----------------------------------------------------------------------------
(* Fairness *)

\* The datagrams that p's engine needs: the next segment in order, news that
\* something of snd_buf has arrived, a probe, a window that opens again.
Needs(p, m) ==
    <<m.cmd = "PUSH" /\ m.sn = rcv_nxt[p],
      m.una > snd_una[p] \/ (m.cmd = "ACK" /\ m.sn \in DOMAIN snd_buf[p]),
      m.cmd = "WASK",
      rmt_wnd[p] = 0 /\ m.wnd > 0>>

\* A flush of p of which the network carries one datagram of kind i.
FlushNeeded(p, i) ==
    \E w \in Window(p) :
        \E m \in Transmissions(p, Numbered(p, Fit(p, w))) :
            Needs(Other(p), m)[i] /\ FlushWith(p, Fit(p, w), {m})

\* p handles a datagram of kind i.
InputNeeded(p, i) == \E m \in net[p] : Needs(p, m)[i] /\ Input(p, m)

(***************************************************************************)
(* Fairness for behaviours in which only the client sends.  The server's   *)
(* application keeps calling recv; both peers drive ikcp_update, so that   *)
(* flushes and timers go on; a datagram that arrives is read from the      *)
(* socket; and what is needed and transmitted again and again gets         *)
(* through.  Nobody has to send.                                           *)
(***************************************************************************)
Fairness ==
    /\ \A p \in Peer : WF_vars(Flush(p)) /\ WF_vars(\E m \in net[p] : Input(p, m))
    /\ WF_vars(InputNeeded("server", 1)) /\ WF_vars(InputNeeded("server", 3))
    /\ WF_vars(InputNeeded("client", 2)) /\ WF_vars(InputNeeded("client", 4))
    /\ WF_vars(Recv("server"))
    /\ SF_vars(FlushNeeded("client", 1)) /\ SF_vars(FlushNeeded("client", 3))
    /\ SF_vars(FlushNeeded("server", 2)) /\ SF_vars(FlushNeeded("server", 4))

FairSpec == Spec /\ Fairness

-----------------------------------------------------------------------------
(* Properties *)

\* Everything in the control blocks and on the network has its type.
TypeOK ==
    /\ snd_queue \in [Peer -> Seq(Segment)]
    /\ \A p \in Peer : /\ DOMAIN snd_buf[p] \subseteq Nat
                       /\ snd_buf[p] \in [DOMAIN snd_buf[p] -> Segment]
                       /\ DOMAIN rcv_buf[p] \subseteq Nat
                       /\ rcv_buf[p] \in [DOMAIN rcv_buf[p] -> Segment]
    /\ DOMAIN snd_buf = Peer
    /\ DOMAIN rcv_buf = Peer
    /\ snd_una \in [Peer -> Nat]
    /\ snd_nxt \in [Peer -> Nat]
    /\ rmt_wnd \in [Peer -> Nat]
    /\ probe_wait \in [Peer -> BOOLEAN]
    /\ rcv_queue \in [Peer -> Seq(Segment)]
    /\ rcv_nxt \in [Peer -> Nat]
    /\ acklist \in [Peer -> SUBSET Nat]
    /\ ask_tell \in [Peer -> BOOLEAN]
    /\ net \in [Peer -> SUBSET (Control \cup Push)]
    /\ sent \in [Peer -> Seq(Segment)]
    /\ delivered \in [Peer -> Seq(Segment)]

\* What a peer has delivered and holds in rcv_queue is a prefix of what the
\* other has sent: no segment is lost, repeated, altered or out of order,
\* whatever the network did (ikcp_parse_data, ikcp_recv).
InOrder ==
    \A p \in Peer :
        LET got == delivered[p] \o rcv_queue[p]
        IN  /\ Len(got) <= Len(sent[Other(p)])
            /\ \A i \in 1..Len(got) : got[i] = sent[Other(p)][i]

\* A segment leaves snd_buf only once the other peer has it: an
\* acknowledgement (ikcp_parse_ack, ikcp_parse_una) never discards data that
\* would then be gone for ever.
Has(p, sn) == sn < rcv_nxt[p] \/ sn \in DOMAIN rcv_buf[p]

NothingLost ==
    \A p \in Peer : \A sn \in 0..(snd_nxt[p] - 1) :
        sn \in DOMAIN snd_buf[p] \/ Has(Other(p), sn)

\* A receive queue that is full can be read: its first message is complete.
\* Otherwise the window would stay closed for ever.  It rests on two limits in
\* two functions: ikcp_send refuses messages of WndRcv fragments or more and
\* ikcp_wndsize keeps rcv_wnd at WndRcv or above.
FullQueueReadable ==
    \A p \in Peer : /\ Len(rcv_queue[p]) >= RcvWnd[p]
                    /\ rcv_queue[p] # <<>>
                    => PeekReady(rcv_queue[p])

\* The next segment in order waits in rcv_buf only while rcv_queue is full:
\* both ikcp_parse_data and ikcp_recv move what can be moved.
NoneStranded ==
    \A p \in Peer :
        rcv_nxt[p] \in DOMAIN rcv_buf[p] => Len(rcv_queue[p]) >= RcvWnd[p]

\* What the two ends keep in memory stays within the windows, even when
\* acknowledgements with old windows arrive late.
WithinWindows ==
    \A p \in Peer :
        /\ snd_nxt[p] - snd_una[p] <= SndWnd[p]
        /\ DOMAIN snd_buf[p] \subseteq snd_una[p]..(snd_nxt[p] - 1)
        /\ Len(rcv_queue[p]) <= RcvWnd[p]
        /\ DOMAIN rcv_buf[p] \subseteq rcv_nxt[p]..(rcv_nxt[p] + RcvWnd[p] - 1)

\* No late datagram moves an acknowledgement point back (ikcp_shrink_buf,
\* ikcp_parse_data).
NeverBack ==
    \A p \in Peer : snd_una'[p] >= snd_una[p] /\ rcv_nxt'[p] >= rcv_nxt[p]

AckPointsAdvance == [][NeverBack]_vars

\* What a peer sends is acknowledged in the end, so that snd_buf empties and
\* retransmission stops, even if acknowledgements are lost: a segment that
\* comes again, below rcv_nxt, is acknowledged again.
EventuallyAcknowledged ==
    \A p \in Peer : snd_buf[p] # Empty ~> snd_buf[p] = Empty

\* The engine implements the reliable channel of KcpChannel.
Channel == INSTANCE KcpChannel WITH sent <- sent, delivered <- delivered

ChannelSpec == Channel!Spec
ChannelDelivers == Channel!EventualDelivery
=============================================================================
