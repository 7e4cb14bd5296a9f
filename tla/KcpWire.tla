------------------------------- MODULE KcpWire -------------------------------
(***************************************************************************)
(* The way of segments through bytes: Kcp::send cuts a message by the mtu, *)
(* ikcp_flush packs segments into datagrams, the output callback hands     *)
(* them to the KcpTransport (src/src/core/kcp.rs, src/src/tokio_rt/        *)
(* transport.rs, session.rs), and on the other side the receive buffer,    *)
(* process_incoming and ikcp_input take them apart again.                  *)
(*                                                                         *)
(* Everything here is about sizes, in bytes: a datagram is its segments    *)
(* and its length, whose tail may be missing.  Which segments are due is a *)
(* choice (KcpSender computes it), windows are open, sequence numbers are  *)
(* the places of the segments in queued.  "a" sends, "b" acknowledges.     *)
(***************************************************************************)
EXTENDS Integers, Sequences, FiniteSets, SequencesExt, FiniteSetsExt, KcpConfig

CONSTANTS Uses,      \* how the two peers are configured
          Overhead,  \* IKCP_OVERHEAD
          Lens,      \* lengths of the messages sent
          MaxSegs,   \* bound: segments sent
          MaxNet,    \* bound: datagrams under way
          MaxAcks    \* bound: ACKs that wait while segments go out

Peer == {"a", "b"}
Other(p) == IF p = "a" THEN "b" ELSE "a"

\* The mtu, what set_mtu is called with later, recv_buf_size, the bytes that
\* process_outgoing adds, and whether process_incoming rejects what was cut.
Use == [mtu : Nat, mtus : SUBSET Nat, recvBuf : Nat, added : Nat, sealed : BOOLEAN]

ASSUME WireAssumption ==
    /\ \A u \in Uses : u \in Use /\ ~MtuRefused(u.mtu)
    /\ Overhead \in Nat \ {0} /\ MtuRefused(Overhead)
    /\ Lens \subseteq Nat \ {0}
    /\ MaxSegs \in Nat \ {0} /\ {MaxNet, MaxAcks} \subseteq Nat

VARIABLES
    use,     \* how the two peers are configured
    mtu,     \* the mtu of a
    queued,  \* lengths of the segments of a: queued[sn]
    acked,   \* segments of a that b has acknowledged
    got,     \* what b has taken in
    acks,    \* acklist of b: ACKs that wait for the flush
    net      \* datagrams under way

vars == <<use, mtu, queued, acked, got, acks, net>>

Init ==
    /\ use \in Uses
    /\ mtu = use.mtu
    /\ queued = <<>> /\ acked = {}
    /\ got = {} /\ acks = <<>>
    /\ net = {}

-----------------------------------------------------------------------------
(* Sending *)

Mss == mtu - Overhead

\* ikcp_send in message mode: the segments of a message of n bytes.
Fragments(n) ==
    [i \in 1..((n + Mss - 1) \div Mss) |-> Min({Mss, n - (i - 1) * Mss})]

\* Kcp::send
Send(n) ==
    /\ Len(queued) + Len(Fragments(n)) <= MaxSegs
    /\ queued' = queued \o Fragments(n)
    /\ UNCHANGED <<use, mtu, acked, got, acks, net>>

\* Kcp::set_mtu
SetMtu(m) ==
    /\ m \in use.mtus
    /\ ~MtuRefused(m)
    /\ mtu' = m
    /\ UNCHANGED <<use, queued, acked, got, acks, net>>

\* What b has taken in without a gap.
RcvNxt == Max({n \in 0..Len(queued) : 1..n \subseteq {g.sn : g \in got}})

Push(sn) == [cmd |-> "push", sn |-> sn, len |-> queued[sn], una |-> 0]
Ack(sn) == [cmd |-> "ack", sn |-> sn, len |-> 0, una |-> RcvNxt]

\* The elements of s at some of its places, in order.
At(s, places) ==
    LET at[i \in 0..Len(s)] ==
            IF i = 0 THEN <<>>
            ELSE IF i \in places THEN Append(at[i - 1], s[i]) ELSE at[i - 1]
    IN  at[Len(s)]

\* Bytes of KCP in a datagram.
Size(segs) ==
    LET size[i \in 0..Len(segs)] == IF i = 0 THEN 0 ELSE size[i - 1] + (Overhead + segs[i].len)
    IN  size[Len(segs)]

\* Is there room for seg behind segs in the output buffer?
Fits(m, segs, seg) == Size(segs) + Overhead + seg.len <= m

\* The last datagram of packed is the output buffer: seg is written behind its
\* segments, or opens the next one when it does not fit any more.
Put(m, packed, seg) ==
    IF packed # <<>> /\ Fits(m, Last(packed), seg)
    THEN Append(Front(packed), Append(Last(packed), seg))
    ELSE Append(packed, <<seg>>)

PackInto(m, due) ==
    LET packed[i \in 0..Len(due)] == IF i = 0 THEN <<>> ELSE Put(m, packed[i - 1], due[i])
    IN  packed[Len(due)]

\* Mutant: what remains in the buffer is not put out.
Pack_NoRemain(m, due) == Front(PackInto(m, due))

\* The packing of ikcp_flush.
Pack(m, due) == PackInto(m, due)

\* process_outgoing and try_send of one datagram.
Datagram(p, segs) == [to |-> Other(p), ours |-> TRUE, segs |-> segs, size |-> Size(segs) + use.added]

\* try_send puts those of sent on the wire; for the others it returned WouldBlock or
\* ConnectionReset, taken for success, or an error, which the callback reports and
\* ikcp_flush ignores.
OnWire(p, out, sent) == {Datagram(p, out[i]) : i \in sent \cap DOMAIN out}

\* ikcp_flush packs what is due and puts it out.
Flush(p, due, sent) ==
    /\ due # <<>>
    /\ \E out \in {Pack(IF p = "a" THEN mtu ELSE use.mtu, due)} :
           net' = net \cup OnWire(p, out, sent)
    /\ Cardinality(net') <= MaxNet
    /\ UNCHANGED <<use, mtu, queued, acked, got>>

\* The segments of sns, in order.
DueData(sns) == At([sn \in DOMAIN queued |-> Push(sn)], sns)

\* a: the segments of sns are due.
FlushData(sns, sent) ==
    /\ Len(acks) <= MaxAcks
    /\ Flush("a", DueData(sns), sent)
    /\ UNCHANGED acks

\* b: all ACKs are put out, and none is kept.
FlushAcks(sent) ==
    /\ Flush("b", [i \in DOMAIN acks |-> Ack(acks[i])], sent)
    /\ acks' = <<>>

Unacked == DOMAIN queued \ acked

-----------------------------------------------------------------------------
(* The network *)

Lose(d) ==
    /\ d \in net
    /\ net' = net \ {d}
    /\ UNCHANGED <<use, mtu, queued, acked, got, acks>>

\* A datagram of another conversation from the same address.
Foreign ==
    /\ Cardinality(net) < MaxNet
    /\ net' = net \cup {[to |-> "b", ours |-> FALSE,
                         segs |-> <<[cmd |-> "push", sn |-> 1, len |-> Mss, una |-> 0]>>,
                         size |-> mtu + use.added]}
    /\ UNCHANGED <<use, mtu, queued, acked, got, acks>>

-----------------------------------------------------------------------------
(* Receiving *)

\* recv_from into a buffer of recv_buf_size bytes: the rest is gone.
Received(d) == Min({d.size, use.recvBuf})

\* process_incoming: the bytes of KCP it gives, none when it drops the datagram.
Processed(d) ==
    IF use.sealed /\ Received(d) < d.size THEN 0 ELSE Max({0, Received(d) - use.added})

\* The segments that n bytes of d hold completely.
Whole(d, n) ==
    SubSeq(d.segs, 1, Max({k \in 0..Len(d.segs) : Size(SubSeq(d.segs, 1, k)) <= n}))

\* Mutant: the length in the header is believed, and what is not there is missing.
TakenIn_Believes(d, n) ==
    LET whole == Whole(d, n)
        rest == n - Size(whole) - Overhead
    IN  IF ~d.ours THEN <<>>
        ELSE IF rest > 0 THEN Append(whole, [d.segs[Len(whole) + 1] EXCEPT !.len = rest])
        ELSE whole

\* Mutant: a datagram with an error in it counts for nothing.
TakenIn_AllOrNothing(d, n) == IF d.ours /\ Whole(d, n) = d.segs THEN d.segs ELSE <<>>

\* The loop of ikcp_input: what it takes in before it ends, or fails because a
\* segment is cut (-2) or of another conversation (-1).
TakenIn(d, n) == IF d.ours THEN Whole(d, n) ELSE <<>>

Pushed(segs) == At(segs, {i \in DOMAIN segs : segs[i].cmd = "push"})

\* Mutant: the ACK is noted before the length is looked at.
ToAck_Early(d, n) ==
    IF d.ours /\ n >= Size(Whole(d, n)) + Overhead
    THEN Pushed(SubSeq(d.segs, 1, Len(Whole(d, n)) + 1)) ELSE Pushed(TakenIn(d, n))

\* ikcp_ack_push of every segment taken in, a repeated one included.
ToAck(d, n) == Pushed(TakenIn(d, n))

\* ikcp_parse_una
Una(seg) == 1..seg.una

\* wait_for_data takes a datagram to p and drops what kcp.input returns (.ok()).
Receive(p) ==
    \E d \in net :
        /\ d.to = p
        /\ net' = net \ {d}
        /\ \E n \in {Processed(d)} : \E segs \in {TakenIn(d, n)}, acknow \in {ToAck(d, n)} :
               /\ got' = got \cup {[sn |-> seg.sn, len |-> seg.len] : seg \in ToSet(Pushed(segs))}
               /\ acks' = acks \o [i \in DOMAIN acknow |-> acknow[i].sn]
               /\ acked' = acked \cup {seg.sn : seg \in {s \in ToSet(segs) : s.cmd = "ack"}}
                                 \cup UNION {Una(seg) : seg \in ToSet(segs)}
        /\ UNCHANGED <<use, mtu, queued>>

Next ==
    \/ \E n \in Lens : Send(n)
    \/ Foreign
    \/ \E m \in use.mtus : SetMtu(m)
    \/ \E sns \in SUBSET Unacked, sent \in SUBSET (1..MaxNet) : FlushData(sns, sent)
    \/ \E sent \in SUBSET (1..MaxNet) : FlushAcks(sent)
    \/ \E d \in net : Lose(d)
    \/ \E p \in Peer : Receive(p)

Spec == Init /\ [][Next]_vars

\* The timers make everything unacknowledged due again and again, the first datagram
\* of such a flush goes out again and again, and some of what is sent arrives.
Fairness ==
    /\ SF_vars(FlushData(Unacked, {1}))
    /\ SF_vars(FlushAcks({1}))
    /\ \A p \in Peer : WF_vars(Receive(p)) /\ SF_vars(Receive(p) /\ \E d \in net \ net' : d.ours)

FairSpec == Spec /\ Fairness

-----------------------------------------------------------------------------
(* Properties *)

Segment == [cmd : {"push", "ack"}, sn : 1..MaxSegs, len : Nat, una : 0..MaxSegs]

\* Everything has its type, and only segments that were sent are acknowledged.
TypeOK ==
    /\ use \in Uses /\ mtu \in Nat
    /\ queued \in Seq(Nat \ {0}) /\ acked \subseteq DOMAIN queued
    /\ got \subseteq [sn : 1..MaxSegs, len : Nat]
    /\ acks \in Seq(1..MaxSegs)
    /\ \A d \in net : d.to \in Peer /\ d.segs \in Seq(Segment) \ {<<>>} /\ d.size \in Nat

\* Of a datagram that was cut by the receive buffer, or is of another conversation,
\* only whole segments of this one are taken in, each with all its bytes: ikcp_input
\* keeps what it has when it fails in the middle (src/kcp/ikcp.c:779).
WholeSegmentsOnly ==
    \A g \in got : g.sn \in DOMAIN queued /\ g.len = queued[g.sn]

\* The sender counts as acknowledged only what the receiver has, although ikcp_input
\* may fail between two segments, and the ACKs of one flush travel in several
\* datagrams that are not sent, lost or overtaken.
AckedIsTakenIn == acked \subseteq {g.sn : g \in got}

\* No datagram is larger than the mtu (src/src/core/config.rs:45-46, "the maximum
\* size of a single KCP output packet (including the 24-byte KCP header)").
DatagramFits ==
    \A sns \in SUBSET Unacked \ {{}} :
        \A segs \in ToSet(Pack(mtu, DueData(sns))) : Size(segs) <= mtu

\* The mtu is not smaller than it may have been for a segment that was cut by it.
NotLowered ==
    \/ \A m \in {use.mtu} \cup use.mtus : m <= mtu
    \/ mtu = use.mtu /\ use.mtu \notin use.mtus

\* Whatever is due, a flush hands to the transport exactly that and in that order,
\* cut into datagrams none of which is empty or, unless the mtu was lowered, larger
\* than the mtu (the packing of ikcp_flush).
PackedOnce ==
    /\ \A sns \in SUBSET Unacked \ {{}} :
           LET out == Pack(mtu, DueData(sns))
           IN  FlattenSeq(out) = DueData(sns) /\ <<>> \notin ToSet(out)
    /\ NotLowered => DatagramFits

\* Does process_incoming get a datagram as a whole, of whatever mtu?
NeverCut == \A m \in {use.mtu} \cup use.mtus : m + use.added <= use.recvBuf

\* Every segment is acknowledged in the end, although datagrams are not sent, lost,
\* or cut by a receive buffer that is smaller than the mtu, as long as it holds
\* a segment and process_incoming does not reject what was cut.
AllAcknowledged ==
    \A sn \in 1..MaxSegs :
        sn \in DOMAIN queued /\ (use.sealed => NeverCut) ~> sn \in acked
=============================================================================
