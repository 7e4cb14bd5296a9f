------------------------------ MODULE KcpSender ------------------------------
(***************************************************************************)
(* The sending half of one KCP engine with its clock (src/kcp/ikcp.c) as a *)
(* session drives it (src/src/tokio_rt/session.rs): when a segment is sent *)
(* for the first time and again, when a closed window is probed, what an   *)
(* acknowledgement does to the retransmission timeout and to the           *)
(* congestion window.                                                      *)
(*                                                                         *)
(* KcpArq leaves all this to choice; here it is computed, in milliseconds, *)
(* on a clock that wraps around.  The peer and the network are reduced to  *)
(* what comes back: any acknowledgement of anything sent, in any order,    *)
(* after any time, or never.                                               *)
(*                                                                         *)
(* kcp is the control block, with the fields of struct IKCPCB; snd_buf, a  *)
(* list in the order of sn, is a function from the sn it holds.  A step is *)
(* one call of the session; the operators from UpdateAck to Update map a   *)
(* control block to the next.                                              *)
(***************************************************************************)
EXTENDS KcpConfig, Sequences, FiniteSets, FiniteSetsExt, Functions

CONSTANTS Uses,         \* how the session is configured and driven
          Clock,        \* values of the clock: 2^32
          RtoDef,       \* IKCP_RTO_DEF
          RtoMax,       \* IKCP_RTO_MAX
          FastackLimit, \* IKCP_FASTACK_LIMIT
          SlapLimit,    \* the 10000 of ikcp_update and ikcp_check
          ProbeInit,    \* IKCP_PROBE_INIT
          ProbeLimit,   \* IKCP_PROBE_LIMIT
          MaxWrites,    \* bound: segments the application writes
          MaxTime,      \* bound: milliseconds a use lasts
          MaxAcks       \* bound: acknowledgements in a datagram

Time == 0..(Clock - 1)
Wnd == 0..65535

\* The engine's configuration, how time passes ("recv": a receive call waits
\* and updates every flush_interval; "check": the owner of a bare Kcp sleeps for
\* what check says; "idle": nobody drives it), flush_write, the first value of
\* the clock and its steps, the windows the peer announces, and two bounds.
\* A clock that starts late is that of a session which has long been silent.
Use == [kcp : {Applied([c EXCEPT !.resend = n]) : c \in {Default, Fast, Normal}, n \in 0..2},
        driver : {"recv", "check", "idle"},
        flushing : BOOLEAN,
        steps : SUBSET (1..MaxTime),
        start : Time,
        windows : SUBSET Wnd,
        writes : 0..MaxWrites,
        lasts : 0..MaxTime]

ASSUME SenderAssumption ==
    /\ \A u \in Uses : u \in Use
    /\ {RtoDef, RtoMax, FastackLimit, SlapLimit, ProbeInit, ProbeLimit} \subseteq Nat \ {0}
    /\ {MaxWrites, MaxTime, MaxAcks} \subseteq Nat
    /\ \A u \in Uses : u.kcp.interval <= SlapLimit /\ u.kcp.rx_minrto <= RtoDef
    /\ RtoDef <= RtoMax /\ ProbeInit <= ProbeLimit
    /\ Clock \in Nat /\ Clock > 2 * (MaxTime + 2 * RtoMax + ProbeLimit + SlapLimit)

VARIABLES
    use,        \* how this session is configured and driven
    now,        \* current_ms()
    time,       \* history: milliseconds passed
    kcp,        \* the control block
    net,        \* the transmissions not yet answered: sn, ts, and when
    got,        \* the segments the peer has
    asked,      \* a probe is under way to the peer
    sentAt,     \* history: when each segment was last transmitted
    slowest,    \* history: the longest time from a transmission to its ACK
    overtaken,  \* history: datagrams that acknowledged a later segment, sent later
    fastResent, \* history: fast retransmissions
    probedAt,   \* history: when the window closed or was last probed
    blockedAt   \* history: the last time nothing waited to be sent at once

history == <<time, sentAt, slowest, overtaken, fastResent, probedAt, blockedAt>>
vars == <<use, now, kcp, net, got, asked, history>>

Plus(t, d) == (t + d) % Clock

\* _itimediff: the difference as a signed integer.
Diff(later, earlier) ==
    LET d == (later - earlier) % Clock
    IN  IF 2 * d < Clock THEN d ELSE d - Clock

Sn == 0..(MaxWrites - 1)
Config == use.kcp
Interval == Config.interval

Created ==
    [snd_una |-> 0, snd_nxt |-> 0, nsnd_que |-> 0, snd_buf |-> [sn \in {} |-> 0],
     rmt_wnd |-> 128, cwnd |-> 0, ssthresh |-> 2, incr |-> 0,
     rx_srtt |-> 0, rx_rttval |-> 0, rx_rto |-> RtoDef,
     current |-> 0, updated |-> FALSE, ts_flush |-> 100,
     ts_probe |-> 0, probe_wait |-> 0]

Init ==
    /\ use \in Uses
    /\ now = use.start
    /\ kcp = Created
    /\ net = {} /\ got = {} /\ asked = FALSE
    /\ time = 0 /\ slowest = 0
    /\ sentAt = [sn \in Sn |-> 0]
    /\ overtaken = [sn \in Sn |-> 0]
    /\ fastResent = [sn \in Sn |-> 0]
    /\ probedAt = use.start /\ blockedAt = use.start

-----------------------------------------------------------------------------
(* ikcp_input *)

UpdateAck(k, rtt) ==
    LET first == k.rx_srtt = 0
        srtt == IF first THEN rtt ELSE Max({1, (7 * k.rx_srtt + rtt) \div 8})
        delta == Max({rtt - k.rx_srtt, k.rx_srtt - rtt})
        rttval == IF first THEN rtt \div 2 ELSE (3 * k.rx_rttval + delta) \div 4
        rto == srtt + Max({Interval, 4 * rttval})
    IN  [k EXCEPT !.rx_srtt = srtt, !.rx_rttval = rttval,
                  !.rx_rto = Min({Max({Config.rx_minrto, rto}), RtoMax})]

\* snd_buf without the segments acknowledged, and ikcp_shrink_buf.
Forget(k, sns) ==
    LET left == DOMAIN k.snd_buf \ sns
    IN  [k EXCEPT !.snd_buf = Restrict(@, left),
                  !.snd_una = IF left = {} THEN k.snd_nxt ELSE Min(left)]

ParseUna(k, una) == Forget(k, 0..(una - 1))

ParseAck(k, ack) ==
    LET rtt == Diff(k.current, ack.ts)
    IN  Forget(IF rtt >= 0 THEN UpdateAck(k, rtt) ELSE k, {ack.sn})

\* All ACKs of a datagram, in order.
ParseAcks(k, acks) ==
    LET after[i \in 0..Len(acks)] == IF i = 0 THEN k ELSE ParseAck(after[i - 1], acks[i])
    IN  after[Len(acks)]

\* The ACK of a datagram that counts for fast retransmission: maxack, latest_ts.
Later(max, ack) == IF ack.sn > max.sn /\ Diff(ack.ts, max.ts) > 0 THEN ack ELSE max

Latest(acks) ==
    LET max[i \in 0..Len(acks)] == IF i = 0 THEN acks[1] ELSE Later(max[i - 1], acks[i])
    IN  max[Len(acks)]

\* Mutant: an ACK counts also against segments sent again after the one it acknowledges.
ParseFastack_AnyTs(k, ack) ==
    [k EXCEPT !.snd_buf = [sn \in DOMAIN k.snd_buf |->
        LET seg == k.snd_buf[sn]
        IN  IF ack.sn # sn THEN [seg EXCEPT !.fastack = @ + 1] ELSE seg]]

ParseFastack(k, ack) ==
    IF ack.sn < k.snd_una THEN k
    ELSE [k EXCEPT !.snd_buf = [sn \in DOMAIN k.snd_buf |->
              LET seg == k.snd_buf[sn]
              IN  IF sn < ack.sn /\ Diff(ack.ts, seg.ts) >= 0
                  THEN [seg EXCEPT !.fastack = @ + 1] ELSE seg]]

\* The congestion window grows when snd_una advances.
Grown(k) ==
    LET mss == Config.mss
        base == Max({k.incr, mss})
        incr == base + (mss * mss) \div base + mss \div 16
        slow == k.cwnd < k.ssthresh
        cwnd == IF slow THEN k.cwnd + 1
                ELSE IF (k.cwnd + 1) * mss <= incr THEN (incr + mss - 1) \div mss
                ELSE k.cwnd
    IN  IF k.cwnd >= k.rmt_wnd THEN k
        ELSE IF cwnd > k.rmt_wnd
             THEN [k EXCEPT !.cwnd = k.rmt_wnd, !.incr = k.rmt_wnd * mss]
             ELSE [k EXCEPT !.cwnd = cwnd, !.incr = IF slow THEN @ + mss ELSE incr]

\* A datagram that announces window wnd, acknowledges all below una, and each of acks.
Input(k, wnd, una, acks) ==
    LET acked == ParseAcks(ParseUna([k EXCEPT !.rmt_wnd = wnd], una), acks)
        marked == IF acks = <<>> THEN acked ELSE ParseFastack(acked, Latest(acks))
    IN  IF marked.snd_una > k.snd_una THEN Grown(marked) ELSE marked

-----------------------------------------------------------------------------
(* ikcp_flush and ikcp_update *)

\* Mutant: the timer starts anew with every flush.
Probe_Restarts(k) ==
    IF k.rmt_wnd # 0 THEN [k EXCEPT !.ts_probe = 0, !.probe_wait = 0]
    ELSE [k EXCEPT !.probe_wait = ProbeInit, !.ts_probe = Plus(k.current, ProbeInit)]

\* Does this flush ask for the window?
Asks(k) == k.rmt_wnd = 0 /\ k.probe_wait # 0 /\ Diff(k.current, k.ts_probe) >= 0

\* The timer that probes a closed window.
Probe(k) ==
    LET wait == IF k.probe_wait = 0 THEN ProbeInit
                ELSE Min({k.probe_wait + k.probe_wait \div 2, ProbeLimit})
    IN  IF k.rmt_wnd # 0 THEN [k EXCEPT !.ts_probe = 0, !.probe_wait = 0]
        ELSE IF k.probe_wait = 0 \/ Asks(k)
        THEN [k EXCEPT !.probe_wait = wait, !.ts_probe = Plus(k.current, wait)]
        ELSE k

Window(k) ==
    Min({Config.snd_wnd, k.rmt_wnd} \cup IF Config.nocwnd THEN {} ELSE {k.cwnd})

\* What the window allows moves from snd_queue to snd_buf.
Number(k) ==
    LET n == Min({k.nsnd_que, Max({0, k.snd_una + Window(k) - k.snd_nxt})})
        new == k.snd_nxt..(k.snd_nxt + n - 1)
        seg == [ts |-> k.current, resendts |-> k.current, rto |-> k.rx_rto,
                fastack |-> 0, xmit |-> 0]
    IN  [k EXCEPT !.nsnd_que = @ - n,
                  !.snd_nxt = @ + n,
                  !.snd_buf = [sn \in DOMAIN @ \cup new |-> IF sn \in new THEN seg ELSE @[sn]]]

\* Why a segment is transmitted by this flush.
TimedOut(k, seg) == seg.xmit > 0 /\ Diff(k.current, seg.resendts) >= 0

Skipped(k, seg) ==
    /\ seg.xmit > 0 /\ ~TimedOut(k, seg)
    /\ Config.fastresend > 0 /\ seg.fastack >= Config.fastresend
    /\ seg.xmit <= FastackLimit

Due(k, seg) == seg.xmit = 0 \/ TimedOut(k, seg) \/ Skipped(k, seg)

\* Mutant: a retransmission leaves the timer where it was.
Transmitted_SameTimer(k, seg) ==
    IF Due(k, seg) /\ seg.xmit > 0 THEN [seg EXCEPT !.xmit = @ + 1, !.fastack = 0, !.ts = k.current]
    ELSE IF Due(k, seg)
    THEN [seg EXCEPT !.xmit = 1, !.ts = k.current, !.resendts = Plus(k.current, k.rx_rto)]
    ELSE seg

\* Mutant: a retransmission keeps the timestamp of the first one.
Transmitted_SameTs(k, seg) ==
    IF ~Due(k, seg) THEN seg
    ELSE [seg EXCEPT !.xmit = @ + 1, !.fastack = 0, !.resendts = Plus(k.current, k.rx_rto)]

Transmitted(k, seg) ==
    LET rtomin == IF Config.nodelay THEN 0 ELSE k.rx_rto \div 8
        backoff == IF Config.nodelay THEN seg.rto + seg.rto \div 2
                   ELSE seg.rto + Max({seg.rto, k.rx_rto})
        sent == [seg EXCEPT !.xmit = @ + 1, !.ts = k.current]
    IN  CASE seg.xmit = 0 ->
                 [sent EXCEPT !.rto = k.rx_rto, !.resendts = Plus(k.current, k.rx_rto + rtomin)]
          [] TimedOut(k, seg) ->
                 [sent EXCEPT !.rto = backoff, !.resendts = Plus(k.current, backoff)]
          [] Skipped(k, seg) ->
                 [sent EXCEPT !.fastack = 0, !.resendts = Plus(k.current, seg.rto)]
          [] OTHER -> seg

\* Mutant: nothing raises a congestion window of 0.
Congested_Zero(k, window, change, lost) ==
    IF lost THEN [k EXCEPT !.ssthresh = Max({window \div 2, 2}), !.cwnd = 0, !.incr = 0] ELSE k

\* ssthresh and cwnd after the segments went out.
Congested(k, window, change, lost) ==
    LET half == Max({(k.snd_nxt - k.snd_una) \div 2, 2})
        k1 == IF ~change THEN k
              ELSE [k EXCEPT !.ssthresh = half, !.cwnd = half + Config.fastresend,
                             !.incr = (half + Config.fastresend) * Config.mss]
        k2 == IF ~lost THEN k1 ELSE [k1 EXCEPT !.ssthresh = Max({window \div 2, 2})]
    IN  IF lost \/ k2.cwnd < 1 THEN [k2 EXCEPT !.cwnd = 1, !.incr = Config.mss] ELSE k2

\* The control block from which ikcp_flush transmits, and the one after it.
Prepared(k) == Number(Probe(k))

Flush(k) ==
    LET p == Prepared(k)
        change == \E sn \in DOMAIN p.snd_buf : Skipped(p, p.snd_buf[sn])
        lost == \E sn \in DOMAIN p.snd_buf : TimedOut(p, p.snd_buf[sn])
        sent == [p EXCEPT !.snd_buf = [sn \in DOMAIN @ |-> Transmitted(p, @[sn])]]
    IN  Congested(sent, Window(p), change, lost)

\* ikcp_update, up to the flush: the clock and the schedule of flushes.
Slap(k, t) ==
    LET d == IF k.updated THEN Diff(t, k.ts_flush) ELSE 0
    IN  IF d >= SlapLimit \/ d < -SlapLimit THEN 0 ELSE d

\* Mutant: after a pause the schedule lags behind the clock.
Scheduled_Lags(k, t) ==
    LET base == IF k.updated /\ Diff(t, k.ts_flush) = Slap(k, t) THEN k.ts_flush ELSE t
    IN  [k EXCEPT !.current = t, !.updated = TRUE,
                  !.ts_flush = IF Slap(k, t) < 0 THEN base ELSE Plus(base, Interval)]

\* Mutant: every update puts the flush off.
Scheduled_Defers(k, t) ==
    [k EXCEPT !.current = t, !.updated = TRUE, !.ts_flush = Plus(t, Interval)]

Scheduled(k, t) ==
    LET base == IF k.updated /\ Diff(t, k.ts_flush) = Slap(k, t) THEN k.ts_flush ELSE t
        next == IF Slap(k, t) < 0 THEN base
                ELSE IF Diff(t, Plus(base, Interval)) >= 0 THEN Plus(t, Interval)
                ELSE Plus(base, Interval)
    IN  [k EXCEPT !.current = t, !.updated = TRUE, !.ts_flush = next]

\* ikcp_check
Check(k, t) ==
    LET wait == Diff(IF Diff(t, k.ts_flush) >= SlapLimit \/ Diff(t, k.ts_flush) < -SlapLimit
                     THEN t ELSE k.ts_flush, t)
        resends == {Diff(k.snd_buf[sn].resendts, t) : sn \in DOMAIN k.snd_buf}
    IN  IF ~k.updated \/ wait <= 0 \/ \E r \in resends : r <= 0 THEN t
        ELSE Plus(t, Min({wait, Interval} \cup resends))

-----------------------------------------------------------------------------
(* The session *)

\* The engine of k flushes: what is transmitted gets on its way.
Output(k, rest) ==
    LET p == Prepared(k)
        out == {sn \in DOMAIN p.snd_buf : Due(p, p.snd_buf[sn])}
        fast == {sn \in out : Skipped(p, p.snd_buf[sn])}
    IN  /\ kcp' = Flush(k)
        /\ net' = rest \cup {[sn |-> sn, ts |-> Transmitted(p, p.snd_buf[sn]).ts, at |-> now] :
                                 sn \in out}
        /\ sentAt' = [sn \in Sn |-> IF sn \in out THEN now ELSE sentAt[sn]]
        /\ fastResent' = [sn \in Sn |-> fastResent[sn] + IF sn \in fast THEN 1 ELSE 0]
        /\ asked' = (asked \/ Asks(k))
        /\ probedAt' = IF Asks(k) \/ k.rmt_wnd # 0 THEN now ELSE probedAt

\* Nothing waits that could be sent at once: the last time that was so.
NoteBlocked ==
    blockedAt' = IF kcp'.nsnd_que = 0 \/ DOMAIN kcp'.snd_buf # {} \/ kcp'.rmt_wnd = 0
                 THEN now' ELSE blockedAt

\* KcpSession::update of the engine k, with rest left on the network.
Update(k, rest) ==
    IF Slap(k, now) >= 0 THEN Output(Scheduled(k, now), rest)
    ELSE /\ kcp' = Scheduled(k, now)
         /\ net' = rest
         /\ probedAt' = IF k.rmt_wnd # 0 THEN now ELSE probedAt
         /\ UNCHANGED <<sentAt, fastResent, asked>>

\* Time passes, no further than to the moment the driver wakes up.
Advance(d) ==
    /\ time + d <= use.lasts
    /\ use.driver = "recv" =>
           IF kcp.updated THEN Diff(Plus(now, d), kcp.current) <= Interval
                          ELSE time + d <= Interval
    /\ use.driver = "check" => \/ d <= Diff(Check(kcp, now), now)
                               \/ d = Min(use.steps) /\ kcp.current = now
    /\ time' = time + d
    /\ now' = Plus(now, d)
    /\ UNCHANGED <<use, kcp, net, got, asked, sentAt, slowest, overtaken, fastResent, probedAt>>
    /\ NoteBlocked

\* session.send: one segment; with flush_write the engine flushes, on the time
\* of its last update.
Write ==
    /\ kcp.snd_nxt + kcp.nsnd_que < use.writes
    /\ LET k == [kcp EXCEPT !.nsnd_que = @ + 1]
       IN  IF use.flushing /\ kcp.updated THEN Output(k, net)
           ELSE kcp' = k /\ UNCHANGED <<net, sentAt, fastResent, asked, probedAt>>
    /\ UNCHANGED <<use, now, time, got, slowest, overtaken>>
    /\ NoteBlocked

\* The tick of wait_for_data, flush(), or the owner of a Kcp: update.
Tick ==
    /\ Update(kcp, net)
    /\ UNCHANGED <<use, now, time, got, slowest, overtaken>>
    /\ NoteBlocked

\* The lowest segment the peer lacks: no una is above it.
Missing(has) == Min({sn \in 0..MaxWrites : sn \notin has})

\* A datagram of the peer arrives and wait_for_data inputs it, then updates:
\* ACKs of some transmissions, perhaps formed before the peer had all it has now.
Arrive(answers, una, wnd) ==
    LET has == got \cup {answers[i].sn : i \in DOMAIN answers}
        acks == [i \in DOMAIN answers |-> [sn |-> answers[i].sn, ts |-> answers[i].ts]]
        rtts == {Diff(now, answers[i].at) : i \in DOMAIN answers}
        later(sn) == \E i \in DOMAIN answers :
                         answers[i].sn > sn /\ Diff(answers[i].at, sentAt[sn]) >= 0
    IN  /\ una \in kcp.snd_una..Missing(has)
        /\ got' = has
        /\ slowest' = Max({slowest} \cup rtts)
        /\ overtaken' = [sn \in Sn |-> overtaken[sn] + IF later(sn) THEN 1 ELSE 0]
        /\ Update(Input(kcp, wnd, una, acks), net \ {answers[i] : i \in DOMAIN answers})
        /\ UNCHANGED <<use, now, time>>
        /\ NoteBlocked

ArriveAcks ==
    \E n \in 1..MaxAcks : \E answers \in [1..n -> net] :
        /\ \A i, j \in 1..n : i # j => answers[i] # answers[j]
        /\ \E una \in 0..MaxWrites, wnd \in use.windows : Arrive(answers, una, wnd)

\* The peer answers a probe, or one of its announcements arrives.
ArriveWins ==
    /\ asked
    /\ \E una \in 0..MaxWrites, wnd \in use.windows : Arrive(<<>>, una, wnd)

Next ==
    \/ \E d \in use.steps : Advance(d)
    \/ Write
    \/ Tick
    \/ ArriveAcks
    \/ ArriveWins

Spec == Init /\ [][Next]_vars

-----------------------------------------------------------------------------
(* Properties *)

Segment == [ts : Time, resendts : Time, rto : Nat, fastack : Nat, xmit : Nat]

Buffer == UNION {[sns -> Segment] : sns \in SUBSET Sn}

\* The fields of struct IKCPCB that the sending half uses.
ControlBlock ==
    [snd_una : Nat, snd_nxt : Nat, nsnd_que : Nat, snd_buf : Buffer,
     rmt_wnd : Wnd, cwnd : Nat, ssthresh : Nat, incr : Nat,
     rx_srtt : Nat, rx_rttval : Nat, rx_rto : 1..RtoMax,
     current : Time, updated : BOOLEAN, ts_flush : Time,
     ts_probe : Time, probe_wait : 0..ProbeLimit]

\* Everything has its type: no difference of times or of numbers turns negative.
TypeOK ==
    /\ use \in Uses /\ now \in Time /\ time \in 0..MaxTime
    /\ kcp \in ControlBlock
    /\ net \subseteq [sn : Sn, ts : Time, at : Time]
    /\ got \subseteq Sn /\ asked \in BOOLEAN
    /\ {sentAt, overtaken, fastResent} \subseteq [Sn -> Nat]
    /\ slowest \in Nat /\ {probedAt, blockedAt} \subseteq Time

Driven == use.driver # "idle"
InFlight == DOMAIN kcp.snd_buf
SentLongerThan(sn, d) == kcp.snd_buf[sn].xmit > 0 /\ Diff(now, sentAt[sn]) > d

EarlyResend ==
    \E sn \in InFlight \cap InFlight' :
        /\ kcp.snd_buf[sn].xmit > 0
        /\ kcp'.snd_buf[sn].xmit > kcp.snd_buf[sn].xmit
        /\ fastResent'[sn] = fastResent[sn]
        /\ ~SentLongerThan(sn, Config.rx_minrto - 1)

\* However often acknowledgements, writes and ticks make the engine flush, a
\* segment goes out again for its timer only when the minimal timeout has passed
\* since it last went out, also over the wrap of the clock (ikcp_flush).
NoEarlyResend == [][~use.flushing => ~EarlyResend]_vars

\* The same with flush_write, whose flush runs on the time of the last update
\* (src/kcp/ikcp.c:23-24: the "no delay min rto" and the "normal min rto").
FlushWriteKeepsTimers == [][~EarlyResend]_vars

\* The estimate of the round trip never exceeds the longest one that was made:
\* an ACK of a first transmission, arriving after the second, is no sample of the
\* second, and none is measured from a time that was not that of the transmission
\* (ikcp_update_ack from the ts the peer returns).
SampleIsRoundTrip == ~use.flushing => kcp.rx_srtt <= Max({1, slowest})

\* Every fast retransmission was earned by as many datagrams that acknowledged a
\* later segment sent no earlier: reordering or late ACKs of an earlier round
\* cause none, and none is counted twice (ikcp_parse_fastack).
FastResendIsEarned ==
    \A sn \in Sn : ~use.flushing /\ fastResent[sn] > 0 =>
        Config.fastresend > 0 /\ overtaken[sn] >= Config.fastresend * fastResent[sn]

\* The next flush is never more than one interval ahead of the last update, and
\* never behind it: neither a pause of any length nor the wrap of the clock makes
\* the engine flush in every update, or in none (ikcp_update).
FlushScheduled ==
    kcp.updated => Diff(kcp.ts_flush, kcp.current) \in 1..Interval

\* What is not acknowledged goes out again in time: a driven session never leaves
\* a segment alone for longer than its timeout and two intervals, whatever the
\* ACKs of others did to the timers (ikcp_flush, wait_for_data).
ResentInTime ==
    Driven => \A sn \in InFlight :
        LET rto == kcp.snd_buf[sn].rto
        IN  ~SentLongerThan(sn, rto + Max({rto, kcp.rx_rto}) \div 8 + 2 * Interval)

\* A closed window is probed in time, again and again, at most ProbeLimit and a
\* few intervals apart: the timer is neither lost nor started anew by flushes in
\* between (ikcp_flush).
ProbedInTime ==
    Driven /\ kcp.rmt_wnd = 0 =>
        Diff(now, probedAt) <= Max({ProbeInit, kcp.probe_wait}) + 5 * Interval

\* Data waits in snd_queue only for something under way or for a closed window:
\* the congestion window never locks the sender out (ikcp_flush, ikcp_input).
QueuedGoesInTime == Driven => Diff(now, blockedAt) <= 3 * Interval

\* After an update, check names a later time: a loop that sleeps for what check
\* says does not spin (src/src/core/kcp.rs:252, "the earliest time when update
\* should be called next").
CheckLetsTimePass ==
    [][kcp.current # now /\ kcp'.current = now => Check(kcp', now) # now]_vars
=============================================================================
