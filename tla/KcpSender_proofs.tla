--------------------------- MODULE KcpSender_proofs ---------------------------
(***************************************************************************)
(* Proofs about KcpSender: its types, the schedule of its flushes, the     *)
(* samples of the round trip, fast retransmissions, that no timer fires    *)
(* early, and that none fires late: neither that of a segment, nor that of *)
(* the probe, nor does the congestion window keep data back.  For every    *)
(* configuration, every start of the clock and every order of answers,     *)
(* over the wrap of the clock.                                             *)
(*                                                                         *)
(* The properties speak of differences of moments.  The invariant says     *)
(* which moments those are: now and everything the engine ever noted are   *)
(* Plus(use.start, x) with x no greater than the time passed, a flush is   *)
(* due an interval after one of them at most, and a segment in flight was  *)
(* sent at one of them, with a timer that has grown no faster than time    *)
(* passed (Timed, Flying, Within).  No two are further apart than Far, and *)
(* the clock is longer than twice that: so Diff is what lies between them. *)
(*                                                                         *)
(* The deadlines are a second invariant on top of it: Off(t) is the number *)
(* x of a moment, the next flush is at most an interval after any timer    *)
(* (Watched, Probed, Queued), and the driver updates in time for it        *)
(* (Prompt).                                                               *)
(*                                                                         *)
(* A lemma XIs says what the operator X of KcpSender does to a control     *)
(* block; a lemma XMade does so for the EXCEPT that WithX stands for.      *)
(***************************************************************************)
EXTENDS KcpSender, KcpLemmas, TLAPS

-----------------------------------------------------------------------------
(* The clock *)

\* No moment and no timer is further than this from the start.
Far == MaxTime + 2 * RtoMax + ProbeLimit + SlapLimit

\* The clock is long enough for all that a use lasts.
LEMMA FarIs ==
    /\ Far \in Nat /\ Clock \in Nat /\ Clock > 2 * Far
    /\ MaxTime \in 0..Far /\ MaxTime + 2 * RtoMax <= Far /\ SlapLimit <= Far /\ MaxTime + SlapLimit <= Far
    /\ RtoDef \in Nat \ {0} /\ RtoMax \in Nat \ {0} /\ MaxTime \in Nat /\ SlapLimit \in Nat \ {0}
BY SenderAssumption DEF Far

\* A number up to twice the clock, modulo the clock.
LEMMA ModIs ==
    ASSUME NEW C \in Nat, NEW x \in Int
    PROVE  /\ 0 <= x /\ x < C => x % C = x
           /\ C <= x /\ x < 2 * C => x % C = x - C
           /\ -C <= x /\ x < 0 => x % C = x + C
           /\ C > 0 => x % C \in 0..(C - 1)
<1>1. 0 <= x /\ x < C => x % C = x
  OBVIOUS
<1>2. C <= x /\ x < 2 * C => x % C = x - C
  OBVIOUS
<1>3. -C <= x /\ x < 0 => x % C = x + C
  OBVIOUS
<1>4. C > 0 => x % C \in 0..(C - 1)
  OBVIOUS
<1> QED BY <1>1, <1>2, <1>3, <1>4

\* What Plus is: a moment of the clock.
LEMMA PlusIs ==
    ASSUME NEW t \in Time, NEW d \in Nat
    PROVE  /\ Plus(t, d) \in Time
           /\ d < Clock => Plus(t, d) = IF t + d < Clock THEN t + d ELSE t + d - Clock
<1>1. Clock \in Nat /\ Clock > 0 /\ t \in 0..(Clock - 1)
  BY FarIs DEF Time
<1> DEFINE x == t + d
<1>2. x \in Nat /\ (d < Clock => x < 2 * Clock)
  BY <1>1
<1>3. Plus(t, d) = x % Clock
  BY DEF Plus
<1>4. x % Clock \in 0..(Clock - 1) /\ (x < Clock => x % Clock = x)
      /\ (Clock <= x /\ x < 2 * Clock => x % Clock = x - Clock)
  <2> HIDE DEF x
  <2> QED BY <1>1, <1>2, ModIs
<1>5. Plus(t, d) \in Time
  BY <1>3, <1>4 DEF Time
<1>6. ASSUME d < Clock PROVE Plus(t, d) = IF x < Clock THEN x ELSE x - Clock
  <2> HIDE DEF x
  <2> QED BY <1>1, <1>2, <1>3, <1>4, <1>6
<1>7. ASSUME d < Clock
      PROVE  Plus(t, d) = IF t + d < Clock THEN t + d ELSE t + d - Clock
  BY <1>1, <1>6, <1>7 DEF x
<1> HIDE DEF x
<1> QED BY <1>5, <1>7

\* Time after time is the time of both.
LEMMA PlusOfPlus ==
    ASSUME NEW t \in Time, NEW a \in Nat, NEW b \in Nat, a + b < Clock
    PROVE  Plus(Plus(t, a), b) = Plus(t, a + b)
<1>1. Clock \in Nat /\ t \in 0..(Clock - 1)
  BY FarIs DEF Time
<1>2. Plus(t, a) \in Time /\ Plus(t, a) = IF t + a < Clock THEN t + a ELSE t + a - Clock
  BY <1>1, PlusIs
<1> DEFINE u == Plus(t, a)
<1>3. Plus(u, b) = IF u + b < Clock THEN u + b ELSE u + b - Clock
  <2> HIDE DEF u
  <2>1. u \in Time
    BY <1>2 DEF u
  <2> QED BY <1>1, <2>1, PlusIs
<1>4. a + b \in Nat /\ Plus(t, a + b) = IF t + (a + b) < Clock THEN t + (a + b) ELSE t + (a + b) - Clock
  BY <1>1, PlusIs
<1> HIDE DEF u
<1>5. u = IF t + a < Clock THEN t + a ELSE t + a - Clock
  BY <1>2 DEF u
<1>6. Plus(u, b) = Plus(t, a + b)
  BY <1>1, <1>3, <1>4, <1>5
<1> QED BY <1>6 DEF u

\* Diff is a number, and never as large as the clock.
LEMMA DiffIs ==
    ASSUME NEW t \in Time, NEW u \in Time
    PROVE  Diff(t, u) \in Int /\ Diff(t, u) < Clock
<1>1. Clock \in Nat /\ Clock > 0 /\ t \in 0..(Clock - 1) /\ u \in 0..(Clock - 1)
  BY FarIs DEF Time
<1> DEFINE d == (t - u) % Clock
<1>2. d \in 0..(Clock - 1)
  BY <1>1, ModIs
<1> HIDE DEF d
<1>3. Diff(t, u) = IF 2 * d < Clock THEN d ELSE d - Clock
  BY DEF Diff, d
<1> QED BY <1>1, <1>2, <1>3

\* The difference of two moments not too far apart, over the wrap of the clock too.
LEMMA DiffOfPlus ==
    ASSUME NEW t \in Time, NEW a \in Nat, NEW b \in Nat, a < Clock, b < Clock,
           2 * (a - b) < Clock, 2 * (b - a) < Clock
    PROVE  Diff(Plus(t, a), Plus(t, b)) = a - b
<1>1. Clock \in Nat /\ t \in 0..(Clock - 1)
  BY FarIs DEF Time
<1> DEFINE u == Plus(t, a)
           v == Plus(t, b)
           d == (u - v) % Clock
<1>2. u = (IF t + a < Clock THEN t + a ELSE t + a - Clock)
  BY <1>1, PlusIs
<1>3. v = (IF t + b < Clock THEN t + b ELSE t + b - Clock)
  BY <1>1, PlusIs
<1> HIDE DEF u, v
<1>4. u - v \in Int /\ u - v \in {a - b, a - b + Clock, a - b - Clock}
      /\ u - v < Clock /\ u - v > - Clock
  BY <1>1, <1>2, <1>3
<1>5. d = IF a >= b THEN a - b ELSE a - b + Clock
  <2>1. CASE u - v >= 0
    <3>1. d = u - v
      BY <1>1, <1>4, <2>1, ModIs
    <3> QED BY <1>1, <1>4, <2>1, <3>1
  <2>2. CASE u - v < 0
    <3>1. d = u - v + Clock
      BY <1>1, <1>4, <2>2, ModIs
    <3> QED BY <1>1, <1>4, <2>2, <3>1
  <2> QED BY <1>4, <2>1, <2>2
<1>6. Diff(u, v) = IF 2 * d < Clock THEN d ELSE d - Clock
  BY DEF Diff
<1> HIDE DEF d
<1>7. Diff(u, v) = a - b
  BY <1>1, <1>5, <1>6
<1> QED BY <1>7 DEF u, v

-----------------------------------------------------------------------------
(* Numbers and the configuration *)

\* Max and Min of two numbers are one of them.
LEMMA MaxOfTwo ==
    ASSUME NEW a \in Int, NEW b \in Int
    PROVE  Max({a, b}) \in {a, b} /\ Max({a, b}) >= a /\ Max({a, b}) >= b
<1>1. \E x \in {a, b} : \A y \in {a, b} : x >= y
  OBVIOUS
<1> QED BY <1>1 DEF Max

LEMMA MinOfTwo ==
    ASSUME NEW a \in Int, NEW b \in Int
    PROVE  Min({a, b}) \in {a, b} /\ Min({a, b}) <= a /\ Min({a, b}) <= b
<1>1. \E x \in {a, b} : \A y \in {a, b} : x <= y
  OBVIOUS
<1> QED BY <1>1 DEF Min

\* Min of numbers is the least of them.
LEMMA MinIs ==
    ASSUME NEW T \in SUBSET Nat, T # {}
    PROVE  Min(T) \in T /\ \A t \in T : Min(T) <= t
<1>1. \E x \in T : \A y \in T : x <= y
  BY LeastNumber
<1> QED BY <1>1 DEF Min

\* The numbers of a configuration that the engine counts with.
Configs == [nodelay : BOOLEAN, rx_minrto : {30, 100}, interval : {10, 40, 100},
            fastresend : 0..2, nocwnd : BOOLEAN, mss : {1376}, snd_wnd : {32, 64, 128},
            rcv_wnd : {128}]

\* Whatever preset is applied, with any resend.
LEMMA AppliedIs ==
    ASSUME NEW c \in {Default, Fast, Normal}, NEW n \in 0..2
    PROVE  Applied([c EXCEPT !.resend = n]) \in Configs
<1>1. CASE c = Default
  BY <1>1 DEF Default, Applied, Configs, MinRto, Clamped, SndWnd, RcvWnd
<1>2. CASE c = Fast
  BY <1>2 DEF Fast, Applied, Configs, MinRto, Clamped, SndWnd, RcvWnd
<1>3. CASE c = Normal
  BY <1>3 DEF Normal, Applied, Configs, MinRto, Clamped, SndWnd, RcvWnd
<1> QED BY <1>1, <1>2, <1>3

\* The configuration of a use, and its bounds.
LEMMA ConfigIs ==
    ASSUME use \in Uses
    PROVE  /\ Config \in Configs
           /\ Config.nodelay \in BOOLEAN /\ Config.nocwnd \in BOOLEAN
           /\ Config.rx_minrto \in {30, 100} /\ Config.rx_minrto <= RtoDef
           /\ Interval \in {10, 40, 100} /\ Interval <= SlapLimit
           /\ Config.fastresend \in 0..2 /\ Config.mss = 1376 /\ Config.snd_wnd \in {32, 64, 128}
           /\ use.start \in Time /\ use.lasts \in 0..MaxTime /\ use.writes \in 0..MaxWrites
           /\ use.windows \subseteq Wnd /\ use.steps \subseteq 1..MaxTime
<1>1. use \in Use /\ use.kcp.interval <= SlapLimit /\ use.kcp.rx_minrto <= RtoDef
  BY SenderAssumption
<1>2. use.kcp \in {Applied([c EXCEPT !.resend = n]) : c \in {Default, Fast, Normal}, n \in 0..2}
  BY <1>1 DEF Use
<1>3. /\ use.start \in Time /\ use.lasts \in 0..MaxTime /\ use.writes \in 0..MaxWrites
      /\ use.windows \subseteq Wnd /\ use.steps \subseteq 1..MaxTime
  BY <1>1 DEF Use
<1>4. use.kcp \in Configs
  <2>1. PICK c \in {Default, Fast, Normal}, n \in 0..2 : use.kcp = Applied([c EXCEPT !.resend = n])
    BY <1>2
  <2> QED BY <2>1, AppliedIs
<1>5. Config = use.kcp /\ Config \in Configs /\ Interval = Config.interval
  BY <1>4 DEF Config, Interval
<1>6. /\ Config.nodelay \in BOOLEAN /\ Config.nocwnd \in BOOLEAN
      /\ Config.rx_minrto \in {30, 100} /\ Config.interval \in {10, 40, 100}
      /\ Config.fastresend \in 0..2 /\ Config.mss = 1376 /\ Config.snd_wnd \in {32, 64, 128}
  <2> HIDE DEF Config
  <2> QED BY <1>5 DEF Configs
<1> QED BY <1>1, <1>3, <1>5, <1>6

-----------------------------------------------------------------------------
(* The control block *)

\* A control block whose timeout is not below the minimal one.
Sound(k) == k \in ControlBlock /\ k.rx_rto >= Config.rx_minrto

\* Neither the clock nor the schedule of flushes changes.
SameClock(k, k1) ==
    k1.current = k.current /\ k1.updated = k.updated /\ k1.ts_flush = k.ts_flush

\* What is queued and what is numbered stay as many.
SameQueue(k, k1) == k1.snd_nxt = k.snd_nxt /\ k1.nsnd_que = k.nsnd_que

\* The timer of the probe does not change.
SameProbe(k, k1) == k1.ts_probe = k.ts_probe /\ k1.probe_wait = k.probe_wait

\* Neither do the windows, and what the peer has acknowledged.
SameWindows(k, k1) ==
    k1.cwnd = k.cwnd /\ k1.rmt_wnd = k.rmt_wnd /\ k1.snd_una = k.snd_una

\* What is numbered is acknowledged when nothing is in flight.
Whole(k) == DOMAIN k.snd_buf = {} => k.snd_una = k.snd_nxt

\* Neither the probe's timer changes, nor does the congestion window close.
Steady(k, k1) ==
    /\ SameProbe(k, k1)
    /\ k.cwnd >= 1 => k1.cwnd >= 1
    /\ Whole(k) => Whole(k1)

LEMMA SteadySame ==
    ASSUME NEW k, NEW k1, SameProbe(k, k1), SameWindows(k, k1), SameQueue(k, k1),
           DOMAIN k1.snd_buf = DOMAIN k.snd_buf
    PROVE  Steady(k, k1)
BY DEF Steady, SameWindows, SameQueue, Whole

LEMMA SteadyOfSteady ==
    ASSUME NEW k, NEW k1, NEW k2, Steady(k, k1), Steady(k1, k2)
    PROVE  Steady(k, k2)
BY DEF Steady, SameProbe

LEMMA SteadySelf == \A k : Steady(k, k)
BY DEF Steady, SameProbe

LEMMA SnIs == Sn \subseteq Nat /\ MaxWrites \in Nat
BY SenderAssumption DEF Sn

LEMMA WndIs == Wnd \subseteq Nat
<1>1. \A n \in Nat : 0..n \subseteq Nat
  OBVIOUS
<1> QED BY <1>1 DEF Wnd

\* The fields of a control block.
LEMMA BlockIs ==
    ASSUME NEW k \in ControlBlock
    PROVE  /\ k.snd_una \in Nat /\ k.snd_nxt \in Nat /\ k.nsnd_que \in Nat
           /\ k.snd_buf \in Buffer /\ DOMAIN k.snd_buf \subseteq Sn
           /\ \A sn \in DOMAIN k.snd_buf : k.snd_buf[sn] \in Segment
           /\ k.rmt_wnd \in Wnd /\ k.rmt_wnd \in Nat /\ k.cwnd \in Nat /\ k.ssthresh \in Nat /\ k.incr \in Nat
           /\ k.rx_srtt \in Nat /\ k.rx_rttval \in Nat /\ k.rx_rto \in 1..RtoMax
           /\ k.current \in Time /\ k.updated \in BOOLEAN /\ k.ts_flush \in Time
           /\ k.ts_probe \in Time /\ k.probe_wait \in 0..ProbeLimit
<1>1. k.snd_buf \in Buffer
  BY DEF ControlBlock
<1>2. DOMAIN k.snd_buf \subseteq Sn /\ \A sn \in DOMAIN k.snd_buf : k.snd_buf[sn] \in Segment
  BY <1>1 DEF Buffer
<1>3. k.snd_una \in Nat /\ k.snd_nxt \in Nat /\ k.nsnd_que \in Nat
  BY DEF ControlBlock
<1>4. k.rmt_wnd \in Wnd /\ k.cwnd \in Nat /\ k.ssthresh \in Nat /\ k.incr \in Nat
  BY DEF ControlBlock
<1>5. k.rx_srtt \in Nat /\ k.rx_rttval \in Nat /\ k.rx_rto \in 1..RtoMax
  BY DEF ControlBlock
<1>6. k.current \in Time /\ k.updated \in BOOLEAN /\ k.ts_flush \in Time
  BY DEF ControlBlock
<1>7. k.ts_probe \in Time /\ k.probe_wait \in 0..ProbeLimit
  BY DEF ControlBlock
<1> QED BY WndIs, <1>1, <1>2, <1>3, <1>4, <1>5, <1>6, <1>7

\* A function from some numbers to segments is a snd_buf.
LEMMA BufferMade ==
    ASSUME NEW D \in SUBSET Sn, NEW b \in [D -> Segment]
    PROVE  b \in Buffer
BY DEF Buffer

\* The fields that the lemmas below say nothing of change as they may.
WithBuffer(k, b, una) == [k EXCEPT !.snd_buf = b, !.snd_una = una]

LEMMA BlockMade ==
    ASSUME NEW k \in ControlBlock, NEW b \in Buffer, NEW una \in Nat,
           NEW k1, k1 = WithBuffer(k, b, una)
    PROVE  /\ k1 \in ControlBlock
           /\ SameClock(k, k1) /\ SameQueue(k, k1)
           /\ k1.snd_buf = b /\ k1.rx_srtt = k.rx_srtt /\ k1.rx_rto = k.rx_rto
           /\ SameProbe(k, k1) /\ k1.cwnd = k.cwnd /\ k1.rmt_wnd = k.rmt_wnd /\ k1.snd_una = una
<1>1. k1 \in ControlBlock
  BY DEF ControlBlock, WithBuffer
<1>2. k1.current = k.current /\ k1.updated = k.updated /\ k1.ts_flush = k.ts_flush
  BY DEF ControlBlock, WithBuffer
<1>3. k1.snd_nxt = k.snd_nxt /\ k1.nsnd_que = k.nsnd_que
  BY DEF ControlBlock, WithBuffer
<1>4. k1.snd_buf = b /\ k1.rx_srtt = k.rx_srtt /\ k1.rx_rto = k.rx_rto
  BY DEF ControlBlock, WithBuffer
<1>5. k1.ts_probe = k.ts_probe /\ k1.probe_wait = k.probe_wait
  BY DEF ControlBlock, WithBuffer
<1>6. k1.cwnd = k.cwnd /\ k1.rmt_wnd = k.rmt_wnd /\ k1.snd_una = una
  BY DEF ControlBlock, WithBuffer
<1> QED BY <1>1, <1>2, <1>3, <1>4, <1>5, <1>6 DEF SameClock, SameQueue, SameProbe

-----------------------------------------------------------------------------
(* ikcp_input *)

\* What taking in ACKs leaves: fewer segments, unchanged.
Fewer(k, k1) ==
    /\ Sound(k1)
    /\ SameClock(k, k1) /\ SameQueue(k, k1)
    /\ DOMAIN k1.snd_buf \subseteq DOMAIN k.snd_buf
    /\ \A sn \in DOMAIN k1.snd_buf : k1.snd_buf[sn] = k.snd_buf[sn]
    /\ Steady(k, k1)

\* Taking in ACKs twice is taking in ACKs.
LEMMA FewerOfFewer ==
    ASSUME NEW k, NEW k1, NEW k2, Fewer(k, k1), Fewer(k1, k2)
    PROVE  Fewer(k, k2)
<1>1. Steady(k, k2)
  BY SteadyOfSteady DEF Fewer
<1> QED BY <1>1 DEF Fewer, SameClock, SameQueue

LEMMA FewerSelf ==
    ASSUME NEW k, Sound(k)
    PROVE  Fewer(k, k)
BY SteadySelf DEF Fewer, SameClock, SameQueue

\* Acknowledged segments leave snd_buf, and no others.
LEMMA ForgetIs ==
    ASSUME NEW k, Sound(k), NEW sns
    PROVE  Fewer(k, Forget(k, sns)) /\ Forget(k, sns).rx_srtt = k.rx_srtt
<1> DEFINE left == DOMAIN k.snd_buf \ sns
           b == Restrict(k.snd_buf, left)
           una == IF left = {} THEN k.snd_nxt ELSE Min(left)
           k1 == [k EXCEPT !.snd_buf = b, !.snd_una = una]
<1>1. k \in ControlBlock
  BY DEF Sound
<1>2. left \subseteq Sn /\ left \subseteq Nat /\ \A sn \in left : k.snd_buf[sn] \in Segment
  BY <1>1, BlockIs, SnIs
<1>3. b \in Buffer /\ DOMAIN b = left /\ \A sn \in left : b[sn] = k.snd_buf[sn]
  <2>1. b \in [left -> Segment]
    BY <1>2 DEF Restrict
  <2> QED BY <1>2, <2>1, BufferMade DEF Restrict
<1>4. una \in Nat
  <2>1. left # {} => Min(left) \in left
    <3> HIDE DEF left
    <3> QED BY <1>2, MinIs
  <2>2. k.snd_nxt \in Nat
    BY <1>1, BlockIs
  <2> QED BY <1>2, <2>1, <2>2
<1>u. left = {} => una = k.snd_nxt
  OBVIOUS
<1>5. Forget(k, sns) = k1
  BY DEF Forget, ControlBlock
<1>c. k1 = WithBuffer(k, b, una)
  BY DEF WithBuffer
<1> HIDE DEF b, una, k1
<1>6. /\ k1 \in ControlBlock /\ SameClock(k, k1) /\ SameQueue(k, k1)
      /\ k1.snd_buf = b /\ k1.rx_srtt = k.rx_srtt /\ k1.rx_rto = k.rx_rto
      /\ SameProbe(k, k1) /\ k1.cwnd = k.cwnd /\ k1.rmt_wnd = k.rmt_wnd /\ k1.snd_una = una
  BY <1>1, <1>3, <1>4, <1>c, BlockMade
<1>s. Steady(k, k1)
  <2>1. Whole(k1)
    BY <1>3, <1>6, <1>u DEF Whole, SameQueue
  <2> HIDE DEF k1
  <2> QED BY <1>6, <2>1 DEF Steady
<1>7. Fewer(k, k1)
  <2> HIDE DEF k1
  <2> QED BY <1>3, <1>6, <1>s DEF Fewer, Sound
<1> QED BY <1>5, <1>6, <1>7

\* A sample of the round trip changes only the estimates.
WithEstimates(k, a, b, c) == [k EXCEPT !.rx_srtt = a, !.rx_rttval = b, !.rx_rto = c]

LEMMA EstimatesMade ==
    ASSUME NEW k \in ControlBlock, NEW a \in Nat, NEW b \in Nat, NEW c \in 1..RtoMax,
           NEW k1, k1 = WithEstimates(k, a, b, c)
    PROVE  /\ k1 \in ControlBlock
           /\ SameClock(k, k1) /\ SameQueue(k, k1)
           /\ k1.snd_buf = k.snd_buf /\ k1.rx_srtt = a /\ k1.rx_rto = c
           /\ SameProbe(k, k1) /\ SameWindows(k, k1)
<1>1. k1 \in ControlBlock
  BY DEF ControlBlock, WithEstimates
<1>2. k1.current = k.current /\ k1.updated = k.updated /\ k1.ts_flush = k.ts_flush
  BY DEF ControlBlock, WithEstimates
<1>3. k1.snd_nxt = k.snd_nxt /\ k1.nsnd_que = k.nsnd_que
  BY DEF ControlBlock, WithEstimates
<1>4. k1.snd_buf = k.snd_buf /\ k1.rx_srtt = a /\ k1.rx_rto = c
  BY DEF ControlBlock, WithEstimates
<1>5. k1.ts_probe = k.ts_probe /\ k1.probe_wait = k.probe_wait
  BY DEF ControlBlock, WithEstimates
<1>6. k1.cwnd = k.cwnd /\ k1.rmt_wnd = k.rmt_wnd /\ k1.snd_una = k.snd_una
  BY DEF ControlBlock, WithEstimates
<1> QED BY <1>1, <1>2, <1>3, <1>4, <1>5, <1>6 DEF SameClock, SameQueue, SameProbe, SameWindows

\* The mean of seven parts of one number and one of another.
LEMMA MeanIs ==
    ASSUME NEW a \in Nat, NEW r \in Nat, NEW m \in Nat, a <= m, r <= m
    PROVE  (7 * a + r) \div 8 \in Nat /\ (7 * a + r) \div 8 <= m
OBVIOUS

\* The estimate is no longer than the longest sample.
LEMMA UpdateAckIs ==
    ASSUME use \in Uses, NEW k, Sound(k), NEW rtt \in Nat,
           NEW m \in Nat, m >= 1, k.rx_srtt <= m, rtt <= m
    PROVE  Fewer(k, UpdateAck(k, rtt)) /\ UpdateAck(k, rtt).rx_srtt <= m
<1> DEFINE first == k.rx_srtt = 0
           mean == (7 * k.rx_srtt + rtt) \div 8
           srtt == IF first THEN rtt ELSE Max({1, mean})
           delta == Max({rtt - k.rx_srtt, k.rx_srtt - rtt})
           rttval == IF first THEN rtt \div 2 ELSE (3 * k.rx_rttval + delta) \div 4
           rto == srtt + Max({Interval, 4 * rttval})
           top == Max({Config.rx_minrto, rto})
           c == Min({top, RtoMax})
           k1 == [k EXCEPT !.rx_srtt = srtt, !.rx_rttval = rttval, !.rx_rto = c]
<1>1. k \in ControlBlock /\ k.rx_srtt \in Nat /\ k.rx_rttval \in Nat
  BY BlockIs DEF Sound
<1>2. mean \in Nat /\ mean <= m
  BY <1>1, MeanIs
<1>3. srtt \in Nat /\ srtt <= m
  <2>1. mean \in Int
    BY <1>2
  <2> HIDE DEF mean
  <2>2. Max({1, mean}) \in {1, mean}
    BY <2>1, MaxOfTwo
  <2> QED BY <1>2, <2>2
<1>4. delta \in Nat
  <2> DEFINE p == rtt - k.rx_srtt
             q == k.rx_srtt - rtt
  <2>1. p \in Int /\ q \in Int /\ (p >= 0 \/ q >= 0)
    BY <1>1
  <2>2. Max({p, q}) \in Int /\ Max({p, q}) >= 0
    <3> HIDE DEF p, q
    <3> QED BY <2>1, MaxOfTwo
  <2> QED BY <2>2
<1>5. rttval \in Nat
  <2> HIDE DEF delta
  <2>1. rtt \div 2 \in Nat /\ (3 * k.rx_rttval + delta) \div 4 \in Nat
    BY <1>1, <1>4
  <2> QED BY <2>1
<1>6. rto \in Nat
  <2> DEFINE v == 4 * rttval
  <2>1. v \in Int /\ Interval \in Nat /\ v >= 0
    <3> HIDE DEF rttval
    <3> QED BY <1>5, ConfigIs
  <2>2. Max({Interval, v}) \in Nat
    <3> HIDE DEF v
    <3> QED BY <2>1, MaxOfTwo
  <2> HIDE DEF srtt, v
  <2> QED BY <1>3, <2>2 DEF v
<1>7. c \in 1..RtoMax /\ c >= Config.rx_minrto
  <2>1. /\ Config.rx_minrto \in Nat /\ Config.rx_minrto >= 1 /\ Config.rx_minrto <= RtoDef
        /\ RtoDef <= RtoMax /\ RtoDef \in Nat /\ RtoMax \in Nat
    BY ConfigIs, SenderAssumption
  <2>2. top \in Nat /\ top >= Config.rx_minrto
    <3> DEFINE lo == Config.rx_minrto
    <3>1. lo \in Nat
      BY <2>1
    <3> HIDE DEF rto, lo
    <3>2. Max({lo, rto}) \in {lo, rto} /\ Max({lo, rto}) >= lo
      BY <1>6, <3>1, MaxOfTwo
    <3>3. Max({lo, rto}) \in Nat /\ Max({lo, rto}) >= lo
      BY <1>6, <3>1, <3>2
    <3> QED BY <3>3 DEF lo
  <2> HIDE DEF top
  <2>3. c \in {top, RtoMax} /\ c <= RtoMax
    BY <2>1, <2>2, MinOfTwo
  <2> QED BY <2>1, <2>2, <2>3
<1>8. UpdateAck(k, rtt) = k1
  BY DEF UpdateAck
<1>k. k1 = WithEstimates(k, srtt, rttval, c)
  BY DEF WithEstimates
<1>l. k \in ControlBlock /\ srtt \in Nat /\ rttval \in Nat /\ c \in 1..RtoMax
  BY <1>1, <1>3, <1>5, <1>7
<1> HIDE DEF first, mean, srtt, delta, rttval, rto, top, c, k1
<1>9. /\ k1 \in ControlBlock /\ SameClock(k, k1) /\ SameQueue(k, k1)
      /\ k1.snd_buf = k.snd_buf /\ k1.rx_srtt = srtt /\ k1.rx_rto = c
      /\ SameProbe(k, k1) /\ SameWindows(k, k1)
  <2> DEFINE made == WithEstimates(k, srtt, rttval, c)
  <2>1. /\ made \in ControlBlock /\ SameClock(k, made) /\ SameQueue(k, made)
        /\ made.snd_buf = k.snd_buf /\ made.rx_srtt = srtt /\ made.rx_rto = c
        /\ SameProbe(k, made) /\ SameWindows(k, made)
    BY <1>l, EstimatesMade
  <2> HIDE DEF made
  <2> QED BY <1>k, <2>1 DEF made
<1>s. Steady(k, k1)
  <2> HIDE DEF k1
  <2> QED BY <1>9, SteadySame
<1>10. Fewer(k, k1)
  <2> HIDE DEF k1
  <2> QED BY <1>7, <1>9, <1>s DEF Fewer, Sound
<1> QED BY <1>3, <1>8, <1>9, <1>10

\* The acknowledgements of a datagram, each of the time of its transmission.
Ack == [sn : Sn, ts : Time]

\* An ACK gives a sample only of the past, and takes its segment out.
LEMMA ParseAckIs ==
    ASSUME use \in Uses, NEW k, Sound(k), NEW ack \in Ack,
           NEW m \in Nat, m >= 1, k.rx_srtt <= m, Diff(k.current, ack.ts) <= m
    PROVE  Fewer(k, ParseAck(k, ack)) /\ ParseAck(k, ack).rx_srtt <= m
<1> DEFINE rtt == Diff(k.current, ack.ts)
           k1 == IF rtt >= 0 THEN UpdateAck(k, rtt) ELSE k
           gone == {ack.sn}
<1>1. rtt \in Int
  <2>1. k.current \in Time /\ ack.ts \in Time
    BY BlockIs DEF Sound, Ack
  <2> QED BY <2>1, DiffIs
<1>2. rtt <= m
  OBVIOUS
<1>3. ParseAck(k, ack) = Forget(k1, gone)
  BY DEF ParseAck
<1> HIDE DEF rtt, gone
<1>4. Fewer(k, k1) /\ k1.rx_srtt <= m
  <2>1. CASE rtt >= 0
    <3>1. rtt \in Nat
      BY <1>1, <2>1
    <3>2. Fewer(k, UpdateAck(k, rtt)) /\ UpdateAck(k, rtt).rx_srtt <= m
      BY <1>2, <3>1, UpdateAckIs
    <3> QED BY <2>1, <3>2
  <2>2. CASE ~ (rtt >= 0)
    BY <2>2, FewerSelf
  <2> QED BY <2>1, <2>2
<1> HIDE DEF k1
<1>5. Fewer(k1, Forget(k1, gone)) /\ Forget(k1, gone).rx_srtt = k1.rx_srtt
  BY <1>4, ForgetIs DEF Fewer
<1> QED BY <1>3, <1>4, <1>5, FewerOfFewer

\* So do all ACKs of a datagram.
LEMMA ParseAcksIs ==
    ASSUME use \in Uses, NEW k, Sound(k), NEW n \in Nat, NEW acks \in [1..n -> Ack], Len(acks) = n,
           NEW m \in Nat, m >= 1, k.rx_srtt <= m,
           \A i \in 1..n : Diff(k.current, acks[i].ts) <= m
    PROVE  Fewer(k, ParseAcks(k, acks)) /\ ParseAcks(k, acks).rx_srtt <= m
<1> DEFINE S == {k1 \in ControlBlock : Fewer(k, k1) /\ k1.rx_srtt <= m}
           g == [i \in 1..n |-> [k1 \in S |-> ParseAck(k1, acks[i])]]
           Is(f) == f = [i \in 0..n |-> IF i = 0 THEN k ELSE ParseAck(f[i - 1], acks[i])]
           after == CHOOSE f : Is(f)
<1>1. k \in S
  BY FewerSelf DEF Sound
<1>2. ASSUME NEW i \in 1..n, NEW k1 \in S PROVE ParseAck(k1, acks[i]) \in S
  <2>1. Fewer(k, k1) /\ Sound(k1) /\ k1.rx_srtt <= m /\ k1.current = k.current
    BY DEF Fewer, SameClock
  <2>2. acks[i] \in Ack /\ Diff(k1.current, acks[i].ts) <= m
    BY <2>1
  <2>3. Fewer(k1, ParseAck(k1, acks[i])) /\ ParseAck(k1, acks[i]).rx_srtt <= m
    BY <2>1, <2>2, ParseAckIs
  <2>4. Fewer(k, ParseAck(k1, acks[i]))
    BY <2>1, <2>3, FewerOfFewer
  <2> QED BY <2>3, <2>4 DEF Fewer, Sound
<1>3. g \in Steps(n, S)
  <2> HIDE DEF S
  <2> QED BY <1>2 DEF Steps
<1>4. PICK f : ByRecursion(f, S, k, n, g)
  <2> HIDE DEF g, S
  <2> QED BY <1>1, <1>3, Recursion
<1>5. f \in [0..n -> S] /\ f[0] = k /\ \A i \in 1..n : f[i] = g[i][f[i - 1]]
  <2> HIDE DEF g, S
  <2> QED BY <1>4 DEF ByRecursion
<1>6. \A i \in 1..n : f[i] = ParseAck(f[i - 1], acks[i])
  <2> TAKE i \in 1..n
  <2>1. f[i - 1] \in S
    <3> HIDE DEF S
    <3> QED BY <1>5
  <2>2. f[i] = g[i][f[i - 1]]
    <3> HIDE DEF g
    <3> QED BY <1>5
  <2> HIDE DEF S
  <2> QED BY <2>1, <2>2
<1>7. Is(f)
  <2>1. \A i \in 0..n : f[i] = IF i = 0 THEN k ELSE ParseAck(f[i - 1], acks[i])
    <3>1. \A i \in 0..n : i # 0 => i \in 1..n
      OBVIOUS
    <3> HIDE DEF g, S
    <3> QED BY <1>5, <1>6, <3>1
  <2> HIDE DEF g, S
  <2> QED BY <1>5, <2>1
<1>8. Is(after)
  <2> HIDE DEF Is
  <2> QED BY <1>7
<1>9. ParseAcks(k, acks) = after[n]
  BY DEF ParseAcks
<1> HIDE DEF after
<1> DEFINE Good == {i \in Nat : i <= n => after[i] \in S}
<1>10. 0 \in Good
  <2>1. after[0] = k
    BY <1>8
  <2> HIDE DEF S
  <2> QED BY <1>1, <2>1
<1>11. ASSUME NEW i \in Nat, i \in Good PROVE i + 1 \in Good
  <2> SUFFICES ASSUME i + 1 <= n PROVE after[i + 1] \in S
    OBVIOUS
  <2>1. i + 1 \in 1..n /\ i + 1 \in 0..n /\ (i + 1) - 1 = i /\ i + 1 # 0
    OBVIOUS
  <2>2. after[i + 1] = ParseAck(after[i], acks[i + 1])
    BY <1>8, <2>1
  <2>3. after[i] \in S
    BY <1>11
  <2> HIDE DEF S
  <2> QED BY <1>2, <2>1, <2>2, <2>3
<1>12. Nat \subseteq Good
  <2> HIDE DEF Good
  <2> QED BY <1>10, <1>11, NatStep
<1>13. after[n] \in S
  <2> HIDE DEF S
  <2> QED BY <1>12
<1> QED BY <1>9, <1>13

\* The ACK that counts is one of the datagram.
LEMMA LatestIs ==
    ASSUME NEW n \in Nat \ {0}, NEW acks \in [1..n -> Ack], Len(acks) = n
    PROVE  \E i \in 1..n : Latest(acks) = acks[i]
<1> DEFINE S == {acks[i] : i \in 1..n}
           g == [i \in 1..n |-> [x \in S |-> Later(x, acks[i])]]
           Is(f) == f = [i \in 0..n |-> IF i = 0 THEN acks[1] ELSE Later(f[i - 1], acks[i])]
           max == CHOOSE f : Is(f)
<1>1. acks[1] \in S
  OBVIOUS
<1>2. ASSUME NEW i \in 1..n, NEW x \in S PROVE Later(x, acks[i]) \in S
  <2>1. acks[i] \in S
    OBVIOUS
  <2> HIDE DEF S
  <2> QED BY <2>1 DEF Later
<1>3. g \in Steps(n, S)
  <2> HIDE DEF S
  <2> QED BY <1>2 DEF Steps
<1>4. PICK f : ByRecursion(f, S, acks[1], n, g)
  <2> DEFINE a == acks[1]
  <2>1. a \in S
    BY <1>1
  <2> HIDE DEF g, S, a
  <2>2. \E f : ByRecursion(f, S, a, n, g)
    BY <2>1, <1>3, Recursion
  <2> QED BY <2>2 DEF a
<1>5. f \in [0..n -> S] /\ f[0] = acks[1] /\ \A i \in 1..n : f[i] = g[i][f[i - 1]]
  <2> HIDE DEF g, S
  <2> QED BY <1>4 DEF ByRecursion
<1>6. \A i \in 1..n : f[i] = Later(f[i - 1], acks[i])
  <2> TAKE i \in 1..n
  <2>1. f[i - 1] \in S
    <3> HIDE DEF S
    <3> QED BY <1>5
  <2>2. f[i] = g[i][f[i - 1]]
    <3> HIDE DEF g
    <3> QED BY <1>5
  <2> HIDE DEF S
  <2> QED BY <2>1, <2>2
<1>7. Is(f)
  <2>1. \A i \in 0..n : f[i] = IF i = 0 THEN acks[1] ELSE Later(f[i - 1], acks[i])
    <3>1. \A i \in 0..n : i # 0 => i \in 1..n
      OBVIOUS
    <3> HIDE DEF g, S
    <3> QED BY <1>5, <1>6, <3>1
  <2> HIDE DEF g, S
  <2> QED BY <1>5, <2>1
<1>8. Is(max)
  <2> HIDE DEF Is
  <2> QED BY <1>7
<1>9. Latest(acks) = max[n]
  BY DEF Latest
<1> HIDE DEF max
<1> DEFINE Good == {i \in Nat : i <= n => max[i] \in S}
<1>10. 0 \in Good
  <2>1. max[0] = acks[1]
    BY <1>8
  <2> HIDE DEF S
  <2> QED BY <1>1, <2>1
<1>11. ASSUME NEW i \in Nat, i \in Good PROVE i + 1 \in Good
  <2> SUFFICES ASSUME i + 1 <= n PROVE max[i + 1] \in S
    OBVIOUS
  <2>1. i + 1 \in 1..n /\ i + 1 \in 0..n /\ (i + 1) - 1 = i /\ i + 1 # 0
    OBVIOUS
  <2>2. max[i + 1] = Later(max[i], acks[i + 1])
    BY <1>8, <2>1
  <2>3. max[i] \in S
    BY <1>11
  <2> HIDE DEF S
  <2> QED BY <1>2, <2>1, <2>2, <2>3
<1>12. Nat \subseteq Good
  <2> HIDE DEF Good
  <2> QED BY <1>10, <1>11, NatStep
<1>13. max[n] \in S
  <2> HIDE DEF S
  <2> QED BY <1>12
<1> QED BY <1>9, <1>13

\* The fields of a segment but for fastack.
SameSegment(seg, seg1) ==
    /\ seg1.ts = seg.ts /\ seg1.resendts = seg.resendts
    /\ seg1.rto = seg.rto /\ seg1.xmit = seg.xmit

\* A segment of number sn after a datagram of n ACKs: at most one of them counts
\* against it, and only one of a later segment that was not sent before it.
Marked(sn, seg, seg1, n, acks) ==
    /\ SameSegment(seg, seg1)
    /\ \/ seg1.fastack = seg.fastack
       \/ /\ seg1.fastack = seg.fastack + 1
          /\ \E i \in 1..n : sn < acks[i].sn /\ Diff(acks[i].ts, seg.ts) >= 0

\* What the ACKs and the window of a datagram leave.
Taken(k, k1, n, acks) ==
    /\ Sound(k1)
    /\ SameClock(k, k1) /\ SameQueue(k, k1)
    /\ DOMAIN k1.snd_buf \subseteq DOMAIN k.snd_buf
    /\ \A sn \in DOMAIN k1.snd_buf : Marked(sn, k.snd_buf[sn], k1.snd_buf[sn], n, acks)
    /\ Steady(k, k1)

\* Counting one ACK more against a segment.
LEMMA FastackMade ==
    ASSUME NEW seg \in Segment
    PROVE  LET seg1 == [seg EXCEPT !.fastack = @ + 1]
           IN  seg1 \in Segment /\ SameSegment(seg, seg1) /\ seg1.fastack = seg.fastack + 1
BY DEF Segment, SameSegment

WithSegments(k, b) == [k EXCEPT !.snd_buf = b]

LEMMA SegmentsMade ==
    ASSUME NEW k \in ControlBlock, NEW b \in Buffer,
           NEW k1, k1 = WithSegments(k, b)
    PROVE  /\ k1 \in ControlBlock
           /\ SameClock(k, k1) /\ SameQueue(k, k1)
           /\ k1.snd_buf = b /\ k1.rx_srtt = k.rx_srtt /\ k1.rx_rto = k.rx_rto
           /\ SameProbe(k, k1) /\ SameWindows(k, k1)
<1>1. k1 \in ControlBlock
  BY DEF ControlBlock, WithSegments
<1>2. k1.current = k.current /\ k1.updated = k.updated /\ k1.ts_flush = k.ts_flush
  BY DEF ControlBlock, WithSegments
<1>3. k1.snd_nxt = k.snd_nxt /\ k1.nsnd_que = k.nsnd_que
  BY DEF ControlBlock, WithSegments
<1>4. k1.snd_buf = b /\ k1.rx_srtt = k.rx_srtt /\ k1.rx_rto = k.rx_rto
  BY DEF ControlBlock, WithSegments
<1>5. k1.ts_probe = k.ts_probe /\ k1.probe_wait = k.probe_wait
  BY DEF ControlBlock, WithSegments
<1>6. k1.cwnd = k.cwnd /\ k1.rmt_wnd = k.rmt_wnd /\ k1.snd_una = k.snd_una
  BY DEF ControlBlock, WithSegments
<1> QED BY <1>1, <1>2, <1>3, <1>4, <1>5, <1>6 DEF SameClock, SameQueue, SameProbe, SameWindows

\* The ACK that counts, counts once, against earlier segments sent no later.
LEMMA ParseFastackIs ==
    ASSUME NEW k, Sound(k), NEW n \in Nat, NEW acks, NEW i \in 1..n, NEW ack, ack = acks[i]
    PROVE  /\ Taken(k, ParseFastack(k, ack), n, acks)
           /\ ParseFastack(k, ack).rx_srtt = k.rx_srtt
<1>1. k \in ControlBlock /\ DOMAIN k.snd_buf \subseteq Sn
      /\ \A sn \in DOMAIN k.snd_buf : k.snd_buf[sn] \in Segment
  BY BlockIs DEF Sound
<1>2. CASE ack.sn < k.snd_una
  BY <1>2, SteadySelf DEF ParseFastack, Taken, SameClock, SameQueue, Marked, SameSegment
<1>3. CASE ~ (ack.sn < k.snd_una)
  <2> DEFINE D == DOMAIN k.snd_buf
             b == [sn \in D |-> IF sn < ack.sn /\ Diff(ack.ts, k.snd_buf[sn].ts) >= 0
                                THEN [k.snd_buf[sn] EXCEPT !.fastack = @ + 1]
                                ELSE k.snd_buf[sn]]
             k1 == WithSegments(k, b)
  <2>1. ParseFastack(k, ack) = k1
    BY <1>3 DEF ParseFastack, WithSegments
  <2>2. ASSUME NEW sn \in D
        PROVE  b[sn] \in Segment /\ Marked(sn, k.snd_buf[sn], b[sn], n, acks)
    <3> DEFINE seg == k.snd_buf[sn]
               seg1 == [seg EXCEPT !.fastack = @ + 1]
    <3>1. seg \in Segment
      BY <1>1
    <3>2. seg1 \in Segment /\ SameSegment(seg, seg1) /\ seg1.fastack = seg.fastack + 1
      <4> HIDE DEF seg
      <4> QED BY <3>1, FastackMade
    <3>3. b[sn] = IF sn < ack.sn /\ Diff(ack.ts, seg.ts) >= 0 THEN seg1 ELSE seg
      OBVIOUS
    <3>4. SameSegment(seg, seg)
      BY DEF SameSegment
    <3> HIDE DEF seg, seg1, b
    <3>5. Marked(sn, seg, b[sn], n, acks) /\ b[sn] \in Segment
      BY <3>1, <3>2, <3>3, <3>4 DEF Marked
    <3> QED BY <3>5 DEF seg
  <2>3. b \in Buffer
    <3>1. b \in [D -> Segment] /\ D \subseteq Sn
      BY <1>1, <2>2
    <3> HIDE DEF D, b
    <3> QED BY <3>1, BufferMade
  <2>4. DOMAIN b = D
    OBVIOUS
  <2> HIDE DEF b
  <2>5. /\ k1 \in ControlBlock /\ SameClock(k, k1) /\ SameQueue(k, k1)
        /\ k1.snd_buf = b /\ k1.rx_srtt = k.rx_srtt /\ k1.rx_rto = k.rx_rto
        /\ SameProbe(k, k1) /\ SameWindows(k, k1)
    BY <1>1, <2>3, SegmentsMade
  <2> HIDE DEF k1
  <2>6. Steady(k, k1)
    BY <2>4, <2>5, SteadySame
  <2> QED BY <2>1, <2>2, <2>4, <2>5, <2>6 DEF Taken, Sound
<1> QED BY <1>2, <1>3

\* What the congestion window's bookkeeping changes is only that.
Congestion(k, k1) ==
    /\ k1 \in ControlBlock
    /\ SameClock(k, k1) /\ SameQueue(k, k1)
    /\ k1.snd_buf = k.snd_buf /\ k1.rx_srtt = k.rx_srtt /\ k1.rx_rto = k.rx_rto

LEMMA CongestionOfBoth ==
    ASSUME NEW k, NEW k1, NEW k2, Congestion(k, k1), Congestion(k1, k2)
    PROVE  Congestion(k, k2)
BY DEF Congestion, SameClock, SameQueue

LEMMA CongestionSelf ==
    ASSUME NEW k \in ControlBlock
    PROVE  Congestion(k, k)
BY DEF Congestion, SameClock, SameQueue

WithCwnd(k, c, i) == [k EXCEPT !.cwnd = c, !.incr = i]

LEMMA CwndMade ==
    ASSUME NEW k \in ControlBlock, NEW c \in Nat, NEW i \in Nat,
           NEW k1, k1 = WithCwnd(k, c, i)
    PROVE  /\ Congestion(k, k1)
           /\ SameProbe(k, k1) /\ k1.cwnd = c /\ k1.rmt_wnd = k.rmt_wnd /\ k1.snd_una = k.snd_una
<1>1. k1 \in ControlBlock
  BY DEF ControlBlock, WithCwnd
<1>2. k1.current = k.current /\ k1.updated = k.updated /\ k1.ts_flush = k.ts_flush
  BY DEF ControlBlock, WithCwnd
<1>3. k1.snd_nxt = k.snd_nxt /\ k1.nsnd_que = k.nsnd_que
  BY DEF ControlBlock, WithCwnd
<1>4. k1.snd_buf = k.snd_buf /\ k1.rx_srtt = k.rx_srtt /\ k1.rx_rto = k.rx_rto
  BY DEF ControlBlock, WithCwnd
<1>5. k1.ts_probe = k.ts_probe /\ k1.probe_wait = k.probe_wait
  BY DEF ControlBlock, WithCwnd
<1>6. k1.cwnd = c /\ k1.rmt_wnd = k.rmt_wnd /\ k1.snd_una = k.snd_una
  BY DEF ControlBlock, WithCwnd
<1> QED BY <1>1, <1>2, <1>3, <1>4, <1>5, <1>6 DEF Congestion, SameClock, SameQueue, SameProbe

\* The congestion window grows; nothing else does.
LEMMA GrownIs ==
    ASSUME use \in Uses, NEW k \in ControlBlock
    PROVE  Congestion(k, Grown(k)) /\ Steady(k, Grown(k))
<1> DEFINE mss == Config.mss
           base == Max({k.incr, mss})
           incr == base + (mss * mss) \div base + mss \div 16
           slow == k.cwnd < k.ssthresh
           cwnd == IF slow THEN k.cwnd + 1
                   ELSE IF (k.cwnd + 1) * mss <= incr THEN (incr + mss - 1) \div mss
                   ELSE k.cwnd
           last == IF slow THEN k.incr + mss ELSE incr
           full == k.rmt_wnd * mss
<1>1. /\ mss = 1376 /\ k.incr \in Nat /\ k.cwnd \in Nat /\ k.ssthresh \in Nat
      /\ k.rmt_wnd \in Nat
  BY ConfigIs, BlockIs
<1>2. incr \in Nat
  <2>1. base \in Nat /\ base > 0
    <3> DEFINE a == k.incr
               b == mss
    <3>1. a \in Int /\ b \in Int /\ a >= 0 /\ b > 0
      BY <1>1
    <3>2. Max({a, b}) \in Int /\ Max({a, b}) >= b
      <4> HIDE DEF a, b
      <4> QED BY <3>1, MaxOfTwo
    <3> QED BY <3>1, <3>2
  <2> HIDE DEF base
  <2>2. mss * mss \in Nat /\ mss \div 16 \in Nat
    BY <1>1
  <2>3. (mss * mss) \div base \in Nat
    <3> DEFINE sq == mss * mss
    <3>1. sq \in Nat
      BY <2>2
    <3> HIDE DEF sq
    <3>2. sq \div base \in Nat
      BY <2>1, <3>1, Quotient
    <3> QED BY <3>2 DEF sq
  <2> DEFINE p == (mss * mss) \div base
             q == mss \div 16
  <2>4. p \in Nat /\ q \in Nat
    BY <2>2, <2>3
  <2> HIDE DEF p, q
  <2>5. base + p + q \in Nat
    BY <2>1, <2>4
  <2> QED BY <2>5 DEF p, q
<1> HIDE DEF incr
<1>3. cwnd \in Nat /\ last \in Nat /\ (k.cwnd >= 1 => cwnd >= 1)
  <2> DEFINE more == (incr + mss - 1) \div mss
  <2>1. more \in Nat /\ (incr >= 1 => more >= 1)
    BY <1>1, <1>2
  <2>2. (k.cwnd + 1) * mss <= incr => incr >= 1
    BY <1>1, <1>2
  <2> HIDE DEF more
  <2>3. cwnd = IF slow THEN k.cwnd + 1 ELSE IF (k.cwnd + 1) * mss <= incr THEN more ELSE k.cwnd
    BY DEF more
  <2>4. last \in Nat
    BY <1>1, <1>2
  <2> HIDE DEF cwnd, last
  <2> QED BY <1>1, <2>1, <2>2, <2>3, <2>4
<1>4. full \in Nat
  BY <1>1
<1>5. Grown(k) = IF k.cwnd >= k.rmt_wnd THEN k
                 ELSE IF cwnd > k.rmt_wnd THEN WithCwnd(k, k.rmt_wnd, full)
                 ELSE WithCwnd(k, cwnd, last)
  BY DEF Grown, WithCwnd, incr
<1> HIDE DEF cwnd, last, full
<1>6. Congestion(k, WithCwnd(k, k.rmt_wnd, full)) /\ Congestion(k, WithCwnd(k, cwnd, last))
  BY <1>1, <1>3, <1>4, CwndMade
<1>7. Congestion(k, Grown(k))
  BY <1>5, <1>6, CongestionSelf
<1>8. ASSUME NEW c \in Nat, NEW i \in Nat, k.cwnd >= 1 => c >= 1
      PROVE  Steady(k, WithCwnd(k, c, i))
  <2> DEFINE k1 == WithCwnd(k, c, i)
  <2>1. /\ Congestion(k, k1) /\ SameProbe(k, k1)
        /\ k1.cwnd = c /\ k1.snd_una = k.snd_una
    BY CwndMade
  <2> HIDE DEF k1
  <2>2. Steady(k, k1)
    BY <1>8, <2>1 DEF Congestion, Steady, SameQueue, Whole
  <2> QED BY <2>2 DEF k1
<1>9. CASE k.cwnd >= k.rmt_wnd
  BY <1>5, <1>7, <1>9, SteadySelf
<1>10. CASE ~ (k.cwnd >= k.rmt_wnd)
  <2>1. k.rmt_wnd >= 1
    BY <1>1, <1>10
  <2>2. Steady(k, WithCwnd(k, k.rmt_wnd, full)) /\ Steady(k, WithCwnd(k, cwnd, last))
    BY <1>1, <1>3, <1>4, <1>8, <2>1
  <2> QED BY <1>5, <1>7, <1>10, <2>2
<1> QED BY <1>7, <1>9, <1>10

WithWindow(k, wnd) == [k EXCEPT !.rmt_wnd = wnd]

LEMMA WindowMade ==
    ASSUME NEW k, Sound(k), NEW wnd \in Wnd,
           NEW k1, k1 = WithWindow(k, wnd)
    PROVE  Fewer(k, k1) /\ k1.rx_srtt = k.rx_srtt
<1> k \in ControlBlock
  BY DEF Sound
<1>1. k1 \in ControlBlock
  BY DEF ControlBlock, WithWindow
<1>2. k1.current = k.current /\ k1.updated = k.updated /\ k1.ts_flush = k.ts_flush
  BY DEF ControlBlock, WithWindow
<1>3. k1.snd_nxt = k.snd_nxt /\ k1.nsnd_que = k.nsnd_que
  BY DEF ControlBlock, WithWindow
<1>4. k1.snd_buf = k.snd_buf /\ k1.rx_srtt = k.rx_srtt /\ k1.rx_rto = k.rx_rto
  BY DEF ControlBlock, WithWindow
<1>5. k1.ts_probe = k.ts_probe /\ k1.probe_wait = k.probe_wait
  BY DEF ControlBlock, WithWindow
<1>6. k1.cwnd = k.cwnd /\ k1.snd_una = k.snd_una
  BY DEF ControlBlock, WithWindow
<1>7. Steady(k, k1)
  BY <1>3, <1>4, <1>5, <1>6 DEF Steady, SameProbe, Whole
<1> QED BY <1>1, <1>2, <1>3, <1>4, <1>7 DEF Fewer, Sound, SameClock, SameQueue

\* A datagram of n ACKs.
LEMMA InputIs ==
    ASSUME use \in Uses, NEW k, Sound(k), NEW wnd \in Wnd, NEW una \in Nat,
           NEW n \in Nat, NEW acks \in Seq(Ack), Len(acks) = n,
           NEW m \in Nat, m >= 1, k.rx_srtt <= m,
           \A i \in 1..n : Diff(k.current, acks[i].ts) <= m
    PROVE  /\ Taken(k, Input(k, wnd, una, acks), n, acks)
           /\ Input(k, wnd, una, acks).rx_srtt <= m
<1> DEFINE k0 == WithWindow(k, wnd)
           k1 == Forget(k0, 0..(una - 1))
           k2 == ParseAcks(k1, acks)
           k3 == IF acks = <<>> THEN k2 ELSE ParseFastack(k2, Latest(acks))
           k4 == IF k3.snd_una > k.snd_una THEN Grown(k3) ELSE k3
<1>0. Input(k, wnd, una, acks) = k4
  BY DEF Input, ParseUna, WithWindow
<1>1. Fewer(k, k0) /\ k0.rx_srtt <= m
  BY WindowMade
<1> HIDE DEF k0
<1>2. Fewer(k, k1) /\ k1.rx_srtt <= m
  <2> DEFINE sns == 0..(una - 1)
  <2> HIDE DEF sns
  <2>1. Fewer(k0, Forget(k0, sns)) /\ Forget(k0, sns).rx_srtt = k0.rx_srtt
    BY <1>1, ForgetIs DEF Fewer
  <2>2. Fewer(k, Forget(k0, sns)) /\ Forget(k0, sns).rx_srtt <= m
    BY <1>1, <2>1, FewerOfFewer
  <2> QED BY <2>2 DEF sns
<1> HIDE DEF k1
<1>3. acks \in [1..n -> Ack]
  BY LenProperties
<1>4. Fewer(k, k2) /\ k2.rx_srtt <= m
  <2>1. Sound(k1) /\ k1.current = k.current
    BY <1>2 DEF Fewer, SameClock
  <2>2. Fewer(k1, k2) /\ k2.rx_srtt <= m
    BY <1>2, <1>3, <2>1, ParseAcksIs
  <2> QED BY <1>2, <2>2, FewerOfFewer
<1> HIDE DEF k2
<1>5. Taken(k, k3, n, acks) /\ k3.rx_srtt <= m
  <2>1. CASE acks = <<>>
    BY <1>4, <2>1 DEF Fewer, Taken, Marked, SameSegment
  <2>2. CASE acks # <<>>
    <3>1. n \in Nat \ {0}
      BY <2>2, EmptySeq
    <3>2. PICK i \in 1..n : Latest(acks) = acks[i]
      BY <1>3, <3>1, LatestIs
    <3>3. Taken(k2, k3, n, acks) /\ k3.rx_srtt = k2.rx_srtt
      <4> DEFINE ack == Latest(acks)
      <4>1. k3 = ParseFastack(k2, ack)
        BY <2>2
      <4>2. ack = acks[i] /\ Sound(k2)
        BY <1>4, <3>2 DEF Fewer
      <4> HIDE DEF ack, k3
      <4> QED BY <4>1, <4>2, ParseFastackIs
    <3> HIDE DEF k3
    <3>4. Steady(k, k3)
      BY <1>4, <3>3, SteadyOfSteady DEF Fewer, Taken
    <3> QED BY <1>4, <3>3, <3>4 DEF Fewer, Taken, SameClock, SameQueue
  <2> QED BY <2>1, <2>2
<1> HIDE DEF k3
<1>6. Taken(k, k4, n, acks) /\ k4.rx_srtt <= m
  <2>1. CASE k4 = k3
    BY <1>5, <2>1
  <2>2. CASE k4 = Grown(k3)
    <3>1. Congestion(k3, k4) /\ Steady(k3, k4)
      BY <1>5, <2>2, GrownIs DEF Taken, Sound
    <3> HIDE DEF k4
    <3>2. Steady(k, k4)
      BY <1>5, <3>1, SteadyOfSteady DEF Taken
    <3> QED BY <1>5, <3>1, <3>2 DEF Taken, Congestion, Sound, SameClock, SameQueue
  <2> QED BY <2>1, <2>2
<1> QED BY <1>0, <1>6

-----------------------------------------------------------------------------
(* ikcp_flush *)

WithProbe(k, wait, ts) == [k EXCEPT !.probe_wait = wait, !.ts_probe = ts]

LEMMA ProbeMade ==
    ASSUME NEW k \in ControlBlock, NEW wait \in 0..ProbeLimit, NEW ts \in Time,
           NEW k1, k1 = WithProbe(k, wait, ts)
    PROVE  /\ Congestion(k, k1)
           /\ SameWindows(k, k1) /\ k1.ts_probe = ts /\ k1.probe_wait = wait
<1>1. k1 \in ControlBlock
  BY DEF ControlBlock, WithProbe
<1>2. k1.current = k.current /\ k1.updated = k.updated /\ k1.ts_flush = k.ts_flush
  BY DEF ControlBlock, WithProbe
<1>3. k1.snd_nxt = k.snd_nxt /\ k1.nsnd_que = k.nsnd_que
  BY DEF ControlBlock, WithProbe
<1>4. k1.snd_buf = k.snd_buf /\ k1.rx_srtt = k.rx_srtt /\ k1.rx_rto = k.rx_rto
  BY DEF ControlBlock, WithProbe
<1>5. k1.cwnd = k.cwnd /\ k1.rmt_wnd = k.rmt_wnd /\ k1.snd_una = k.snd_una
  BY DEF ControlBlock, WithProbe
<1>6. k1.ts_probe = ts /\ k1.probe_wait = wait
  BY DEF ControlBlock, WithProbe
<1> QED BY <1>1, <1>2, <1>3, <1>4, <1>5, <1>6 DEF Congestion, SameClock, SameQueue, SameWindows

\* What a flush makes of the timer of the probe: it stops, starts or stays.
ProbeSet(k, k1) ==
    /\ k.rmt_wnd # 0 => k1.probe_wait = 0
    /\ k.rmt_wnd = 0 /\ (k.probe_wait = 0 \/ Asks(k)) =>
           k1.probe_wait \in 1..ProbeLimit /\ k1.ts_probe = Plus(k.current, k1.probe_wait)
    /\ k.rmt_wnd = 0 /\ k.probe_wait # 0 /\ ~Asks(k) => SameProbe(k, k1)

\* The probe timer touches nothing else.
LEMMA ProbeIs ==
    ASSUME NEW k \in ControlBlock
    PROVE  Congestion(k, Probe(k)) /\ SameWindows(k, Probe(k)) /\ ProbeSet(k, Probe(k))
<1> DEFINE more == k.probe_wait + k.probe_wait \div 2
           wait == IF k.probe_wait = 0 THEN ProbeInit ELSE Min({more, ProbeLimit})
           ts == Plus(k.current, wait)
<1>1. /\ k.probe_wait \in 0..ProbeLimit /\ k.current \in Time
      /\ ProbeInit \in 1..ProbeLimit /\ ProbeLimit \in Nat \ {0} /\ 0 \in 0..ProbeLimit
  BY BlockIs, SenderAssumption
<1>2. wait \in 0..ProbeLimit /\ wait \in 1..ProbeLimit /\ wait \in Nat
  <2>1. more \in Nat /\ (k.probe_wait # 0 => more >= 1)
    BY <1>1
  <2> HIDE DEF more
  <2>2. Min({more, ProbeLimit}) \in {more, ProbeLimit} /\ Min({more, ProbeLimit}) <= ProbeLimit
    <3>1. more \in Int /\ ProbeLimit \in Int
      BY <1>1, <2>1
    <3> QED BY <3>1, MinOfTwo
  <2> DEFINE least == Min({more, ProbeLimit})
  <2>3. k.probe_wait # 0 => least \in 1..ProbeLimit
    <3>1. least \in {more, ProbeLimit} /\ least <= ProbeLimit
      BY <2>2
    <3> HIDE DEF least
    <3> QED BY <1>1, <2>1, <3>1
  <2> HIDE DEF least
  <2>4. wait \in 1..ProbeLimit
    BY <1>1, <2>3 DEF least
  <2> HIDE DEF wait
  <2> QED BY <1>1, <2>4
<1>3. ts \in Time
  <2> HIDE DEF wait
  <2> QED BY <1>1, <1>2, PlusIs
<1>4. 0 \in Time
  BY FarIs DEF Time
<1>5. Probe(k) = IF k.rmt_wnd # 0 THEN WithProbe(k, 0, 0)
                 ELSE IF k.probe_wait = 0 \/ Asks(k) THEN WithProbe(k, wait, ts)
                 ELSE k
  BY DEF Probe, WithProbe, ControlBlock
<1> HIDE DEF wait, ts
<1>t. ts = Plus(k.current, wait)
  BY DEF ts
<1>6. ASSUME NEW w \in 0..ProbeLimit, NEW t \in Time
      PROVE  /\ Congestion(k, WithProbe(k, w, t)) /\ SameWindows(k, WithProbe(k, w, t))
             /\ WithProbe(k, w, t).probe_wait = w /\ WithProbe(k, w, t).ts_probe = t
  BY ProbeMade
<1>7. CASE k.rmt_wnd # 0
  <2> DEFINE k1 == WithProbe(k, 0, 0)
  <2>1. Congestion(k, k1) /\ SameWindows(k, k1) /\ k1.probe_wait = 0
    BY <1>1, <1>4, <1>6
  <2>2. Probe(k) = k1
    BY <1>5, <1>7
  <2> HIDE DEF k1
  <2> QED BY <1>7, <2>1, <2>2 DEF ProbeSet
<1>8. CASE k.rmt_wnd = 0 /\ (k.probe_wait = 0 \/ Asks(k))
  <2> DEFINE k1 == WithProbe(k, wait, ts)
  <2>1. Congestion(k, k1) /\ SameWindows(k, k1) /\ k1.probe_wait = wait /\ k1.ts_probe = ts
    BY <1>2, <1>3, <1>6
  <2>2. Probe(k) = k1
    BY <1>5, <1>8
  <2> HIDE DEF k1
  <2> QED BY <1>2, <1>8, <1>t, <2>1, <2>2 DEF ProbeSet
<1>9. CASE k.rmt_wnd = 0 /\ ~ (k.probe_wait = 0 \/ Asks(k))
  <2>1. Probe(k) = k
    BY <1>5, <1>9
  <2>2. ProbeSet(k, k)
    BY <1>9 DEF ProbeSet, SameProbe
  <2> QED BY <2>1, <2>2, CongestionSelf DEF SameWindows
<1> QED BY <1>7, <1>8, <1>9

\* A window is a number.
LEMMA WindowIs ==
    ASSUME use \in Uses, NEW k \in ControlBlock
    PROVE  Window(k) \in Nat
<1> DEFINE T == {Config.snd_wnd, k.rmt_wnd} \cup IF Config.nocwnd THEN {} ELSE {k.cwnd}
<1>1. T \subseteq Nat /\ T # {}
  BY ConfigIs, BlockIs
<1>2. Min(T) \in Nat
  <2> HIDE DEF T
  <2> QED BY <1>1, MinIs
<1> QED BY <1>2 DEF Window

\* An open one lets a segment out.
LEMMA WindowOpens ==
    ASSUME use \in Uses, NEW k \in ControlBlock, k.cwnd >= 1, k.rmt_wnd # 0
    PROVE  Window(k) >= 1
<1> DEFINE T == {Config.snd_wnd, k.rmt_wnd} \cup IF Config.nocwnd THEN {} ELSE {k.cwnd}
<1>1. k.rmt_wnd \in Nat /\ k.cwnd \in Nat /\ Config.snd_wnd \in {32, 64, 128}
  BY ConfigIs, BlockIs
<1>2. T \subseteq Nat /\ T # {} /\ \A t \in T : t >= 1
  BY <1>1
<1>3. Min(T) >= 1
  <2> HIDE DEF T
  <2> QED BY <1>2, MinIs
<1> QED BY <1>3 DEF Window

\* All that was ever written has a number that counts.
Room(k) == k.snd_nxt + k.nsnd_que <= MaxWrites

\* The control block from which a flush transmits: segments as they were, and
\* new ones.
Numbered(k, p) ==
    /\ Sound(p) /\ Room(p) /\ SameClock(k, p)
    /\ p.rx_srtt = k.rx_srtt
    /\ \A sn \in DOMAIN k.snd_buf : sn \in DOMAIN p.snd_buf
    /\ \A sn \in DOMAIN p.snd_buf :
           \/ sn \in DOMAIN k.snd_buf /\ p.snd_buf[sn] = k.snd_buf[sn]
           \/ p.snd_buf[sn].xmit = 0 /\ p.snd_buf[sn].fastack = 0

\* What a flush leaves of the queues and of the peer's window: when nothing is in
\* flight after it, nothing waits that the windows let out.
Cleared(k, p) ==
    /\ p.rmt_wnd = k.rmt_wnd
    /\ Whole(k) => Whole(p)
    /\ Whole(k) /\ DOMAIN p.snd_buf = {} /\ k.cwnd >= 1 /\ k.rmt_wnd # 0 => p.nsnd_que = 0

WithNumbered(k, n, b) ==
    [k EXCEPT !.nsnd_que = @ - n, !.snd_nxt = @ + n, !.snd_buf = b]

LEMMA NumberMade ==
    ASSUME NEW k \in ControlBlock, NEW n \in 0..k.nsnd_que, NEW b \in Buffer,
           NEW k1, k1 = WithNumbered(k, n, b)
    PROVE  /\ k1 \in ControlBlock /\ SameClock(k, k1)
           /\ k1.nsnd_que = k.nsnd_que - n /\ k1.snd_nxt = k.snd_nxt + n
           /\ k1.snd_buf = b /\ k1.rx_srtt = k.rx_srtt /\ k1.rx_rto = k.rx_rto
           /\ SameProbe(k, k1) /\ SameWindows(k, k1)
<1>0. k.nsnd_que \in Nat /\ k.snd_nxt \in Nat /\ k.nsnd_que - n \in Nat /\ k.snd_nxt + n \in Nat
  BY BlockIs
<1> DEFINE p == k.nsnd_que - n
           q == k.snd_nxt + n
<1>a. k1 = [k EXCEPT !.nsnd_que = p, !.snd_nxt = q, !.snd_buf = b]
  BY DEF WithNumbered, ControlBlock
<1>b. p \in Nat /\ q \in Nat
  BY <1>0
<1> HIDE DEF p, q
<1>1. k1 \in ControlBlock
  BY <1>a, <1>b DEF ControlBlock
<1>2. k1.current = k.current /\ k1.updated = k.updated /\ k1.ts_flush = k.ts_flush
  BY <1>a DEF ControlBlock
<1>3. k1.snd_nxt = q /\ k1.nsnd_que = p
  BY <1>a DEF ControlBlock
<1>4. k1.snd_buf = b /\ k1.rx_srtt = k.rx_srtt /\ k1.rx_rto = k.rx_rto
  BY <1>a DEF ControlBlock
<1>5. k1.ts_probe = k.ts_probe /\ k1.probe_wait = k.probe_wait
  BY <1>a DEF ControlBlock
<1>6. k1.cwnd = k.cwnd /\ k1.rmt_wnd = k.rmt_wnd /\ k1.snd_una = k.snd_una
  BY <1>a DEF ControlBlock
<1> QED BY <1>1, <1>2, <1>3, <1>4, <1>5, <1>6 DEF SameClock, p, q, SameProbe, SameWindows

\* Moving segments from snd_queue to snd_buf changes none that is there.
LEMMA NumberIs ==
    ASSUME use \in Uses, NEW k, Sound(k), Room(k)
    PROVE  Numbered(k, Number(k)) /\ SameProbe(k, Number(k)) /\ Cleared(k, Number(k))
<1> DEFINE x == k.snd_una + Window(k) - k.snd_nxt
           y == Max({0, x})
           n == Min({k.nsnd_que, y})
           new == k.snd_nxt..(k.snd_nxt + n - 1)
           seg == [ts |-> k.current, resendts |-> k.current, rto |-> k.rx_rto,
                   fastack |-> 0, xmit |-> 0]
           D == DOMAIN k.snd_buf \cup new
           b == [sn \in D |-> IF sn \in new THEN seg ELSE k.snd_buf[sn]]
           k1 == WithNumbered(k, n, b)
<1>1. /\ k \in ControlBlock /\ k.snd_una \in Nat /\ k.snd_nxt \in Nat /\ k.nsnd_que \in Nat
      /\ DOMAIN k.snd_buf \subseteq Sn /\ \A sn \in DOMAIN k.snd_buf : k.snd_buf[sn] \in Segment
      /\ k.current \in Time /\ k.rx_rto \in Nat
  <2>1. k \in ControlBlock /\ k.rx_rto \in 1..RtoMax
    BY BlockIs DEF Sound
  <2> QED BY <2>1, BlockIs, FarIs
<1>2. n \in 0..k.nsnd_que
  <2>1. x \in Int
    BY <1>1, WindowIs
  <2> HIDE DEF x
  <2>2. y \in Int /\ y >= 0
    <3>1. 0 \in Int /\ Max({0, x}) \in {0, x} /\ Max({0, x}) >= 0
      <4> DEFINE z == 0
      <4>1. z \in Int
        OBVIOUS
      <4> HIDE DEF z
      <4>2. Max({z, x}) \in {z, x} /\ Max({z, x}) >= z
        BY <2>1, <4>1, MaxOfTwo
      <4> QED BY <4>2 DEF z
    <3> QED BY <2>1, <3>1
  <2> HIDE DEF y
  <2> DEFINE q == k.nsnd_que
  <2>3. q \in Nat
    BY <1>1
  <2> HIDE DEF q
  <2>4. Min({q, y}) \in {q, y} /\ Min({q, y}) <= q
    BY <2>2, <2>3, MinOfTwo
  <2>5. Min({q, y}) \in 0..q
    BY <2>2, <2>3, <2>4
  <2> QED BY <2>5 DEF q
<1>3. Number(k) = k1
  BY DEF Number, WithNumbered
<1>q. k.snd_una = k.snd_nxt /\ k.cwnd >= 1 /\ k.rmt_wnd # 0 /\ n = 0 => k.nsnd_que = 0
  <2> SUFFICES ASSUME k.snd_una = k.snd_nxt, k.cwnd >= 1, k.rmt_wnd # 0, n = 0
               PROVE  k.nsnd_que = 0
    OBVIOUS
  <2>1. Window(k) \in Nat /\ Window(k) >= 1
    BY <1>1, WindowIs, WindowOpens
  <2>2. x \in Int /\ x >= 1
    BY <1>1, <2>1
  <2> HIDE DEF x
  <2>3. y \in Int /\ y >= 1
    <3> DEFINE z == 0
    <3>1. z \in Int
      OBVIOUS
    <3> HIDE DEF z
    <3>2. Max({z, x}) \in {z, x} /\ Max({z, x}) >= x
      BY <2>2, <3>1, MaxOfTwo
    <3>3. Max({z, x}) \in Int /\ Max({z, x}) >= 1
      BY <2>2, <3>1, <3>2
    <3> QED BY <3>3 DEF z
  <2> HIDE DEF y
  <2> DEFINE q == k.nsnd_que
  <2>4. q \in Int
    BY <1>1
  <2> HIDE DEF q
  <2>5. Min({q, y}) \in {q, y}
    BY <2>3, <2>4, MinOfTwo
  <2>6. Min({q, y}) = 0
    BY DEF q
  <2>7. q = 0
    BY <2>3, <2>5, <2>6
  <2> QED BY <2>7 DEF q
<1> HIDE DEF n
<1>e. new = {} => n = 0
  <2>1. n # 0 => k.snd_nxt \in new
    BY <1>1, <1>2
  <2> QED BY <2>1
<1>4. new \subseteq Sn
  <2>1. \A i \in new : i \in Nat /\ i <= MaxWrites - 1
    BY <1>1, <1>2, SnIs DEF Room
  <2> QED BY <2>1, SnIs DEF Sn
<1>5. seg \in Segment /\ seg.xmit = 0 /\ seg.fastack = 0
  BY <1>1 DEF Segment
<1> HIDE DEF new, seg
<1>6. b \in Buffer /\ DOMAIN b = D
      /\ \A sn \in D : b[sn] = IF sn \in new THEN seg ELSE k.snd_buf[sn]
  <2>1. D \subseteq Sn /\ b \in [D -> Segment]
    BY <1>1, <1>4, <1>5
  <2> HIDE DEF D
  <2> QED BY <2>1, BufferMade
<1> HIDE DEF b
<1>7. /\ k1 \in ControlBlock /\ SameClock(k, k1)
      /\ k1.nsnd_que = k.nsnd_que - n /\ k1.snd_nxt = k.snd_nxt + n
      /\ k1.snd_buf = b /\ k1.rx_srtt = k.rx_srtt /\ k1.rx_rto = k.rx_rto
      /\ SameProbe(k, k1) /\ SameWindows(k, k1)
  BY <1>1, <1>2, <1>6, NumberMade
<1> HIDE DEF k1
<1>c. Cleared(k, k1)
  <2>1. DOMAIN k1.snd_buf = {} => DOMAIN k.snd_buf = {} /\ n = 0
    BY <1>6, <1>7, <1>e
  <2>2. k1.rmt_wnd = k.rmt_wnd /\ k1.snd_una = k.snd_una
    BY <1>7 DEF SameWindows
  <2>3. n = 0 => k1.snd_nxt = k.snd_nxt /\ k1.nsnd_que = k.nsnd_que
    BY <1>1, <1>7
  <2> QED BY <1>q, <2>1, <2>2, <2>3 DEF Cleared, Whole
<1>8. Sound(k1)
  BY <1>7 DEF Sound
<1>9. Room(k1)
  BY <1>1, <1>2, <1>7, SnIs DEF Room
<1>10. /\ \A sn \in DOMAIN k.snd_buf : sn \in DOMAIN k1.snd_buf
       /\ \A sn \in DOMAIN k1.snd_buf :
              \/ sn \in DOMAIN k.snd_buf /\ k1.snd_buf[sn] = k.snd_buf[sn]
              \/ k1.snd_buf[sn].xmit = 0 /\ k1.snd_buf[sn].fastack = 0
  BY <1>5, <1>6, <1>7
<1> QED BY <1>3, <1>7, <1>8, <1>9, <1>10, <1>c DEF Numbered

\* So it is before a flush transmits.
LEMMA PreparedIs ==
    ASSUME use \in Uses, NEW k, Sound(k), Room(k)
    PROVE  Numbered(k, Prepared(k)) /\ ProbeSet(k, Prepared(k)) /\ Cleared(k, Prepared(k))
<1> DEFINE k1 == Probe(k)
<1>1. Congestion(k, k1) /\ SameWindows(k, k1) /\ ProbeSet(k, k1)
  BY ProbeIs DEF Sound
<1>2. Prepared(k) = Number(k1)
  BY DEF Prepared
<1> HIDE DEF k1
<1>3. Sound(k1) /\ Room(k1)
  BY <1>1 DEF Congestion, Sound, Room, SameQueue
<1> DEFINE p == Number(k1)
<1>4. Numbered(k1, p) /\ SameProbe(k1, p) /\ Cleared(k1, p)
  BY <1>3, NumberIs
<1> HIDE DEF p
<1>5. Numbered(k, p)
  BY <1>1, <1>4 DEF Numbered, Congestion, SameClock
<1>6. ProbeSet(k, p)
  BY <1>1, <1>4 DEF ProbeSet, SameProbe
<1>7. Cleared(k, p)
  <2>1. Whole(k) => Whole(k1)
    BY <1>1 DEF Whole, Congestion, SameQueue, SameWindows
  <2> QED BY <1>1, <1>4, <2>1 DEF Cleared, SameWindows
<1> QED BY <1>2, <1>5, <1>6, <1>7 DEF p

\* A segment before and after it goes out: the timer, and why.
Sent(k, seg, t) ==
    /\ t \in Segment /\ t.xmit = seg.xmit + 1 /\ t.ts = k.current
    /\ \/ /\ seg.xmit = 0
          /\ t.fastack = seg.fastack /\ t.rto = k.rx_rto
          /\ \E x \in k.rx_rto..(k.rx_rto + k.rx_rto \div 8) : t.resendts = Plus(k.current, x)
       \/ /\ TimedOut(k, seg)
          /\ t.fastack = seg.fastack
          /\ t.rto >= seg.rto /\ (t.rto <= 2 * seg.rto \/ t.rto <= seg.rto + RtoMax)
          /\ t.resendts = Plus(k.current, t.rto)
       \/ /\ Skipped(k, seg)
          /\ t.fastack = 0 /\ t.rto = seg.rto
          /\ t.resendts = Plus(k.current, seg.rto)

WithTimer(seg, x, ts, resendts, rto, fastack) ==
    [seg EXCEPT !.xmit = x, !.ts = ts, !.resendts = resendts, !.rto = rto, !.fastack = fastack]

\* A segment goes out, or stays as it is.
LEMMA TransmittedIs ==
    ASSUME use \in Uses, NEW k, Sound(k), NEW seg \in Segment
    PROVE  /\ Due(k, seg) => Sent(k, seg, Transmitted(k, seg))
           /\ ~Due(k, seg) => Transmitted(k, seg) = seg
<1> DEFINE rtomin == IF Config.nodelay THEN 0 ELSE k.rx_rto \div 8
           larger == Max({seg.rto, k.rx_rto})
           backoff == IF Config.nodelay THEN seg.rto + seg.rto \div 2 ELSE seg.rto + larger
           next == seg.xmit + 1
           first == k.rx_rto + rtomin
           t1 == WithTimer(seg, next, k.current, Plus(k.current, first), k.rx_rto, seg.fastack)
           t2 == WithTimer(seg, next, k.current, Plus(k.current, backoff), backoff, seg.fastack)
           t3 == WithTimer(seg, next, k.current, Plus(k.current, seg.rto), seg.rto, 0)
<1>1. /\ k.current \in Time /\ k.rx_rto \in 1..RtoMax /\ k.rx_rto \in Nat /\ RtoMax \in Nat
      /\ seg.rto \in Nat /\ seg.fastack \in Nat /\ seg.xmit \in Nat
  <2>1. k.current \in Time /\ k.rx_rto \in 1..RtoMax
    BY BlockIs DEF Sound
  <2> QED BY <2>1, FarIs DEF Segment
<1>2. first \in k.rx_rto..(k.rx_rto + k.rx_rto \div 8) /\ first \in Nat
  BY <1>1
<1>3. backoff \in Nat /\ backoff >= seg.rto
      /\ (backoff <= 2 * seg.rto \/ backoff <= seg.rto + RtoMax)
  <2> DEFINE a == seg.rto
             b == k.rx_rto
  <2>1. a \in Nat /\ b \in Nat /\ b <= RtoMax
    BY <1>1
  <2>2. Max({a, b}) \in {a, b}
    <3> HIDE DEF a, b
    <3> QED BY <2>1, MaxOfTwo
  <2>3. larger \in Nat /\ (larger <= seg.rto \/ larger <= RtoMax)
    BY <2>1, <2>2
  <2> HIDE DEF larger
  <2>4. seg.rto \div 2 \in Nat /\ seg.rto \div 2 <= seg.rto
    BY <1>1
  <2> QED BY <1>1, <2>3, <2>4
<1>4. next \in Nat /\ next = seg.xmit + 1
  BY <1>1
<1>5. Transmitted(k, seg) =
          CASE seg.xmit = 0 -> t1
            [] TimedOut(k, seg) -> t2
            [] Skipped(k, seg) -> t3
            [] OTHER -> seg
  BY DEF Transmitted, WithTimer, Segment
<1>6. /\ seg.xmit = 0 => ~TimedOut(k, seg)
      /\ Skipped(k, seg) => seg.xmit # 0 /\ ~TimedOut(k, seg)
  BY DEF TimedOut, Skipped
<1> HIDE DEF first, backoff, next
<1> DEFINE now1 == k.current
           p1 == Plus(k.current, first)
           p2 == Plus(k.current, backoff)
           p3 == Plus(k.current, seg.rto)
           r1 == k.rx_rto
           r3 == seg.rto
           fa == seg.fastack
           z == 0
<1>a. /\ now1 \in Time /\ p1 \in Time /\ p2 \in Time /\ p3 \in Time
      /\ r1 \in Nat /\ r3 \in Nat /\ fa \in Nat /\ z \in Nat
  BY <1>1, <1>2, <1>3, PlusIs
<1>b. /\ t1 = WithTimer(seg, next, now1, p1, r1, fa)
      /\ t2 = WithTimer(seg, next, now1, p2, backoff, fa)
      /\ t3 = WithTimer(seg, next, now1, p3, r3, z)
  OBVIOUS
<1> HIDE DEF t1, t2, t3, now1, p1, p2, p3, r1, r3, fa, z
<1>c. /\ t1 \in Segment /\ t1.xmit = next /\ t1.ts = now1
      /\ t1.resendts = p1 /\ t1.rto = r1 /\ t1.fastack = fa
  BY <1>4, <1>a, <1>b DEF WithTimer, Segment
<1>d. /\ t2 \in Segment /\ t2.xmit = next /\ t2.ts = now1
      /\ t2.resendts = p2 /\ t2.rto = backoff /\ t2.fastack = fa
  BY <1>3, <1>4, <1>a, <1>b DEF WithTimer, Segment
<1>e. /\ t3 \in Segment /\ t3.xmit = next /\ t3.ts = now1
      /\ t3.resendts = p3 /\ t3.rto = r3 /\ t3.fastack = z
  BY <1>4, <1>a, <1>b DEF WithTimer, Segment
<1>7. /\ t1 \in Segment /\ t1.xmit = next /\ t1.ts = k.current
      /\ t1.resendts = Plus(k.current, first) /\ t1.rto = k.rx_rto /\ t1.fastack = seg.fastack
  BY <1>c DEF now1, p1, r1, fa
<1>8. /\ t2 \in Segment /\ t2.xmit = next /\ t2.ts = k.current
      /\ t2.resendts = Plus(k.current, backoff) /\ t2.rto = backoff /\ t2.fastack = seg.fastack
  BY <1>d DEF now1, p2, fa
<1>9. /\ t3 \in Segment /\ t3.xmit = next /\ t3.ts = k.current
      /\ t3.resendts = Plus(k.current, seg.rto) /\ t3.rto = seg.rto /\ t3.fastack = 0
  BY <1>e DEF now1, p3, r3, z
<1>10. CASE seg.xmit = 0
  <2>1. Transmitted(k, seg) = t1
    BY <1>5, <1>6, <1>10
  <2>2. Sent(k, seg, t1)
    BY <1>2, <1>4, <1>7, <1>10 DEF Sent
  <2> QED BY <1>10, <2>1, <2>2 DEF Due
<1>11. CASE seg.xmit # 0 /\ TimedOut(k, seg)
  <2>1. Transmitted(k, seg) = t2
    BY <1>5, <1>6, <1>11
  <2>2. Sent(k, seg, t2)
    BY <1>3, <1>4, <1>8, <1>11 DEF Sent
  <2> QED BY <1>11, <2>1, <2>2 DEF Due
<1>12. CASE seg.xmit # 0 /\ ~TimedOut(k, seg) /\ Skipped(k, seg)
  <2>1. Transmitted(k, seg) = t3
    BY <1>5, <1>6, <1>12
  <2>2. Sent(k, seg, t3)
    BY <1>4, <1>9, <1>12 DEF Sent
  <2> QED BY <1>12, <2>1, <2>2 DEF Due
<1>13. CASE seg.xmit # 0 /\ ~TimedOut(k, seg) /\ ~Skipped(k, seg)
  <2>1. Transmitted(k, seg) = seg
    BY <1>5, <1>13
  <2> QED BY <1>13, <2>1 DEF Due
<1> QED BY <1>10, <1>11, <1>12, <1>13

WithSsthresh(k, s) == [k EXCEPT !.ssthresh = s]

LEMMA SsthreshMade ==
    ASSUME NEW k \in ControlBlock, NEW s \in Nat,
           NEW k1, k1 = WithSsthresh(k, s)
    PROVE  /\ Congestion(k, k1)
           /\ SameProbe(k, k1) /\ SameWindows(k, k1)
<1>1. k1 \in ControlBlock
  BY DEF ControlBlock, WithSsthresh
<1>2. k1.current = k.current /\ k1.updated = k.updated /\ k1.ts_flush = k.ts_flush
  BY DEF ControlBlock, WithSsthresh
<1>3. k1.snd_nxt = k.snd_nxt /\ k1.nsnd_que = k.nsnd_que
  BY DEF ControlBlock, WithSsthresh
<1>4. k1.snd_buf = k.snd_buf /\ k1.rx_srtt = k.rx_srtt /\ k1.rx_rto = k.rx_rto
  BY DEF ControlBlock, WithSsthresh
<1>5. k1.ts_probe = k.ts_probe /\ k1.probe_wait = k.probe_wait
  BY DEF ControlBlock, WithSsthresh
<1>6. k1.cwnd = k.cwnd /\ k1.rmt_wnd = k.rmt_wnd /\ k1.snd_una = k.snd_una
  BY DEF ControlBlock, WithSsthresh
<1> QED BY <1>1, <1>2, <1>3, <1>4, <1>5, <1>6 DEF Congestion, SameClock, SameQueue, SameProbe, SameWindows

\* Neither the probe's timer, nor the peer's window, nor what it acknowledged changes.
Kept(k, k1) == SameProbe(k, k1) /\ k1.rmt_wnd = k.rmt_wnd /\ k1.snd_una = k.snd_una

LEMMA KeptOfBoth ==
    ASSUME NEW k, NEW k1, NEW k2, Kept(k, k1), Kept(k1, k2)
    PROVE  Kept(k, k2)
BY DEF Kept, SameProbe

LEMMA KeptSelf == \A k : Kept(k, k)
BY DEF Kept, SameProbe

\* Half of a number, at least 2.
LEMMA HalfIs ==
    ASSUME NEW a \in Int
    PROVE  Max({a \div 2, 2}) \in Nat
<1> DEFINE h == a \div 2
           z == 2
<1>1. h \in Int /\ z \in Int /\ z >= 0
  OBVIOUS
<1>2. Max({h, z}) \in Int /\ Max({h, z}) >= z
  <2> HIDE DEF h, z
  <2> QED BY <1>1, MaxOfTwo
<1>3. Max({h, z}) \in Nat
  <2> HIDE DEF h
  <2> QED BY <1>1, <1>2
<1> QED BY <1>3

\* The congestion window shrinks; nothing else does.
LEMMA CongestedIs ==
    ASSUME use \in Uses, NEW k \in ControlBlock, NEW window \in Nat, NEW change, NEW lost
    PROVE  /\ Congestion(k, Congested(k, window, change, lost))
           /\ Kept(k, Congested(k, window, change, lost))
           /\ Congested(k, window, change, lost).cwnd >= 1
<1> DEFINE under == k.snd_nxt - k.snd_una
           half == Max({under \div 2, 2})
           s2 == Max({window \div 2, 2})
           c == half + Config.fastresend
           i == c * Config.mss
           ks == WithSsthresh(k, half)
           k0 == WithCwnd(ks, c, i)
           k1 == IF ~change THEN k ELSE k0
           k2 == IF ~lost THEN k1 ELSE WithSsthresh(k1, s2)
           k3 == WithCwnd(k2, 1, Config.mss)
<1>1. under \in Int /\ Config.fastresend \in Nat /\ Config.mss \in Nat
  BY BlockIs, ConfigIs
<1>2. half \in Nat /\ s2 \in Nat
  <2> HIDE DEF under
  <2> QED BY <1>1, HalfIs
<1> HIDE DEF half, s2
<1>3. c \in Nat /\ i \in Nat
  <2>1. c \in Nat
    BY <1>1, <1>2
  <2> HIDE DEF c
  <2> QED BY <1>1, <2>1
<1>4. Congested(k, window, change, lost) = IF lost \/ k2.cwnd < 1 THEN k3 ELSE k2
  BY DEF Congested, WithSsthresh, WithCwnd, ControlBlock, half, s2
<1> HIDE DEF c, i
<1>5. Congestion(k, ks) /\ Kept(k, ks)
  BY <1>2, SsthreshMade DEF Kept, SameWindows
<1> HIDE DEF ks
<1>6. Congestion(ks, k0) /\ Kept(ks, k0)
  BY <1>3, <1>5, CwndMade DEF Congestion, Kept
<1> HIDE DEF k0
<1>7. Congestion(k, k1) /\ Kept(k, k1)
  BY <1>5, <1>6, CongestionOfBoth, CongestionSelf, KeptOfBoth, KeptSelf
<1> HIDE DEF k1
<1>8. Congestion(k1, k2) /\ Kept(k1, k2)
  <2>1. CASE ~lost
    BY <1>7, <2>1, CongestionSelf, KeptSelf DEF Congestion
  <2>2. CASE lost
    BY <1>2, <1>7, <2>2, SsthreshMade DEF Congestion, Kept, SameWindows
  <2> QED BY <2>1, <2>2
<1> HIDE DEF k2
<1>9. Congestion(k2, k3) /\ Kept(k2, k3) /\ k3.cwnd = 1
  <2> DEFINE one == 1
             mss == Config.mss
  <2>1. one \in Nat /\ mss \in Nat
    BY <1>1
  <2> HIDE DEF one, mss
  <2>2. /\ Congestion(k2, WithCwnd(k2, one, mss)) /\ Kept(k2, WithCwnd(k2, one, mss))
        /\ WithCwnd(k2, one, mss).cwnd = one
    BY <1>8, <2>1, CwndMade DEF Congestion, Kept
  <2> QED BY <2>2 DEF one, mss
<1> HIDE DEF k3
<1>10. Congestion(k, k2) /\ Congestion(k, k3)
  BY <1>7, <1>8, <1>9, CongestionOfBoth
<1>11. Kept(k, k2) /\ Kept(k, k3)
  BY <1>7, <1>8, <1>9, KeptOfBoth
<1>12. k2.cwnd \in Nat
  BY <1>10, BlockIs DEF Congestion
<1>13. ~ (k2.cwnd < 1) => k2.cwnd >= 1
  BY <1>12
<1> QED BY <1>4, <1>9, <1>10, <1>11, <1>13

\* What a flush makes of the control block k: p is the one it transmits from.
Flushed(k, p, f) ==
    /\ Numbered(k, p)
    /\ Sound(f) /\ Room(f) /\ SameClock(k, f)
    /\ f.rx_srtt = k.rx_srtt
    /\ DOMAIN f.snd_buf = DOMAIN p.snd_buf
    /\ \A sn \in DOMAIN p.snd_buf :
           /\ Due(p, p.snd_buf[sn]) => Sent(p, p.snd_buf[sn], f.snd_buf[sn])
           /\ ~Due(p, p.snd_buf[sn]) => f.snd_buf[sn] = p.snd_buf[sn]

\* A flush transmits what is due and nothing else.
LEMMA FlushIs ==
    ASSUME use \in Uses, NEW k, Sound(k), Room(k)
    PROVE  /\ Flushed(k, Prepared(k), Flush(k))
           /\ ProbeSet(k, Flush(k)) /\ Cleared(k, Flush(k)) /\ Flush(k).cwnd >= 1
<1> DEFINE p == Prepared(k)
           D == DOMAIN p.snd_buf
           b == [sn \in D |-> Transmitted(p, p.snd_buf[sn])]
           sent == WithSegments(p, b)
           w == Window(p)
           change == \E sn \in DOMAIN p.snd_buf : Skipped(p, p.snd_buf[sn])
           lost == \E sn \in DOMAIN p.snd_buf : TimedOut(p, p.snd_buf[sn])
           f == Congested(sent, w, change, lost)
<1>1. Flush(k) = f
  BY DEF Flush, WithSegments
<1>2. Numbered(k, p) /\ ProbeSet(k, p) /\ Cleared(k, p)
  BY PreparedIs
<1> HIDE DEF p
<1>3. p \in ControlBlock /\ Sound(p) /\ Room(p)
  BY <1>2 DEF Numbered, Sound
<1>4. D \subseteq Sn /\ \A sn \in D : p.snd_buf[sn] \in Segment
  BY <1>3, BlockIs
<1>5. \A sn \in D :
          /\ b[sn] \in Segment
          /\ Due(p, p.snd_buf[sn]) => Sent(p, p.snd_buf[sn], b[sn])
          /\ ~Due(p, p.snd_buf[sn]) => b[sn] = p.snd_buf[sn]
  <2> TAKE sn \in D
  <2> DEFINE seg == p.snd_buf[sn]
  <2>1. seg \in Segment /\ b[sn] = Transmitted(p, seg)
    BY <1>4
  <2> HIDE DEF b, seg, D
  <2>2. /\ Due(p, seg) => Sent(p, seg, b[sn])
        /\ ~Due(p, seg) => b[sn] = seg
    BY <1>3, <2>1, TransmittedIs
  <2>3. b[sn] \in Segment
    BY <2>1, <2>2 DEF Sent
  <2> QED BY <2>2, <2>3 DEF seg
<1>6. b \in Buffer /\ DOMAIN b = D
  <2>1. b \in [D -> Segment]
    BY <1>5
  <2> HIDE DEF b, D
  <2> QED BY <1>4, <2>1, BufferMade
<1> HIDE DEF b
<1>7. /\ sent \in ControlBlock /\ SameClock(p, sent) /\ SameQueue(p, sent)
      /\ sent.snd_buf = b /\ sent.rx_srtt = p.rx_srtt /\ sent.rx_rto = p.rx_rto
      /\ SameProbe(p, sent) /\ SameWindows(p, sent)
  BY <1>3, <1>6, SegmentsMade
<1>8. w \in Nat
  BY <1>3, WindowIs
<1> HIDE DEF sent, w, change, lost
<1>9. Congestion(sent, f) /\ Kept(sent, f) /\ f.cwnd >= 1
  BY <1>7, <1>8, CongestedIs
<1> HIDE DEF f
<1>10. Sound(f) /\ Room(f) /\ SameClock(k, f) /\ f.rx_srtt = k.rx_srtt
  BY <1>2, <1>3, <1>7, <1>9 DEF Numbered, Congestion, Sound, Room, SameClock, SameQueue
<1>11. f.snd_buf = b
  BY <1>7, <1>9 DEF Congestion
<1>12. Flushed(k, p, f)
  BY <1>2, <1>5, <1>6, <1>10, <1>11 DEF Flushed
<1>13. Kept(p, f) /\ SameQueue(p, f)
  BY <1>7, <1>9 DEF Kept, SameProbe, SameWindows, Congestion, SameQueue
<1>14. ProbeSet(k, f)
  BY <1>2, <1>13 DEF ProbeSet, Kept, SameProbe
<1>15. Cleared(k, f)
  <2>1. DOMAIN f.snd_buf = DOMAIN p.snd_buf
    BY <1>6, <1>11
  <2>2. Whole(p) => Whole(f)
    BY <1>13, <2>1 DEF Whole, Kept, SameQueue
  <2> QED BY <1>2, <1>13, <2>1, <2>2 DEF Cleared, Kept, SameQueue
<1> QED BY <1>1, <1>9, <1>12, <1>14, <1>15 DEF p

-----------------------------------------------------------------------------
(* Moments *)

\* t is within the first m milliseconds of this use.
Within(t, m) == \E x \in 0..m : t = Plus(use.start, x)

\* The engine's clock and its next flush.
Timed(k, m) ==
    k.updated => \E a \in 0..m, b \in 1..Interval :
        k.current = Plus(use.start, a) /\ k.ts_flush = Plus(use.start, a + b)

\* A segment last sent at the moment at, with a timer of x milliseconds: not
\* below the minimal timeout, and grown no faster than time passed.
Flying(seg, at, m) ==
    /\ seg.xmit > 0 /\ seg.ts = at /\ seg.rto >= Config.rx_minrto
    /\ \E s \in 0..m, x \in Nat :
           /\ at = Plus(use.start, s) /\ seg.resendts = Plus(use.start, s + x)
           /\ x >= seg.rto /\ seg.rto <= s + RtoMax /\ x <= s + 2 * RtoMax
           /\ x <= seg.rto + seg.rto \div 8

\* Moments of this use differ by what lies between them.
LEMMA MomentsDiffer ==
    ASSUME use \in Uses, NEW a \in Nat, NEW b \in Nat, a <= MaxTime, b <= a + Far
    PROVE  /\ Diff(Plus(use.start, a), Plus(use.start, b)) = a - b
           /\ Diff(Plus(use.start, b), Plus(use.start, a)) = b - a
           /\ Plus(use.start, a) \in Time
<1>1. use.start \in Time
  BY ConfigIs
<1>2. /\ a < Clock /\ 2 * (a - b) < Clock /\ 2 * (b - a) < Clock
      /\ b < Clock
  BY FarIs, SenderAssumption DEF Far
<1> DEFINE s == use.start
<1> HIDE DEF s
<1>3. s \in Time
  BY <1>1 DEF s
<1>4. /\ Diff(Plus(s, a), Plus(s, b)) = a - b
      /\ Diff(Plus(s, b), Plus(s, a)) = b - a
  BY <1>2, <1>3, DiffOfPlus
<1>5. Plus(s, a) \in Time
  BY <1>3, PlusIs
<1> QED BY <1>4, <1>5 DEF s

\* A moment and a timer that starts at it.
LEMMA TimerFrom ==
    ASSUME use \in Uses, NEW a \in Nat, a <= MaxTime, NEW d \in Nat, d <= Far
    PROVE  Plus(Plus(use.start, a), d) = Plus(use.start, a + d)
<1>1. use.start \in Time
  BY ConfigIs
<1>2. a + d < Clock
  BY FarIs, SenderAssumption DEF Far
<1> DEFINE s == use.start
<1> HIDE DEF s
<1>3. s \in Time
  BY <1>1 DEF s
<1>4. Plus(Plus(s, a), d) = Plus(s, a + d)
  BY <1>2, <1>3, PlusOfPlus
<1> QED BY <1>4 DEF s

\* As time passes, all this remains.
LEMMA TimePasses ==
    ASSUME NEW m \in Nat, NEW m1 \in Nat, m <= m1
    PROVE  /\ \A t : Within(t, m) => Within(t, m1)
           /\ \A k : Timed(k, m) => Timed(k, m1)
           /\ \A seg, at : Flying(seg, at, m) => Flying(seg, at, m1)
<1>1. \A x \in 0..m : x \in 0..m1
  OBVIOUS
<1> QED BY <1>1 DEF Within, Timed, Flying

\* A timer that has run out did so after as long as it was set for.
LEMMA TimerRan ==
    ASSUME use \in Uses, NEW m \in 0..MaxTime, NEW seg \in Segment, NEW at, Flying(seg, at, m),
           Diff(Plus(use.start, m), seg.resendts) >= 0
    PROVE  \E s \in 0..m : /\ at = Plus(use.start, s)
                           /\ seg.rto <= m - s /\ Diff(Plus(use.start, m), at) = m - s
                           /\ m - s >= Config.rx_minrto
<1>1. PICK s \in 0..m, x \in Nat :
           /\ at = Plus(use.start, s) /\ seg.resendts = Plus(use.start, s + x)
           /\ x >= seg.rto /\ seg.rto <= s + RtoMax /\ x <= s + 2 * RtoMax
  BY DEF Flying
<1>2. m \in Nat /\ m <= MaxTime /\ s \in Nat /\ MaxTime \in Nat /\ RtoMax \in Nat
      /\ seg.rto \in Nat /\ Config.rx_minrto \in Nat /\ seg.rto >= Config.rx_minrto
  BY FarIs, ConfigIs DEF Flying, Segment
<1> DEFINE e == s + x
<1>3. e \in Nat /\ e <= m + Far
  BY <1>1, <1>2, FarIs
<1>4. Diff(Plus(use.start, m), Plus(use.start, e)) = m - e
  <2> HIDE DEF e
  <2> QED BY <1>2, <1>3, MomentsDiffer
<1>5. m - e >= 0
  BY <1>1, <1>4
<1>6. s <= m + Far
  BY <1>2, FarIs
<1>7. Diff(Plus(use.start, m), Plus(use.start, s)) = m - s
  BY <1>2, <1>6, MomentsDiffer
<1>8. seg.rto <= m - s /\ m - s >= Config.rx_minrto
  BY <1>1, <1>2, <1>5
<1> QED BY <1>1, <1>7, <1>8

\* A segment that goes out is flying anew.
LEMMA FlyingSent ==
    ASSUME use \in Uses, NEW m \in 0..MaxTime, NEW k, Sound(k), k.current = Plus(use.start, m),
           NEW seg \in Segment, NEW t, Sent(k, seg, t),
           NEW at, seg.xmit = 0 \/ Flying(seg, at, m)
    PROVE  Flying(t, Plus(use.start, m), m)
<1>1. /\ m \in Nat /\ m <= MaxTime /\ MaxTime \in Nat /\ RtoMax \in Nat
      /\ seg.rto \in Nat /\ seg.xmit \in Nat /\ t.rto \in Nat /\ Config.rx_minrto \in Nat
      /\ k.rx_rto \in Nat /\ k.rx_rto <= RtoMax /\ k.rx_rto >= Config.rx_minrto
      /\ MaxTime + 2 * RtoMax <= Far /\ Far \in Nat
  <2>1. k.rx_rto \in 1..RtoMax
    BY BlockIs DEF Sound
  <2> QED BY <2>1, FarIs, ConfigIs DEF Segment, Sent, Sound
<1>2. SUFFICES \E x \in Nat :
          /\ t.resendts = Plus(k.current, x)
          /\ x >= t.rto /\ t.rto <= m + RtoMax /\ x <= m + 2 * RtoMax
          /\ t.rto >= Config.rx_minrto /\ x <= t.rto + t.rto \div 8
  <2>1. PICK x \in Nat :
            /\ t.resendts = Plus(k.current, x)
            /\ x >= t.rto /\ t.rto <= m + RtoMax /\ x <= m + 2 * RtoMax
            /\ t.rto >= Config.rx_minrto /\ x <= t.rto + t.rto \div 8
    BY <1>2
  <2>2. x <= Far
    BY <1>1, <2>1
  <2>3. t.resendts = Plus(use.start, m + x)
    BY <1>1, <2>1, <2>2, TimerFrom
  <2>4. t.xmit > 0 /\ t.ts = Plus(use.start, m) /\ m \in 0..m
    BY <1>1 DEF Sent
  <2> QED BY <2>1, <2>3, <2>4 DEF Flying
<1>3. CASE seg.xmit = 0 /\ t.rto = k.rx_rto
           /\ \E x \in k.rx_rto..(k.rx_rto + k.rx_rto \div 8) : t.resendts = Plus(k.current, x)
  <2>1. PICK x \in k.rx_rto..(k.rx_rto + k.rx_rto \div 8) : t.resendts = Plus(k.current, x)
    BY <1>3
  <2>2. x \in Nat /\ x >= t.rto /\ t.rto <= m + RtoMax /\ x <= m + 2 * RtoMax
        /\ t.rto >= Config.rx_minrto /\ x <= t.rto + t.rto \div 8
    BY <1>1, <1>3, <2>1
  <2> QED BY <2>1, <2>2
<1>4. CASE /\ TimedOut(k, seg)
           /\ t.rto >= seg.rto /\ (t.rto <= 2 * seg.rto \/ t.rto <= seg.rto + RtoMax)
           /\ t.resendts = Plus(k.current, t.rto)
  <2>1. Flying(seg, at, m) /\ Diff(Plus(use.start, m), seg.resendts) >= 0
    BY <1>1, <1>4 DEF TimedOut
  <2>2. PICK s \in 0..m : seg.rto <= m - s /\ at = Plus(use.start, s)
    BY <2>1, TimerRan
  <2>3. seg.rto >= Config.rx_minrto
    BY <2>1 DEF Flying
  <2>4. PICK s2 \in 0..m, x \in Nat :
           /\ at = Plus(use.start, s2) /\ seg.rto <= s2 + RtoMax
    BY <2>1 DEF Flying
  <2>5. s2 = s
    <3>1. s \in Nat /\ s2 \in Nat /\ s <= MaxTime /\ s2 <= s + Far
      BY <1>1
    <3>2. Diff(Plus(use.start, s), Plus(use.start, s2)) = s - s2
      BY <3>1, MomentsDiffer
    <3>3. s <= s + Far
      BY <1>1, <3>1
    <3>4. Diff(Plus(use.start, s), Plus(use.start, s)) = s - s
      BY <3>1, <3>3, MomentsDiffer
    <3> QED BY <2>2, <2>4, <3>1, <3>2, <3>4
  <2>6. t.rto \in Nat /\ t.rto <= m + RtoMax /\ t.rto <= m + 2 * RtoMax
        /\ t.rto >= Config.rx_minrto /\ t.rto <= t.rto + t.rto \div 8
    BY <1>1, <1>4, <2>2, <2>3, <2>4, <2>5
  <2> QED BY <1>4, <2>6
<1>5. CASE Skipped(k, seg) /\ t.rto = seg.rto /\ t.resendts = Plus(k.current, seg.rto)
  <2>1. Flying(seg, at, m)
    BY <1>1, <1>5 DEF Skipped
  <2>2. PICK s \in 0..m, x \in Nat : seg.rto <= s + RtoMax
    BY <2>1 DEF Flying
  <2>3. t.rto \in Nat /\ t.rto <= m + RtoMax /\ t.rto <= m + 2 * RtoMax
        /\ t.rto >= Config.rx_minrto /\ t.rto <= t.rto + t.rto \div 8
    BY <1>1, <1>5, <2>1, <2>2 DEF Flying
  <2> QED BY <1>5, <2>3
<1> QED BY <1>3, <1>4, <1>5 DEF Sent

-----------------------------------------------------------------------------
(* ikcp_update *)

WithClock(k, t, next) == [k EXCEPT !.current = t, !.updated = TRUE, !.ts_flush = next]

\* Only the clock and the schedule change.
Rescheduled(k, k1, t) ==
    /\ k1 \in ControlBlock /\ SameQueue(k, k1)
    /\ k1.current = t /\ k1.updated = TRUE
    /\ k1.snd_buf = k.snd_buf /\ k1.rx_srtt = k.rx_srtt /\ k1.rx_rto = k.rx_rto
    /\ SameProbe(k, k1) /\ SameWindows(k, k1)

LEMMA ClockMade ==
    ASSUME NEW k \in ControlBlock, NEW t \in Time, NEW next \in Time,
           NEW k1, k1 = WithClock(k, t, next)
    PROVE  Rescheduled(k, k1, t) /\ k1.ts_flush = next
<1>1. k1 \in ControlBlock
  BY DEF ControlBlock, WithClock
<1>2. k1.current = t /\ k1.updated = TRUE /\ k1.ts_flush = next
  BY DEF ControlBlock, WithClock
<1>3. k1.snd_nxt = k.snd_nxt /\ k1.nsnd_que = k.nsnd_que
  BY DEF ControlBlock, WithClock
<1>4. k1.snd_buf = k.snd_buf /\ k1.rx_srtt = k.rx_srtt /\ k1.rx_rto = k.rx_rto
  BY DEF ControlBlock, WithClock
<1>5. k1.ts_probe = k.ts_probe /\ k1.probe_wait = k.probe_wait
  BY DEF ControlBlock, WithClock
<1>6. k1.cwnd = k.cwnd /\ k1.rmt_wnd = k.rmt_wnd /\ k1.snd_una = k.snd_una
  BY DEF ControlBlock, WithClock
<1> QED BY <1>1, <1>2, <1>3, <1>4, <1>5, <1>6 DEF Rescheduled, SameQueue, SameProbe, SameWindows

\* The schedule after an update at the moment m: an interval ahead at most,
\* wherever it was; an update that does not flush leaves it alone.
LEMMA ScheduledIs ==
    ASSUME use \in Uses, NEW m \in 0..MaxTime, NEW k \in ControlBlock, Timed(k, m),
           NEW t, t = Plus(use.start, m)
    PROVE  /\ Rescheduled(k, Scheduled(k, t), t) /\ Timed(Scheduled(k, t), m)
           /\ Slap(k, t) \in Int
           /\ Slap(k, t) < 0 => k.updated /\ Scheduled(k, t).ts_flush = k.ts_flush
<1> DEFINE d == Diff(t, k.ts_flush)
           slap == Slap(k, t)
           base == IF k.updated /\ d = slap THEN k.ts_flush ELSE t
           ahead == Plus(base, Interval)
           next == IF slap < 0 THEN base
                   ELSE IF Diff(t, ahead) >= 0 THEN Plus(t, Interval)
                   ELSE ahead
           k1 == WithClock(k, t, next)
<1>1. Scheduled(k, t) = k1
  BY DEF Scheduled, WithClock
<1>2. /\ m \in Nat /\ m <= MaxTime /\ Interval \in Nat /\ Interval > 0 /\ Interval <= SlapLimit
      /\ MaxTime + SlapLimit <= Far /\ Far \in Nat /\ SlapLimit \in Nat /\ MaxTime \in Nat
      /\ k.updated \in BOOLEAN
  BY FarIs, ConfigIs, BlockIs
<1>3. t \in Time /\ Plus(t, Interval) = Plus(use.start, m + Interval)
  <2>1. m <= m + Far /\ Interval <= Far
    BY <1>2
  <2> QED BY <1>2, <2>1, MomentsDiffer, TimerFrom
<1>4. \E b \in 1..Interval : next = Plus(use.start, m + b)
  <2>1. CASE base = t /\ slap >= 0
    <3>1. next = Plus(t, Interval)
      <4>1. slap \in Int
        <5>1. d \in Int
          BY <1>3, BlockIs, DiffIs
        <5> QED BY <5>1 DEF Slap
      <4>2. ahead = Plus(t, Interval) /\ ~ (slap < 0)
        <5> HIDE DEF base, slap
        <5> QED BY <2>1, <4>1
      <4> HIDE DEF ahead, base, slap
      <4> QED BY <4>2
    <3>2. Interval \in 1..Interval
      BY <1>2
    <3> HIDE DEF next
    <3> QED BY <1>3, <3>1, <3>2
  <2>2. CASE ~ (base = t /\ slap >= 0)
    <3>1. k.updated /\ d = slap /\ base = k.ts_flush
      <4>1. CASE ~k.updated
        BY <2>2, <4>1 DEF Slap
      <4>2. CASE k.updated /\ d # slap
        <5>1. slap = 0 /\ base = t
          BY <4>2 DEF Slap
        <5> QED BY <2>2, <5>1
      <4> QED BY <1>2, <4>1, <4>2
    <3>2. PICK a \in 0..m, b \in 1..Interval :
              k.current = Plus(use.start, a) /\ k.ts_flush = Plus(use.start, a + b)
      BY <3>1 DEF Timed
    <3> DEFINE c == a + b
    <3>3. c \in Nat /\ c <= m + Far /\ a \in Nat /\ b \in Nat
      BY <1>2
    <3>4. d = m - c /\ base = Plus(use.start, c)
      <4> HIDE DEF c
      <4>1. k.ts_flush = Plus(use.start, c)
        BY <3>2 DEF c
      <4>2. Diff(Plus(use.start, m), Plus(use.start, c)) = m - c
        BY <1>2, <3>3, MomentsDiffer
      <4> QED BY <3>1, <4>1, <4>2
    <3>5. CASE d < 0
      <4>1. next = base
        BY <3>1, <3>5
      <4>2. c - m \in 1..Interval /\ m + (c - m) = c
        BY <1>2, <3>2, <3>3, <3>4, <3>5
      <4> HIDE DEF c, next
      <4>3. base = Plus(use.start, m + (c - m))
        BY <3>4, <4>2
      <4> QED BY <4>1, <4>2, <4>3
    <3>6. CASE ~ (d < 0)
      <4> DEFINE n == c + Interval
      <4>1. c <= m /\ c <= MaxTime /\ n \in Nat /\ n <= m + Far /\ Interval <= Far
        BY <1>2, <3>3, <3>4, <3>6
      <4>2. ahead = Plus(use.start, n)
        <5> HIDE DEF c
        <5>1. Plus(Plus(use.start, c), Interval) = Plus(use.start, c + Interval)
          BY <1>2, <3>3, <4>1, TimerFrom
        <5> QED BY <3>4, <5>1
      <4>3. Diff(t, ahead) = m - n
        <5> HIDE DEF n
        <5>1. Diff(Plus(use.start, m), Plus(use.start, n)) = m - n
          BY <1>2, <4>1, MomentsDiffer
        <5> QED BY <4>2, <5>1
      <4>4. CASE m - n >= 0
        <5>1. next = Plus(t, Interval)
          BY <3>1, <3>6, <4>3, <4>4
        <5>2. Interval \in 1..Interval
          BY <1>2
        <5> HIDE DEF next
        <5> QED BY <1>3, <5>1, <5>2
      <4>5. CASE ~ (m - n >= 0)
        <5>1. next = ahead
          BY <3>1, <3>6, <4>3, <4>5
        <5>2. n - m \in 1..Interval /\ m + (n - m) = n
          BY <1>2, <3>3, <4>1, <4>5
        <5> HIDE DEF n, next
        <5>3. ahead = Plus(use.start, m + (n - m))
          BY <4>2, <5>2
        <5> QED BY <5>1, <5>2, <5>3
      <4> QED BY <4>4, <4>5
    <3> QED BY <3>5, <3>6
  <2> QED BY <2>1, <2>2
<1>s. /\ slap \in Int
      /\ slap < 0 => k.updated /\ next = k.ts_flush
  <2>1. d \in Int
    BY <1>3, BlockIs, DiffIs
  <2>2. slap \in Int
    BY <2>1 DEF Slap
  <2>3. slap < 0 => k.updated /\ d = slap
    <3>1. SlapLimit > 0 /\ SlapLimit \in Nat
      BY <1>2, FarIs
    <3>2. CASE ~k.updated
      BY <3>2 DEF Slap
    <3>3. CASE k.updated
      BY <3>3 DEF Slap
    <3> QED BY <3>2, <3>3
  <2> HIDE DEF d, slap
  <2> QED BY <2>2, <2>3
<1> HIDE DEF next
<1>5. PICK b \in 1..Interval : next = Plus(use.start, m + b)
  BY <1>4
<1>6. next \in Time
  <2> DEFINE c == m + b
             s == use.start
  <2>1. c \in Nat /\ s \in Time
    BY <1>2, ConfigIs
  <2>2. next = Plus(s, c)
    BY <1>5
  <2> HIDE DEF c, s
  <2> QED BY <2>1, <2>2, PlusIs
<1>7. Rescheduled(k, k1, t) /\ k1.ts_flush = next
  BY <1>3, <1>6, ClockMade
<1> HIDE DEF k1
<1>8. Timed(k1, m)
  <2>1. k1.current = Plus(use.start, m) /\ m \in 0..m
    BY <1>2, <1>7 DEF Rescheduled
  <2> QED BY <1>5, <1>7, <2>1 DEF Timed
<1> QED BY <1>1, <1>7, <1>8, <1>s

-----------------------------------------------------------------------------
(* The inductive invariant *)

\* What n fast retransmissions of a segment must have been earned by.
Need(n) == Config.fastresend * n

\* One more must have been earned by fastresend more.
LEMMA NeedIs ==
    ASSUME use \in Uses, NEW n \in Nat
    PROVE  Need(n) \in Nat /\ Need(n + 1) = Need(n) + Config.fastresend
<1>1. Config.fastresend \in 0..2
  BY ConfigIs
<1>2. CASE Config.fastresend = 0
  BY <1>2 DEF Need
<1>3. CASE Config.fastresend = 1
  BY <1>3 DEF Need
<1>4. CASE Config.fastresend = 2
  BY <1>4 DEF Need
<1> QED BY <1>1, <1>2, <1>3, <1>4

\* Every segment in flight was sent when the history says so.
Airborne(k, sent, m) ==
    \A sn \in DOMAIN k.snd_buf : Flying(k.snd_buf[sn], sent[sn], m)

\* What counts against a segment was not yet spent on a fast retransmission.
Earned(k, over, fast) ==
    /\ \A sn \in DOMAIN k.snd_buf : over[sn] >= Need(fast[sn]) + k.snd_buf[sn].fastack
    /\ \A sn \in Sn : over[sn] >= Need(fast[sn]) /\ (fast[sn] > 0 => Config.fastresend > 0)

\* The control block k at the moment m; with flush_write, whose flushes run on an
\* old time, only its types and its schedule.
Ready(k, sent, over, fast, m) ==
    /\ Sound(k) /\ Room(k) /\ Timed(k, m)
    /\ ~use.flushing => Airborne(k, sent, m) /\ Earned(k, over, fast)

\* What is under way was sent in this use, and says when.
Truthful(n, m) ==
    /\ n \subseteq [sn : Sn, ts : Time, at : Time]
    /\ \A e \in n : Within(e.at, m) /\ (~use.flushing => e.ts = e.at)

\* The inductive invariant.
IInv ==
    /\ TypeOK
    /\ now = Plus(use.start, time)
    /\ Ready(kcp, sentAt, overtaken, fastResent, time)
    /\ Truthful(net, time)
    /\ net # {} => kcp.updated
    /\ SampleIsRoundTrip

\* The state after the engine of k was updated or flushed at the moment m.
After(k, over, m) ==
    /\ Ready(kcp', sentAt', over, fastResent', m)
    /\ Truthful(net', m)
    /\ kcp'.updated = TRUE /\ kcp'.rx_srtt = k.rx_srtt
    /\ sentAt' \in [Sn -> Nat] /\ fastResent' \in [Sn -> Nat]
    /\ asked' \in BOOLEAN /\ probedAt' \in Time

\* A flush of the engine of k, on the time of its last update.
LEMMA OutputKeeps ==
    ASSUME TypeOK, NEW m \in 0..MaxTime, now = Plus(use.start, m),
           NEW k, NEW over, over \in [Sn -> Nat],
           Ready(k, sentAt, over, fastResent, m), k.updated,
           ~use.flushing => k.current = now,
           NEW rest, Truthful(rest, m), Output(k, rest)
    PROVE  After(k, over, m)
<1> DEFINE p == Prepared(k)
           f == Flush(k)
           D == DOMAIN p.snd_buf
           seg(sn) == p.snd_buf[sn]
           out == {sn \in D : Due(p, p.snd_buf[sn])}
           fast == {sn \in out : Skipped(p, p.snd_buf[sn])}
<1>1. use \in Uses /\ sentAt \in [Sn -> Nat] /\ fastResent \in [Sn -> Nat]
      /\ now \in Time /\ asked \in BOOLEAN /\ probedAt \in Time
  BY DEF TypeOK
<1>2. Sound(k) /\ Room(k) /\ Timed(k, m)
  BY DEF Ready
<1>3. Flushed(k, p, f)
  BY <1>1, <1>2, FlushIs
<1>4. /\ kcp' = f
      /\ net' = rest \cup {[sn |-> sn, ts |-> Transmitted(p, p.snd_buf[sn]).ts, at |-> now] :
                               sn \in out}
      /\ sentAt' = [sn \in Sn |-> IF sn \in out THEN now ELSE sentAt[sn]]
      /\ fastResent' = [sn \in Sn |-> fastResent[sn] + IF sn \in fast THEN 1 ELSE 0]
      /\ asked' = (asked \/ Asks(k))
      /\ probedAt' = IF Asks(k) \/ k.rmt_wnd # 0 THEN now ELSE probedAt
  BY DEF Output
<1> HIDE DEF p, f
<1>5. /\ Sound(p) /\ p.current = k.current /\ D \subseteq Sn
      /\ \A sn \in D : p.snd_buf[sn] \in Segment
      /\ \A sn \in D : \/ sn \in DOMAIN k.snd_buf /\ p.snd_buf[sn] = k.snd_buf[sn]
                       \/ p.snd_buf[sn].xmit = 0 /\ p.snd_buf[sn].fastack = 0
  <2>1. Sound(p) /\ p.current = k.current
    BY <1>3 DEF Flushed, Numbered, SameClock
  <2>2. D \subseteq Sn /\ \A sn \in D : p.snd_buf[sn] \in Segment
    BY <2>1, BlockIs DEF Sound
  <2>3. \A sn \in D : \/ sn \in DOMAIN k.snd_buf /\ p.snd_buf[sn] = k.snd_buf[sn]
                      \/ p.snd_buf[sn].xmit = 0 /\ p.snd_buf[sn].fastack = 0
    BY <1>3 DEF Flushed, Numbered
  <2> QED BY <2>1, <2>2, <2>3
<1>6. /\ Sound(f) /\ Room(f) /\ SameClock(k, f) /\ f.rx_srtt = k.rx_srtt
      /\ DOMAIN f.snd_buf = D
      /\ \A sn \in D : /\ sn \in out => Sent(p, p.snd_buf[sn], f.snd_buf[sn])
                       /\ sn \notin out => f.snd_buf[sn] = p.snd_buf[sn] /\ p.snd_buf[sn].xmit # 0
  BY <1>3 DEF Flushed, Due
<1>7. \A sn \in fast : Skipped(p, p.snd_buf[sn])
  OBVIOUS
<1>8. \A sn \in D : Skipped(p, p.snd_buf[sn]) => sn \in fast
  BY DEF Due
<1>9. out \subseteq D /\ fast \subseteq out
  OBVIOUS
<1>10. Timed(f, m) /\ f.updated = TRUE
  <2>1. k.updated = TRUE
    BY <1>2, BlockIs DEF Sound
  <2> QED BY <1>2, <1>6, <2>1 DEF Timed, SameClock
<1>11. Truthful(net', m)
  <2>1. ASSUME NEW sn \in out
        PROVE  /\ sn \in Sn /\ Transmitted(p, p.snd_buf[sn]).ts \in Time
               /\ Transmitted(p, p.snd_buf[sn]).ts = k.current
    <3>1. Due(p, p.snd_buf[sn]) /\ p.snd_buf[sn] \in Segment
      BY <1>5
    <3>2. Sent(p, p.snd_buf[sn], Transmitted(p, p.snd_buf[sn]))
      <4> DEFINE s == p.snd_buf[sn]
      <4>1. s \in Segment /\ Due(p, s)
        BY <3>1
      <4> HIDE DEF s
      <4>2. Sent(p, s, Transmitted(p, s))
        BY <1>1, <1>5, <4>1, TransmittedIs
      <4> QED BY <4>2 DEF s
    <3>3. k.current \in Time
      BY <1>2, BlockIs DEF Sound
    <3> QED BY <1>5, <3>2, <3>3 DEF Sent
  <2>2. Within(now, m)
    BY DEF Within
  <2> HIDE DEF out
  <2>3. ASSUME NEW e \in net'
        PROVE  e \in [sn : Sn, ts : Time, at : Time] /\ Within(e.at, m)
               /\ (~use.flushing => e.ts = e.at)
    <3>1. CASE e \in rest
      BY <3>1 DEF Truthful
    <3>2. CASE e \notin rest
      <4>1. PICK sn \in out :
                e = [sn |-> sn, ts |-> Transmitted(p, p.snd_buf[sn]).ts, at |-> now]
        BY <1>4, <3>2
      <4>2. e.at = now /\ e.ts = k.current /\ e \in [sn : Sn, ts : Time, at : Time]
        BY <1>1, <2>1, <4>1
      <4> QED BY <2>2, <4>2
    <3> QED BY <3>1, <3>2
  <2> QED BY <2>3 DEF Truthful
<1> HIDE DEF out, fast
<1>12. ASSUME ~use.flushing PROVE Airborne(f, sentAt', m)
  <2> SUFFICES ASSUME NEW sn \in D PROVE Flying(f.snd_buf[sn], sentAt'[sn], m)
    BY <1>6 DEF Airborne
  <2> DEFINE s == p.snd_buf[sn]
             t == f.snd_buf[sn]
  <2>1. s \in Segment /\ (s.xmit = 0 \/ Flying(s, sentAt[sn], m))
    BY <1>5, <1>12 DEF Ready, Airborne
  <2>2. CASE sn \in out
    <3>1. Sent(p, s, t) /\ p.current = Plus(use.start, m)
      BY <1>5, <1>6, <1>12, <2>2
    <3> HIDE DEF s, t
    <3>2. Flying(t, Plus(use.start, m), m)
      BY <1>1, <1>5, <2>1, <3>1, FlyingSent
    <3>3. sentAt'[sn] = Plus(use.start, m)
      BY <1>4, <1>5, <2>2
    <3> QED BY <3>2, <3>3 DEF t
  <2>3. CASE sn \notin out
    BY <1>4, <1>5, <1>6, <2>1, <2>3
  <2> QED BY <2>2, <2>3
<1>13. ASSUME ~use.flushing PROVE Earned(f, over, fastResent')
  <2>0. Earned(k, over, fastResent) /\ Config.fastresend \in Nat
    BY <1>1, <1>13, ConfigIs DEF Ready
  <2>1. ASSUME NEW sn \in D
        PROVE  /\ over[sn] >= Need(fastResent'[sn]) + f.snd_buf[sn].fastack
               /\ over[sn] >= Need(fastResent'[sn])
               /\ fastResent'[sn] > 0 => Config.fastresend > 0
    <3> DEFINE s == p.snd_buf[sn]
               t == f.snd_buf[sn]
               n == fastResent[sn]
    <3>1. /\ s \in Segment /\ s.fastack \in Nat /\ n \in Nat /\ over[sn] \in Nat /\ sn \in Sn
          /\ Need(n) \in Nat /\ Need(n + 1) = Need(n) + Config.fastresend
      <4>1. s \in Segment /\ n \in Nat /\ over[sn] \in Nat /\ sn \in Sn
        BY <1>1, <1>5
      <4>2. Need(n) \in Nat /\ Need(n + 1) = Need(n) + Config.fastresend
        <5> HIDE DEF n
        <5> QED BY <1>1, <4>1, NeedIs
      <4> QED BY <4>1, <4>2 DEF Segment
    <3>2. over[sn] >= Need(n) /\ (n > 0 => Config.fastresend > 0)
          /\ (s.xmit # 0 => over[sn] >= Need(n) + s.fastack)
          /\ (s.xmit = 0 => over[sn] >= Need(n) + s.fastack)
      <4>1. over[sn] >= Need(n) /\ (n > 0 => Config.fastresend > 0)
        BY <2>0, <3>1 DEF Earned
      <4>2. CASE sn \in DOMAIN k.snd_buf /\ p.snd_buf[sn] = k.snd_buf[sn]
        BY <2>0, <4>1, <4>2 DEF Earned
      <4>3. CASE p.snd_buf[sn].xmit = 0 /\ p.snd_buf[sn].fastack = 0
        <5>1. Need(n) + s.fastack = Need(n)
          BY <3>1, <4>3
        <5> QED BY <4>1, <4>3, <5>1
      <4> QED BY <1>5, <4>2, <4>3
    <3>3. CASE sn \in fast
      <4>1. /\ Skipped(p, s) /\ s.xmit > 0 /\ ~TimedOut(p, s)
            /\ Config.fastresend > 0 /\ s.fastack >= Config.fastresend
        BY <1>7, <3>3 DEF Skipped
      <4>2. t.fastack = 0
        <5>1. Sent(p, s, t) /\ s.xmit # 0
          BY <1>6, <1>9, <3>3, <4>1
        <5> HIDE DEF s, t
        <5> QED BY <4>1, <5>1 DEF Sent
      <4>3. fastResent'[sn] = n + 1
        BY <1>4, <3>1, <3>3
      <4> HIDE DEF s, t, n
      <4>4. over[sn] >= Need(n + 1) /\ Need(n + 1) \in Nat
        BY <2>0, <3>1, <3>2, <4>1
      <4>5. over[sn] >= Need(n + 1) + t.fastack
        BY <3>1, <4>2, <4>4
      <4> QED BY <4>1, <4>3, <4>4, <4>5 DEF t
    <3>4. CASE sn \notin fast
      <4>1. fastResent'[sn] = n
        BY <1>4, <3>1, <3>4
      <4>2. t.fastack = s.fastack
        <5>1. ~Skipped(p, s)
          BY <1>8, <3>4
        <5>2. CASE sn \in out
          <6>1. Sent(p, s, t)
            BY <1>6, <5>2
          <6> HIDE DEF s, t
          <6> QED BY <5>1, <6>1 DEF Sent
        <5>3. CASE sn \notin out
          BY <1>6, <5>3
        <5> QED BY <5>2, <5>3
      <4> HIDE DEF s, t, n
      <4>3. over[sn] >= Need(n) + t.fastack
        BY <3>2, <4>2
      <4> QED BY <3>2, <4>1, <4>3 DEF t
    <3> QED BY <3>3, <3>4
  <2>2. ASSUME NEW sn \in Sn \ D
        PROVE  over[sn] >= Need(fastResent'[sn]) /\ (fastResent'[sn] > 0 => Config.fastresend > 0)
    <3>1. fastResent'[sn] = fastResent[sn]
      BY <1>1, <1>4, <1>9
    <3> QED BY <2>0, <3>1 DEF Earned
  <2> QED BY <1>6, <2>1, <2>2 DEF Earned
<1>14. sentAt' \in [Sn -> Nat] /\ fastResent' \in [Sn -> Nat]
  <2>1. now \in Nat
    BY <1>1, FarIs DEF Time
  <2> QED BY <1>1, <1>4, <2>1
<1>15. asked' \in BOOLEAN /\ probedAt' \in Time
  <2>1. Asks(k) \in BOOLEAN
    BY DEF Asks
  <2> QED BY <1>1, <1>4, <2>1
<1>16. kcp' = f
  BY <1>4
<1>17. Ready(f, sentAt', over, fastResent', m)
  BY <1>6, <1>10, <1>12, <1>13 DEF Ready
<1> QED BY <1>6, <1>10, <1>11, <1>14, <1>15, <1>16, <1>17 DEF After

\* An update of the engine of k: the clock, and perhaps a flush.
LEMMA UpdateKeeps ==
    ASSUME TypeOK, NEW m \in 0..MaxTime, now = Plus(use.start, m),
           NEW k, NEW over, over \in [Sn -> Nat],
           Ready(k, sentAt, over, fastResent, m),
           NEW rest, Truthful(rest, m), Update(k, rest)
    PROVE  After(k, over, m)
<1> DEFINE k1 == Scheduled(k, now)
<1>1. /\ use \in Uses /\ k \in ControlBlock /\ Timed(k, m)
      /\ sentAt \in [Sn -> Nat] /\ fastResent \in [Sn -> Nat]
      /\ now \in Time /\ asked \in BOOLEAN /\ probedAt \in Time
  BY DEF TypeOK, Ready, Sound
<1>2. Rescheduled(k, k1, now) /\ Timed(k1, m)
  BY <1>1, ScheduledIs
<1>3. \/ Output(k1, rest)
      \/ /\ kcp' = k1 /\ net' = rest
         /\ probedAt' = IF k.rmt_wnd # 0 THEN now ELSE probedAt
         /\ UNCHANGED <<sentAt, fastResent, asked>>
  BY DEF Update
<1> HIDE DEF k1
<1>4. Ready(k1, sentAt, over, fastResent, m)
  <2>1. Sound(k1) /\ Room(k1)
    BY <1>2 DEF Rescheduled, Ready, Sound, Room, SameQueue
  <2>2. ~use.flushing => Airborne(k1, sentAt, m) /\ Earned(k1, over, fastResent)
    BY <1>2 DEF Rescheduled, Ready, Airborne, Earned
  <2> QED BY <1>2, <2>1, <2>2 DEF Ready
<1>5. k1.updated = TRUE /\ k1.current = now /\ k1.rx_srtt = k.rx_srtt
  BY <1>2 DEF Rescheduled
<1>6. CASE Output(k1, rest)
  <2>1. After(k1, over, m)
    BY <1>4, <1>5, <1>6, OutputKeeps
  <2> QED BY <1>5, <2>1 DEF After
<1>7. CASE /\ kcp' = k1 /\ net' = rest
           /\ probedAt' = IF k.rmt_wnd # 0 THEN now ELSE probedAt
           /\ UNCHANGED <<sentAt, fastResent, asked>>
  <2>1. Ready(kcp', sentAt', over, fastResent', m) /\ Truthful(net', m)
    BY <1>4, <1>7
  <2> QED BY <1>1, <1>5, <1>7, <2>1 DEF After
<1> QED BY <1>3, <1>6, <1>7

\* A step that starts no other use leaves what it finds as it means it.
LEMMA Primed ==
    ASSUME use' = use, NEW k, NEW sent, NEW over, NEW fast, NEW m, NEW n,
           k = kcp', sent = sentAt', over = overtaken', fast = fastResent', m = time', n = net',
           Ready(k, sent, over, fast, m), Truthful(n, m)
    PROVE  /\ Ready(kcp, sentAt, overtaken, fastResent, time)'
           /\ Truthful(net, time)'
<1>1. Config' = Config /\ use'.start = use.start /\ use'.flushing = use.flushing
      /\ Interval' = Interval
  BY DEF Config, Interval
<1>2. Truthful(net, time)'
  BY <1>1 DEF Truthful, Within
<1>3. Sound(kcp)' /\ Room(kcp)'
  BY <1>1 DEF Ready, Sound, Room
<1>4. Timed(kcp, time)'
  BY <1>1 DEF Ready, Timed
<1>5. Airborne(k, sent, m) => Airborne(kcp, sentAt, time)'
  BY <1>1 DEF Airborne, Flying
<1>6. Earned(k, over, fast) => Earned(kcp, overtaken, fastResent)'
  BY <1>1 DEF Earned, Need
<1> QED BY <1>1, <1>2, <1>3, <1>4, <1>5, <1>6 DEF Ready

-----------------------------------------------------------------------------
(* Each step preserves the invariant *)

\* So it does when an engine was updated or flushed and time did not pass.
LEMMA AfterKeeps ==
    ASSUME TypeOK, now = Plus(use.start, time),
           NEW k, NEW over, over = overtaken', over \in [Sn -> Nat],
           NEW m, m = time, After(k, over, m),
           got' \subseteq Sn, NEW s \in Nat, s = slowest',
           ~use.flushing => k.rx_srtt <= Max({1, s}),
           UNCHANGED <<use, now, time>>, NoteBlocked
    PROVE  IInv'
<1>1. Ready(kcp', sentAt', over, fastResent', m) /\ Truthful(net', m)
  BY DEF After
<1>2. Ready(kcp, sentAt, overtaken, fastResent, time)' /\ Truthful(net, time)'
  <2> DEFINE k2 == kcp'
             sent == sentAt'
             fast == fastResent'
             n == net'
  <2>1. Ready(k2, sent, over, fast, m) /\ Truthful(n, m) /\ m = time'
    BY <1>1
  <2>2. k2 = kcp' /\ sent = sentAt' /\ fast = fastResent' /\ n = net' /\ use' = use
    OBVIOUS
  <2> HIDE DEF k2, sent, fast, n
  <2> QED BY <2>1, <2>2, Primed
<1>3. kcp' \in ControlBlock /\ net' \subseteq [sn : Sn, ts : Time, at : Time]
  BY <1>1 DEF Ready, Sound, Truthful
<1>4. sentAt' \in [Sn -> Nat] /\ fastResent' \in [Sn -> Nat] /\ asked' \in BOOLEAN
      /\ probedAt' \in Time /\ kcp'.updated = TRUE /\ kcp'.rx_srtt = k.rx_srtt
  BY DEF After
<1>5. blockedAt' \in Time /\ use' \in Uses /\ now' \in Time /\ time' \in 0..MaxTime
  BY DEF NoteBlocked, TypeOK
<1>6. TypeOK'
  BY <1>3, <1>4, <1>5 DEF TypeOK
<1>7. SampleIsRoundTrip'
  BY <1>4 DEF SampleIsRoundTrip
<1>8. (now = Plus(use.start, time))' /\ (net # {} => kcp.updated)'
  BY <1>4
<1> QED BY <1>2, <1>6, <1>7, <1>8 DEF IInv

\* An update on a tick.
LEMMA TickKeeps ==
    ASSUME IInv, Tick
    PROVE  IInv'
<1>1. /\ TypeOK /\ now = Plus(use.start, time) /\ Truthful(net, time)
      /\ Ready(kcp, sentAt, overtaken, fastResent, time) /\ SampleIsRoundTrip
  BY DEF IInv
<1>2. /\ overtaken \in [Sn -> Nat] /\ got \subseteq Sn /\ slowest \in Nat
      /\ time \in 0..MaxTime
  BY <1>1 DEF TypeOK
<1>3. /\ Update(kcp, net) /\ UNCHANGED <<use, now, time, got, slowest, overtaken>>
      /\ NoteBlocked
  BY DEF Tick
<1>4. After(kcp, overtaken, time)
  BY <1>1, <1>2, <1>3, UpdateKeeps
<1>5. got' \subseteq Sn /\ slowest = slowest' /\ overtaken = overtaken'
      /\ (~use.flushing => kcp.rx_srtt <= Max({1, slowest}))
      /\ UNCHANGED <<use, now, time>>
  BY <1>1, <1>2, <1>3 DEF SampleIsRoundTrip
<1> QED BY <1>1, <1>2, <1>3, <1>4, <1>5, AfterKeeps

WithQueue(k, n) == [k EXCEPT !.nsnd_que = n]

LEMMA QueueMade ==
    ASSUME NEW k \in ControlBlock, NEW n \in Nat,
           NEW k1, k1 = WithQueue(k, n)
    PROVE  /\ k1 \in ControlBlock
           /\ SameClock(k, k1) /\ k1.snd_nxt = k.snd_nxt /\ k1.nsnd_que = n
           /\ k1.snd_buf = k.snd_buf /\ k1.rx_srtt = k.rx_srtt /\ k1.rx_rto = k.rx_rto
           /\ SameProbe(k, k1) /\ SameWindows(k, k1)
<1>1. k1 \in ControlBlock
  BY DEF ControlBlock, WithQueue
<1>2. k1.current = k.current /\ k1.updated = k.updated /\ k1.ts_flush = k.ts_flush
  BY DEF ControlBlock, WithQueue
<1>3. k1.snd_nxt = k.snd_nxt /\ k1.nsnd_que = n
  BY DEF ControlBlock, WithQueue
<1>4. k1.snd_buf = k.snd_buf /\ k1.rx_srtt = k.rx_srtt /\ k1.rx_rto = k.rx_rto
  BY DEF ControlBlock, WithQueue
<1>5. k1.ts_probe = k.ts_probe /\ k1.probe_wait = k.probe_wait
  BY DEF ControlBlock, WithQueue
<1>6. k1.cwnd = k.cwnd /\ k1.rmt_wnd = k.rmt_wnd /\ k1.snd_una = k.snd_una
  BY DEF ControlBlock, WithQueue
<1> QED BY <1>1, <1>2, <1>3, <1>4, <1>5, <1>6 DEF SameClock, SameProbe, SameWindows

\* A flush of flush_write runs on the time of the last update: that is why
\* what the invariant says of the timers is for sessions without it.
LEMMA WriteKeeps ==
    ASSUME IInv, Write
    PROVE  IInv'
<1> DEFINE n == kcp.nsnd_que + 1
           k == WithQueue(kcp, n)
<1>1. /\ TypeOK /\ now = Plus(use.start, time) /\ Truthful(net, time)
      /\ Ready(kcp, sentAt, overtaken, fastResent, time) /\ SampleIsRoundTrip
      /\ (net # {} => kcp.updated)
  BY DEF IInv
<1>2. /\ overtaken \in [Sn -> Nat] /\ got \subseteq Sn /\ slowest \in Nat
      /\ time \in 0..MaxTime /\ kcp \in ControlBlock /\ use \in Uses
  BY <1>1 DEF TypeOK
<1>3. /\ kcp.snd_nxt + kcp.nsnd_que < use.writes
      /\ \/ use.flushing /\ kcp.updated /\ Output(k, net)
         \/ kcp' = k /\ UNCHANGED <<net, sentAt, fastResent, asked, probedAt>>
      /\ UNCHANGED <<use, now, time, got, slowest, overtaken>>
      /\ NoteBlocked
  <2>1. k = [kcp EXCEPT !.nsnd_que = @ + 1]
    BY <1>2 DEF WithQueue, ControlBlock
  <2> HIDE DEF k
  <2> QED BY <2>1 DEF Write
<1>4. n \in Nat /\ kcp.snd_nxt + n <= MaxWrites
  <2>1. kcp.snd_nxt \in Nat /\ kcp.nsnd_que \in Nat /\ use.writes \in 0..MaxWrites
    BY <1>2, BlockIs, ConfigIs
  <2> QED BY <1>3, <2>1, SnIs
<1> HIDE DEF n
<1>5. /\ k \in ControlBlock /\ SameClock(kcp, k) /\ k.snd_nxt = kcp.snd_nxt /\ k.nsnd_que = n
      /\ k.snd_buf = kcp.snd_buf /\ k.rx_srtt = kcp.rx_srtt /\ k.rx_rto = kcp.rx_rto
  BY <1>2, <1>4, QueueMade
<1> HIDE DEF k
<1>6. Ready(k, sentAt, overtaken, fastResent, time)
  <2>1. Sound(k) /\ Room(k) /\ Timed(k, time)
    BY <1>1, <1>4, <1>5 DEF Ready, Sound, Room, Timed, SameClock
  <2>2. ~use.flushing => Airborne(k, sentAt, time) /\ Earned(k, overtaken, fastResent)
    BY <1>1, <1>5 DEF Ready, Airborne, Earned
  <2> QED BY <2>1, <2>2 DEF Ready
<1>7. CASE use.flushing /\ kcp.updated /\ Output(k, net)
  <2>1. k.updated /\ (~use.flushing => k.current = now)
    BY <1>5, <1>7 DEF SameClock
  <2>2. After(k, overtaken, time)
    BY <1>1, <1>2, <1>6, <1>7, <2>1, OutputKeeps
  <2>3. got' \subseteq Sn /\ slowest = slowest' /\ overtaken = overtaken'
        /\ UNCHANGED <<use, now, time>> /\ (~use.flushing => k.rx_srtt <= Max({1, slowest}))
    BY <1>2, <1>3, <1>7
  <2> QED BY <1>1, <1>2, <1>3, <2>2, <2>3, AfterKeeps
<1>8. CASE kcp' = k /\ UNCHANGED <<net, sentAt, fastResent, asked, probedAt>>
  <2>1. Ready(kcp, sentAt, overtaken, fastResent, time)' /\ Truthful(net, time)'
    <3>1. k = kcp' /\ sentAt = sentAt' /\ overtaken = overtaken' /\ fastResent = fastResent'
          /\ time = time' /\ net = net' /\ use' = use
      BY <1>3, <1>8
    <3> QED BY <1>1, <1>6, <3>1, Primed
  <2>2. blockedAt' \in Time
    BY <1>1, <1>3 DEF NoteBlocked, TypeOK
  <2>3. TypeOK'
    BY <1>1, <1>3, <1>5, <1>8, <2>2 DEF TypeOK
  <2>4. SampleIsRoundTrip'
    BY <1>1, <1>3, <1>5, <1>8 DEF SampleIsRoundTrip
  <2>5. (now = Plus(use.start, time))' /\ (net # {} => kcp.updated)'
    BY <1>1, <1>3, <1>5, <1>8 DEF SameClock
  <2> QED BY <2>1, <2>3, <2>4, <2>5 DEF IInv
<1> QED BY <1>3, <1>7, <1>8

\* Time passes and moments remain moments.
LEMMA AdvanceKeeps ==
    ASSUME IInv, NEW d \in use.steps, Advance(d)
    PROVE  IInv'
<1>1. /\ TypeOK /\ now = Plus(use.start, time) /\ Truthful(net, time)
      /\ Ready(kcp, sentAt, overtaken, fastResent, time) /\ SampleIsRoundTrip
      /\ (net # {} => kcp.updated)
  BY DEF IInv
<1>2. use \in Uses /\ time \in 0..MaxTime
  BY <1>1 DEF TypeOK
<1>3. /\ time + d <= use.lasts /\ time' = time + d /\ now' = Plus(now, d)
      /\ UNCHANGED <<use, kcp, net, got, asked, sentAt, slowest, overtaken, fastResent, probedAt>>
      /\ NoteBlocked
  BY DEF Advance
<1>4. /\ d \in Nat /\ d <= MaxTime /\ time' \in 0..MaxTime /\ time <= time'
      /\ time \in Nat /\ time' \in Nat /\ time <= MaxTime
  <2>1. d \in 1..MaxTime /\ use.lasts \in 0..MaxTime
    BY <1>2, ConfigIs
  <2> QED BY <1>2, <1>3, <2>1, FarIs
<1>5. now' = Plus(use.start, time') /\ now' \in Time
  <2>1. d <= Far
    BY <1>4, FarIs
  <2>2. now' = Plus(use.start, time + d)
    BY <1>1, <1>2, <1>3, <1>4, <2>1, TimerFrom
  <2>3. use.start \in Time
    BY <1>2, ConfigIs
  <2> DEFINE t == time'
             s == use.start
  <2>4. t \in Nat /\ s \in Time
    BY <1>4, <2>3
  <2> HIDE DEF t, s
  <2>5. Plus(s, t) \in Time
    BY <2>4, PlusIs
  <2> QED BY <1>3, <2>2, <2>5 DEF t, s
<1> DEFINE t == time'
<1>6. t \in Nat /\ time <= t
  BY <1>4
<1>7. Ready(kcp, sentAt, overtaken, fastResent, t) /\ Truthful(net, t)
  <2> HIDE DEF t
  <2>1. /\ \A x : Within(x, time) => Within(x, t)
        /\ \A k : Timed(k, time) => Timed(k, t)
        /\ \A seg, at : Flying(seg, at, time) => Flying(seg, at, t)
    BY <1>4, <1>6, TimePasses
  <2>2. Truthful(net, t)
    BY <1>1, <2>1 DEF Truthful
  <2>3. Airborne(kcp, sentAt, time) => Airborne(kcp, sentAt, t)
    BY <2>1 DEF Airborne
  <2> QED BY <1>1, <2>1, <2>2, <2>3 DEF Ready
<1>8. Ready(kcp, sentAt, overtaken, fastResent, time)' /\ Truthful(net, time)'
  <2>1. kcp = kcp' /\ sentAt = sentAt' /\ overtaken = overtaken' /\ fastResent = fastResent'
        /\ t = time' /\ net = net' /\ use' = use
    BY <1>3
  <2> HIDE DEF t
  <2> QED BY <1>7, <2>1, Primed
<1>9. blockedAt' \in Time
  BY <1>1, <1>3, <1>5 DEF NoteBlocked, TypeOK
<1>10. TypeOK'
  BY <1>1, <1>3, <1>4, <1>5, <1>9 DEF TypeOK
<1>11. SampleIsRoundTrip' /\ (net # {} => kcp.updated)' /\ (now = Plus(use.start, time))'
  BY <1>1, <1>3, <1>5 DEF SampleIsRoundTrip
<1> QED BY <1>8, <1>10, <1>11 DEF IInv

\* The greatest of some numbers with a bound.
LEMMA MaxIs ==
    ASSUME NEW n \in Nat, NEW T \in SUBSET (0..n), T # {}
    PROVE  Max(T) \in T /\ \A t \in T : Max(T) >= t
<1>1. \E x \in T : \A y \in T : x >= y
  BY GreatestNumber
<1> QED BY <1>1 DEF Max

\* over1 counts one datagram more than over against every segment that it
\* acknowledged a later one of, sent no earlier.
Counted(n, acks, sent, over, over1) ==
    /\ over \in [Sn -> Nat] /\ over1 \in [Sn -> Nat]
    /\ \A sn \in Sn : \/ over1[sn] = over[sn] + 1
                      \/ over1[sn] = over[sn] /\ (~use.flushing => \A i \in 1..n :
                             ~ (sn < acks[i].sn /\ Diff(acks[i].ts, sent[sn]) >= 0))

\* What a datagram of n ACKs makes of the engine, if it is counted.
LEMMA TakenKeeps ==
    ASSUME use \in Uses, NEW k, NEW k1, NEW n \in Nat, NEW acks, Taken(k, k1, n, acks),
           NEW sent, NEW over, NEW fast, NEW m, Ready(k, sent, over, fast, m),
           fast \in [Sn -> Nat], NEW over1, Counted(n, acks, sent, over, over1)
    PROVE  Ready(k1, sent, over1, fast, m)
<1>1. Sound(k1) /\ Room(k1) /\ Timed(k1, m)
  BY DEF Taken, Ready, Room, Timed, SameClock, SameQueue
<1>2. /\ DOMAIN k1.snd_buf \subseteq DOMAIN k.snd_buf /\ DOMAIN k1.snd_buf \subseteq Sn
      /\ \A sn \in DOMAIN k1.snd_buf : k1.snd_buf[sn] \in Segment
      /\ \A sn \in DOMAIN k.snd_buf : k.snd_buf[sn] \in Segment
  BY <1>1, BlockIs DEF Taken, Ready, Sound
<1>3. \A sn \in DOMAIN k1.snd_buf : Marked(sn, k.snd_buf[sn], k1.snd_buf[sn], n, acks)
  BY DEF Taken
<1>4. ASSUME ~use.flushing PROVE Airborne(k1, sent, m)
  <2> SUFFICES ASSUME NEW sn \in DOMAIN k1.snd_buf PROVE Flying(k1.snd_buf[sn], sent[sn], m)
    BY DEF Airborne
  <2>1. Flying(k.snd_buf[sn], sent[sn], m)
    BY <1>2, <1>4 DEF Ready, Airborne
  <2>2. SameSegment(k.snd_buf[sn], k1.snd_buf[sn])
    BY <1>3 DEF Marked
  <2> QED BY <2>1, <2>2 DEF Flying, SameSegment
<1>5. ASSUME ~use.flushing PROVE Earned(k1, over1, fast)
  <2>1. Earned(k, over, fast)
    BY <1>5 DEF Ready
  <2>2. ASSUME NEW sn \in Sn
        PROVE  over1[sn] >= Need(fast[sn]) /\ (fast[sn] > 0 => Config.fastresend > 0)
               /\ Need(fast[sn]) \in Nat /\ over[sn] \in Nat /\ over1[sn] \in Nat
    <3> DEFINE f == fast[sn]
    <3>1. f \in Nat /\ over[sn] \in Nat /\ over1[sn] \in Nat
          /\ (over1[sn] = over[sn] \/ over1[sn] = over[sn] + 1)
      BY DEF Counted
    <3>2. over[sn] >= Need(f) /\ (f > 0 => Config.fastresend > 0)
      BY <2>1 DEF Earned
    <3> HIDE DEF f
    <3>3. Need(f) \in Nat
      BY <3>1, NeedIs
    <3>4. over1[sn] >= over[sn]
      BY <3>1
    <3> QED BY <3>1, <3>2, <3>3, <3>4 DEF f
  <2>3. ASSUME NEW sn \in DOMAIN k1.snd_buf
        PROVE  over1[sn] >= Need(fast[sn]) + k1.snd_buf[sn].fastack
    <3> DEFINE a == k.snd_buf[sn].fastack
               b == k1.snd_buf[sn].fastack
               need == Need(fast[sn])
    <3>1. sn \in Sn /\ sn \in DOMAIN k.snd_buf /\ a \in Nat /\ b \in Nat
      BY <1>2 DEF Segment
    <3>2. over[sn] >= need + a
      BY <2>1, <3>1 DEF Earned
    <3>3. need \in Nat /\ over[sn] \in Nat /\ over1[sn] \in Nat
      BY <2>2, <3>1
    <3>4. b = a \/ (b = a + 1 /\ over1[sn] = over[sn] + 1)
      <4>1. CASE b = a
        BY <4>1
      <4>2. CASE b # a
        <5>1. PICK i \in 1..n : b = a + 1 /\ sn < acks[i].sn /\ Diff(acks[i].ts, k.snd_buf[sn].ts) >= 0
          BY <1>3, <4>2 DEF Marked
        <5>2. k.snd_buf[sn].ts = sent[sn]
          BY <1>5, <3>1 DEF Ready, Airborne, Flying
        <5>3. over1[sn] = over[sn] + 1
          BY <1>5, <3>1, <5>1, <5>2 DEF Counted
        <5> QED BY <5>1, <5>3
      <4> QED BY <4>1, <4>2
    <3>5. over1[sn] >= over[sn]
      BY <3>1, <3>3 DEF Counted
    <3> HIDE DEF a, b, need
    <3>6. over1[sn] >= need + b
      BY <3>1, <3>2, <3>3, <3>4, <3>5
    <3> QED BY <3>6 DEF b, need
  <2> QED BY <2>2, <2>3 DEF Earned
<1> QED BY <1>1, <1>4, <1>5 DEF Ready

\* The answer to an attempt to send was under way no longer than it seems.
LEMMA SampleIs ==
    ASSUME use \in Uses, NEW m \in 0..MaxTime, NEW k, Timed(k, m), k.updated,
           NEW t, Within(t, m)
    PROVE  /\ Diff(Plus(use.start, m), t) \in 0..MaxTime
           /\ Diff(k.current, t) <= Diff(Plus(use.start, m), t)
<1>1. PICK x \in 0..m : t = Plus(use.start, x)
  BY DEF Within
<1>2. PICK a \in 0..m : k.current = Plus(use.start, a)
  BY DEF Timed
<1>3. /\ m \in Nat /\ a \in Nat /\ x \in Nat /\ a <= m /\ x <= m /\ m <= MaxTime /\ a <= MaxTime
      /\ x <= a + Far /\ x <= m + Far /\ MaxTime \in Nat
  BY FarIs
<1>4. Diff(Plus(use.start, m), Plus(use.start, x)) = m - x
  BY <1>3, MomentsDiffer
<1>5. Diff(Plus(use.start, a), Plus(use.start, x)) = a - x
  BY <1>3, MomentsDiffer
<1> QED BY <1>1, <1>2, <1>3, <1>4, <1>5

\* The engine k1 is what a datagram of n ACKs makes of kcp, before the update.
Arrived(k1, rest, n, acks) ==
    /\ Taken(kcp, k1, n, acks)
    /\ Ready(k1, sentAt, overtaken', fastResent, time)
    /\ Truthful(rest, time)
    /\ overtaken' \in [Sn -> Nat] /\ got' \subseteq Sn /\ slowest' \in Nat
    /\ ~use.flushing => k1.rx_srtt <= Max({1, slowest'})
    /\ Update(k1, rest)

\* An update after a datagram is one of the engine it was put into.
LEMMA ArriveIs ==
    ASSUME IInv, NEW n \in Nat, NEW answers \in [1..n -> net],
           NEW una \in 0..MaxWrites, NEW wnd \in use.windows, Arrive(answers, una, wnd)
    PROVE  /\ \E k1, rest, acks : Arrived(k1, rest, n, acks)
           /\ UNCHANGED <<use, now, time>> /\ NoteBlocked
<1> DEFINE has == got \cup {answers[i].sn : i \in DOMAIN answers}
           acks == [i \in DOMAIN answers |-> [sn |-> answers[i].sn, ts |-> answers[i].ts]]
           rtts == {Diff(now, answers[i].at) : i \in DOMAIN answers}
           later(sn) == \E i \in DOMAIN answers :
                            answers[i].sn > sn /\ Diff(answers[i].at, sentAt[sn]) >= 0
           gone == {answers[i] : i \in DOMAIN answers}
           k1 == Input(kcp, wnd, una, acks)
           rest == net \ gone
           m == time
           over1 == [sn \in Sn |-> overtaken[sn] + IF later(sn) THEN 1 ELSE 0]
           slow == Max({slowest} \cup rtts)
<1>1. /\ TypeOK /\ now = Plus(use.start, time) /\ Truthful(net, time)
      /\ Ready(kcp, sentAt, overtaken, fastResent, time) /\ SampleIsRoundTrip
      /\ (net # {} => kcp.updated)
  BY DEF IInv
<1>2. /\ use \in Uses /\ m \in 0..MaxTime /\ kcp \in ControlBlock /\ slowest \in Nat
      /\ overtaken \in [Sn -> Nat] /\ fastResent \in [Sn -> Nat] /\ got \subseteq Sn
      /\ net \subseteq [sn : Sn, ts : Time, at : Time]
  BY <1>1 DEF TypeOK
<1>3. /\ got' = has /\ slowest' = slow /\ overtaken' = over1
      /\ Update(k1, rest) /\ UNCHANGED <<use, now, time>> /\ NoteBlocked
  BY DEF Arrive
<1>4. /\ DOMAIN answers = 1..n
      /\ \A i \in 1..n : /\ answers[i] \in net /\ answers[i].sn \in Sn /\ answers[i].ts \in Time
                         /\ Within(answers[i].at, m)
                         /\ (~use.flushing => answers[i].ts = answers[i].at)
  <2>1. DOMAIN answers = 1..n
    OBVIOUS
  <2>2. ASSUME NEW e \in net
        PROVE  e.sn \in Sn /\ e.ts \in Time /\ Within(e.at, m) /\ (~use.flushing => e.ts = e.at)
    BY <1>1, <1>2 DEF Truthful
  <2> QED BY <2>1, <2>2
<1>5. acks \in [1..n -> Ack] /\ acks \in Seq(Ack) /\ Len(acks) = n
      /\ \A i \in 1..n : acks[i].sn = answers[i].sn /\ acks[i].ts = answers[i].ts
  <2>1. acks \in [1..n -> Ack] /\ \A i \in 1..n : acks[i].sn = answers[i].sn /\ acks[i].ts = answers[i].ts
    BY <1>4 DEF Ack
  <2> HIDE DEF acks
  <2>2. acks \in Seq(Ack) /\ Len(acks) = n
    BY <2>1
  <2> QED BY <2>1, <2>2
<1> HIDE DEF acks
<1>6. /\ has \subseteq Sn
      /\ rest \subseteq net
  BY <1>2, <1>4
<1> HIDE DEF has, rest, gone
<1>7. ASSUME NEW i \in 1..n
      PROVE  Diff(now, answers[i].at) \in 0..MaxTime
             /\ Diff(kcp.current, answers[i].at) <= Diff(now, answers[i].at)
  <2>1. kcp.updated
    BY <1>1, <1>4
  <2>2. Timed(kcp, m) /\ Within(answers[i].at, m)
    BY <1>1, <1>4 DEF Ready
  <2> DEFINE t == answers[i].at
             k == kcp
  <2> HIDE DEF t, k, m
  <2>3. Diff(Plus(use.start, m), t) \in 0..MaxTime /\ Diff(k.current, t) <= Diff(Plus(use.start, m), t)
    BY <1>2, <2>1, <2>2, SampleIs DEF t, k
  <2> QED BY <1>1, <2>3 DEF t, k, m
<1>8. slow \in Nat /\ slow >= slowest /\ \A i \in 1..n : slow >= Diff(now, answers[i].at)
  <2> DEFINE T == {slowest} \cup rtts
             b == slowest + MaxTime
  <2>1. b \in Nat /\ slowest \in 0..b /\ \A x \in 0..MaxTime : x \in 0..b
    BY <1>2, FarIs
  <2>2. \A x \in rtts : x \in 0..MaxTime
    BY <1>4, <1>7
  <2>3. T \in SUBSET (0..b) /\ T # {} /\ slowest \in T
    <3> HIDE DEF b, rtts
    <3> QED BY <2>1, <2>2
  <2>4. \A i \in 1..n : Diff(now, answers[i].at) \in T
    BY <1>4
  <2> HIDE DEF T, b
  <2>5. Max(T) \in T /\ \A t \in T : Max(T) >= t
    BY <2>1, <2>3, MaxIs
  <2>6. Max(T) \in Nat
    <3>1. \A x \in T : x \in Nat
      BY <2>1, <2>3
    <3> QED BY <2>5, <3>1
  <2>7. slow = Max(T)
    BY DEF T
  <2> HIDE DEF slow
  <2> QED BY <2>3, <2>4, <2>5, <2>6, <2>7
<1> HIDE DEF slow, rtts
<1>9. wnd \in Wnd /\ una \in Nat /\ Sound(kcp) /\ kcp.rx_srtt \in Nat /\ kcp.current \in Time
  <2>1. wnd \in Wnd
    BY <1>2, ConfigIs
  <2>2. una \in Nat
    BY SnIs
  <2> QED BY <1>1, <1>2, <2>1, <2>2, BlockIs DEF Ready
<1>10. Taken(kcp, k1, n, acks)
  <2> DEFINE top == kcp.rx_srtt + Clock
  <2>1. top \in Nat /\ top >= 1 /\ kcp.rx_srtt <= top /\ Clock <= top
    BY <1>9, FarIs
  <2>2. \A i \in 1..n : Diff(kcp.current, acks[i].ts) <= top
    <3> TAKE i \in 1..n
    <3> DEFINE t == acks[i].ts
               d == Diff(kcp.current, t)
    <3>1. t \in Time
      BY <1>4, <1>5
    <3> HIDE DEF t
    <3>2. d \in Int /\ d < Clock
      BY <1>9, <3>1, DiffIs
    <3> HIDE DEF d, top
    <3>3. d <= top
      BY <2>1, <3>2, FarIs
    <3> QED BY <3>3 DEF d, t
  <2> HIDE DEF top
  <2> QED BY <1>2, <1>5, <1>9, <2>1, <2>2, InputIs
<1>11. ASSUME ~use.flushing PROVE k1.rx_srtt <= Max({1, slow})
  <2> DEFINE one == 1
             top == Max({one, slow})
  <2>1. top \in Nat /\ top >= 1 /\ top >= slow
    <3>1. one \in Int /\ slow \in Int
      BY <1>8
    <3>2. one = 1
      OBVIOUS
    <3> HIDE DEF one
    <3>3. top \in {one, slow} /\ top >= one /\ top >= slow
      BY <3>1, MaxOfTwo
    <3> QED BY <1>8, <3>2, <3>3
  <2>2. kcp.rx_srtt <= top
    <3> DEFINE x == Max({one, slowest})
    <3>1. kcp.rx_srtt <= x
      BY <1>1, <1>11 DEF SampleIsRoundTrip
    <3>2. x \in {one, slowest}
      <4>1. one \in Int /\ slowest \in Int
        BY <1>2
      <4> HIDE DEF one
      <4> QED BY <4>1, MaxOfTwo
    <3>3. x <= top /\ x \in Nat
      <4>1. x = 1 \/ x = slowest
        BY <3>2
      <4> HIDE DEF x, top
      <4> QED BY <1>2, <1>8, <2>1, <4>1
    <3> HIDE DEF x, top
    <3> QED BY <1>9, <2>1, <3>1, <3>3
  <2>3. \A i \in 1..n : Diff(kcp.current, acks[i].ts) <= top
    <3> TAKE i \in 1..n
    <3> DEFINE d == Diff(kcp.current, answers[i].at)
               e == Diff(now, answers[i].at)
    <3>1. acks[i].ts = answers[i].at
      BY <1>4, <1>5, <1>11
    <3>2. d <= e /\ e \in Nat /\ e <= slow
      BY <1>7, <1>8
    <3>3. d \in Int
      <4> DEFINE t == answers[i].at
      <4>1. t \in Time
        BY <1>4, <1>11
      <4> HIDE DEF t
      <4>2. Diff(kcp.current, t) \in Int
        BY <1>9, <4>1, DiffIs
      <4> QED BY <4>2 DEF t
    <3> HIDE DEF d, e, top
    <3>4. d <= top
      BY <1>8, <2>1, <3>2, <3>3
    <3> QED BY <3>1, <3>4 DEF d
  <2> HIDE DEF top
  <2>4. k1.rx_srtt <= top
    BY <1>2, <1>5, <1>9, <2>1, <2>2, <2>3, InputIs
  <2> QED BY <2>4 DEF top
<1> HIDE DEF k1
<1>12. over1 \in [Sn -> Nat] /\ Counted(n, acks, sentAt, overtaken, over1)
  <2>1. over1 \in [Sn -> Nat]
    BY <1>2
  <2>2. ASSUME NEW sn \in Sn, ~ (over1[sn] = overtaken[sn] + 1)
        PROVE  over1[sn] = overtaken[sn] /\ (~use.flushing => \A i \in 1..n :
                                ~ (sn < acks[i].sn /\ Diff(acks[i].ts, sentAt[sn]) >= 0))
    <3>1. ~later(sn)
      BY <2>2
    <3>2. over1[sn] = overtaken[sn]
      BY <1>2, <3>1
    <3>3. ASSUME ~use.flushing, NEW i \in 1..n
          PROVE  ~ (sn < acks[i].sn /\ Diff(acks[i].ts, sentAt[sn]) >= 0)
      <4>1. acks[i].ts = answers[i].at /\ acks[i].sn = answers[i].sn
        BY <1>4, <1>5, <3>3
      <4>2. ~ (answers[i].sn > sn /\ Diff(answers[i].at, sentAt[sn]) >= 0)
        BY <1>4, <3>1
      <4> QED BY <4>1, <4>2
    <3> QED BY <3>2, <3>3
  <2> HIDE DEF over1
  <2> QED BY <1>2, <2>1, <2>2 DEF Counted
<1> HIDE DEF over1
<1>13. Ready(k1, sentAt, over1, fastResent, m)
  <2> DEFINE k == kcp
             sent == sentAt
             over == overtaken
             fast == fastResent
  <2>1. /\ Taken(k, k1, n, acks) /\ Ready(k, sent, over, fast, m)
        /\ fast \in [Sn -> Nat] /\ Counted(n, acks, sent, over, over1)
    BY <1>1, <1>2, <1>10, <1>12
  <2> HIDE DEF k, sent, over, fast, m
  <2>2. Ready(k1, sent, over1, fast, m)
    BY <1>2, <1>12, <2>1, TakenKeeps
  <2> QED BY <2>2 DEF sent, fast
<1>14. Truthful(rest, m)
  BY <1>1, <1>6 DEF Truthful
<1>15. got' \subseteq Sn /\ slow = slowest' /\ over1 = overtaken'
  BY <1>3, <1>6
<1>16. Arrived(k1, rest, n, acks)
  BY <1>3, <1>8, <1>10, <1>11, <1>12, <1>13, <1>14, <1>15 DEF Arrived
<1> QED BY <1>3, <1>16

\* A datagram arrives.
LEMMA ArriveKeeps ==
    ASSUME IInv, NEW n \in Nat, NEW answers \in [1..n -> net],
           NEW una \in 0..MaxWrites, NEW wnd \in use.windows, Arrive(answers, una, wnd)
    PROVE  IInv'
<1>1. TypeOK /\ now = Plus(use.start, time) /\ time \in 0..MaxTime
  BY DEF IInv, TypeOK
<1>2. PICK k1, rest, acks : Arrived(k1, rest, n, acks)
  BY ArriveIs
<1>3. UNCHANGED <<use, now, time>> /\ NoteBlocked
  BY ArriveIs
<1> DEFINE over1 == overtaken'
           s == slowest'
           m == time
<1>4. /\ Ready(k1, sentAt, over1, fastResent, m) /\ Truthful(rest, m) /\ Update(k1, rest)
      /\ over1 \in [Sn -> Nat] /\ s \in Nat /\ m \in 0..MaxTime /\ now = Plus(use.start, m)
      /\ (~use.flushing => k1.rx_srtt <= Max({1, s})) /\ got' \subseteq Sn
  BY <1>1, <1>2 DEF Arrived
<1>5. over1 = overtaken' /\ s = slowest' /\ m = time
  OBVIOUS
<1> HIDE DEF over1, s, m
<1>6. After(k1, over1, m)
  BY <1>1, <1>4, UpdateKeeps
<1> QED BY <1>1, <1>3, <1>4, <1>5, <1>6, AfterKeeps

\* The control block of a new session, and the first state.
LEMMA CreatedIs ==
    ASSUME use \in Uses
    PROVE  Created \in ControlBlock /\ Created.rx_rto >= Config.rx_minrto
<1> DEFINE none == [sn \in {} |-> 0]
           w == 128
           f == 100
<1>1. none \in Buffer
  <2>1. {} \in SUBSET Sn /\ none \in [{} -> Segment]
    OBVIOUS
  <2> HIDE DEF none
  <2> QED BY <2>1, BufferMade
<1>2. w \in Wnd
  BY DEF Wnd
<1>3. f \in Time /\ 0 \in Time
  <2>1. Clock \in Nat /\ Clock > 100 /\ Clock > 0
    <3>1. RtoMax >= 30
      BY ConfigIs, SenderAssumption
    <3> QED BY <3>1, SenderAssumption
  <2> QED BY <2>1 DEF Time
<1>4. RtoDef \in 1..RtoMax /\ 0 \in 0..ProbeLimit /\ RtoDef >= Config.rx_minrto
      /\ Config.rx_minrto \in Nat /\ RtoDef \in Nat
  BY ConfigIs, SenderAssumption
<1> DEFINE k == [snd_una |-> 0, snd_nxt |-> 0, nsnd_que |-> 0, snd_buf |-> none,
                 rmt_wnd |-> w, cwnd |-> 0, ssthresh |-> 2, incr |-> 0,
                 rx_srtt |-> 0, rx_rttval |-> 0, rx_rto |-> RtoDef,
                 current |-> 0, updated |-> FALSE, ts_flush |-> f,
                 ts_probe |-> 0, probe_wait |-> 0]
<1>5. Created = k
  BY DEF Created
<1> HIDE DEF none, w, f
<1>6. k \in ControlBlock
  BY <1>1, <1>2, <1>3, <1>4 DEF ControlBlock
<1>7. k.rx_rto = RtoDef
  OBVIOUS
<1> HIDE DEF k
<1> QED BY <1>4, <1>5, <1>6, <1>7

LEMMA Starts ==
    ASSUME Init
    PROVE  IInv
<1>1. /\ use \in Uses /\ now = use.start /\ kcp = Created
      /\ net = {} /\ got = {} /\ asked = FALSE /\ time = 0 /\ slowest = 0
      /\ sentAt = [sn \in Sn |-> 0] /\ overtaken = [sn \in Sn |-> 0]
      /\ fastResent = [sn \in Sn |-> 0]
      /\ probedAt = use.start /\ blockedAt = use.start
  BY DEF Init
<1>2. use.start \in Time /\ Config.fastresend \in 0..2
  BY <1>1, ConfigIs
<1>3. kcp \in ControlBlock /\ kcp.rx_rto >= Config.rx_minrto
  BY <1>1, CreatedIs
<1>4. /\ kcp.snd_nxt = 0 /\ kcp.nsnd_que = 0 /\ DOMAIN kcp.snd_buf = {}
      /\ kcp.updated = FALSE /\ kcp.rx_srtt = 0
  BY <1>1 DEF Created
<1>5. TypeOK
  <2>1. now \in Time /\ time \in 0..MaxTime /\ {probedAt, blockedAt} \subseteq Time
    BY <1>1, <1>2, FarIs
  <2>2. net \subseteq [sn : Sn, ts : Time, at : Time] /\ got \subseteq Sn
        /\ asked \in BOOLEAN /\ slowest \in Nat
    BY <1>1
  <2>3. {sentAt, overtaken, fastResent} \subseteq [Sn -> Nat]
    BY <1>1
  <2> QED BY <1>1, <1>3, <2>1, <2>2, <2>3 DEF TypeOK
<1>6. now = Plus(use.start, time)
  <2> DEFINE s == use.start
             z == 0
  <2>1. s \in Time /\ z \in Nat /\ z = 0
    BY <1>2
  <2> HIDE DEF s, z
  <2>2. z < Clock => Plus(s, z) = IF s + z < Clock THEN s + z ELSE s + z - Clock
    BY <2>1, PlusIs
  <2>3. s \in 0..(Clock - 1) /\ Clock \in Nat
    BY <2>1, FarIs DEF Time
  <2>4. Plus(s, z) = s
    BY <2>1, <2>2, <2>3
  <2> QED BY <1>1, <2>1, <2>4 DEF s
<1>7. Ready(kcp, sentAt, overtaken, fastResent, time)
  <2>1. Sound(kcp) /\ Room(kcp) /\ Timed(kcp, time)
    BY <1>3, <1>4, SnIs DEF Sound, Room, Timed
  <2>2. Airborne(kcp, sentAt, time)
    BY <1>4 DEF Airborne
  <2>3. Earned(kcp, overtaken, fastResent)
    BY <1>1, <1>2, <1>4 DEF Earned, Need
  <2> QED BY <2>1, <2>2, <2>3 DEF Ready
<1>8. Truthful(net, time) /\ (net # {} => kcp.updated)
  BY <1>1 DEF Truthful
<1>9. SampleIsRoundTrip
  <2> DEFINE o == 1
             z == 0
  <2>1. o \in Int /\ z \in Int /\ z <= o
    OBVIOUS
  <2>2. Max({o, z}) \in {o, z} /\ Max({o, z}) >= z
    <3> HIDE DEF o, z
    <3> QED BY <2>1, MaxOfTwo
  <2> QED BY <1>1, <1>4, <2>2 DEF SampleIsRoundTrip
<1> QED BY <1>5, <1>6, <1>7, <1>8, <1>9 DEF IInv

\* The invariant is inductive.
LEMMA NextKeeps ==
    ASSUME IInv, [Next]_vars
    PROVE  IInv'
<1>1. CASE \E d \in use.steps : Advance(d)
  BY <1>1, AdvanceKeeps
<1>2. CASE Write
  BY <1>2, WriteKeeps
<1>3. CASE Tick
  BY <1>3, TickKeeps
<1>4. CASE ArriveAcks
  <2>1. PICK n \in 1..MaxAcks : \E answers \in [1..n -> net] :
            \E una \in 0..MaxWrites, wnd \in use.windows : Arrive(answers, una, wnd)
    BY <1>4 DEF ArriveAcks
  <2>2. n \in Nat
    OBVIOUS
  <2> QED BY <2>1, <2>2, ArriveKeeps
<1>5. CASE ArriveWins
  <2> DEFINE answers == <<>>
             n == 0
  <2>1. PICK una \in 0..MaxWrites, wnd \in use.windows : Arrive(answers, una, wnd)
    BY <1>5 DEF ArriveWins
  <2>2. n \in Nat /\ answers \in [1..n -> net]
    OBVIOUS
  <2> HIDE DEF answers, n
  <2> QED BY <2>1, <2>2, ArriveKeeps
<1>6. CASE UNCHANGED vars
  <2>1. /\ use' = use /\ now' = now /\ kcp' = kcp /\ net' = net /\ got' = got /\ asked' = asked
        /\ time' = time /\ sentAt' = sentAt /\ slowest' = slowest /\ overtaken' = overtaken
        /\ fastResent' = fastResent /\ probedAt' = probedAt /\ blockedAt' = blockedAt
    BY <1>6 DEF vars, history
  <2>2. Ready(kcp, sentAt, overtaken, fastResent, time)' /\ Truthful(net, time)'
    <3>1. Ready(kcp, sentAt, overtaken, fastResent, time) /\ Truthful(net, time)
      BY DEF IInv
    <3> QED BY <2>1, <3>1, Primed
  <2>3. TypeOK'
    BY <2>1 DEF IInv, TypeOK
  <2>4. SampleIsRoundTrip' /\ (now = Plus(use.start, time))' /\ (net # {} => kcp.updated)'
    BY <2>1 DEF IInv, SampleIsRoundTrip
  <2> QED BY <2>2, <2>3, <2>4 DEF IInv
<1> QED BY <1>1, <1>2, <1>3, <1>4, <1>5, <1>6 DEF Next

-----------------------------------------------------------------------------
(* No segment goes out again early *)

\* What goes out again from the engine of k, for its timer, waited.
Patient(k) ==
    \A sn \in DOMAIN kcp'.snd_buf :
        kcp'.snd_buf[sn].xmit > 1 /\ fastResent'[sn] = fastResent[sn] =>
            /\ sn \in DOMAIN k.snd_buf
            /\ \/ kcp'.snd_buf[sn].xmit = k.snd_buf[sn].xmit
               \/ Diff(now, sentAt[sn]) >= Config.rx_minrto

\* A flush on the current time is patient, and so is an update.
LEMMA OutputPatient ==
    ASSUME TypeOK, NEW m \in 0..MaxTime, now = Plus(use.start, m), ~use.flushing,
           NEW k, NEW over, Ready(k, sentAt, over, fastResent, m), k.current = now,
           NEW rest, Output(k, rest)
    PROVE  Patient(k)
<1> DEFINE p == Prepared(k)
           f == Flush(k)
           out == {sn \in DOMAIN p.snd_buf : Due(p, p.snd_buf[sn])}
           fast == {sn \in out : Skipped(p, p.snd_buf[sn])}
<1>1. use \in Uses /\ fastResent \in [Sn -> Nat]
  BY DEF TypeOK
<1>2. Sound(k) /\ Room(k) /\ Airborne(k, sentAt, m)
  BY DEF Ready
<1>3. Flushed(k, p, f)
  BY <1>1, <1>2, FlushIs
<1>4. /\ kcp' = f
      /\ fastResent' = [sn \in Sn |-> fastResent[sn] + IF sn \in fast THEN 1 ELSE 0]
  BY DEF Output
<1> HIDE DEF p, f
<1> SUFFICES ASSUME NEW sn \in DOMAIN f.snd_buf,
                    f.snd_buf[sn].xmit > 1, fastResent'[sn] = fastResent[sn]
             PROVE  /\ sn \in DOMAIN k.snd_buf
                    /\ \/ f.snd_buf[sn].xmit = k.snd_buf[sn].xmit
                       \/ Diff(now, sentAt[sn]) >= Config.rx_minrto
  BY <1>4 DEF Patient
<1> DEFINE seg == p.snd_buf[sn]
<1>5. /\ sn \in DOMAIN p.snd_buf /\ sn \in Sn /\ seg \in Segment /\ p.current = k.current
      /\ f.snd_buf[sn].xmit = seg.xmit \/ Sent(p, seg, f.snd_buf[sn])
      /\ (Due(p, seg) => Sent(p, seg, f.snd_buf[sn]))
      /\ (~Due(p, seg) => f.snd_buf[sn] = seg)
      /\ \/ sn \in DOMAIN k.snd_buf /\ seg = k.snd_buf[sn]
         \/ seg.xmit = 0
  <2>1. sn \in DOMAIN p.snd_buf /\ Sound(p) /\ p.current = k.current
    BY <1>3 DEF Flushed, Numbered, SameClock
  <2>2. sn \in Sn /\ seg \in Segment
    BY <2>1, BlockIs DEF Sound
  <2>3. /\ (Due(p, seg) => Sent(p, seg, f.snd_buf[sn]))
        /\ (~Due(p, seg) => f.snd_buf[sn] = seg)
    BY <1>3, <2>1 DEF Flushed
  <2>4. \/ sn \in DOMAIN k.snd_buf /\ seg = k.snd_buf[sn]
        \/ seg.xmit = 0
    BY <1>3, <2>1 DEF Flushed, Numbered
  <2> QED BY <2>1, <2>2, <2>3, <2>4
<1>6. ~Skipped(p, seg)
  <2>1. sn \notin fast
    BY <1>1, <1>4, <1>5
  <2> QED BY <1>5, <2>1 DEF Due
<1> HIDE DEF seg, fast, out
<1>7. CASE ~Due(p, seg)
  <2>1. f.snd_buf[sn] = seg /\ seg.xmit > 1
    BY <1>5, <1>7
  <2> QED BY <1>5, <2>1
<1>8. CASE Due(p, seg)
  <2>1. Sent(p, seg, f.snd_buf[sn]) /\ seg.xmit \in Nat
    BY <1>5, <1>8 DEF Segment
  <2>2. seg.xmit # 0
    BY <2>1 DEF Sent
  <2>3. TimedOut(p, seg) /\ sn \in DOMAIN k.snd_buf /\ seg = k.snd_buf[sn]
    BY <1>5, <1>6, <1>8, <2>2 DEF Due
  <2>4. Flying(seg, sentAt[sn], m)
    BY <1>2, <2>3 DEF Airborne
  <2>5. Diff(Plus(use.start, m), seg.resendts) >= 0
    BY <1>5, <2>3 DEF TimedOut
  <2>6. PICK x \in 0..m : /\ Diff(Plus(use.start, m), sentAt[sn]) = m - x
                          /\ m - x >= Config.rx_minrto
    BY <1>1, <1>5, <2>4, <2>5, TimerRan
  <2> QED BY <2>3, <2>6
<1> QED BY <1>7, <1>8

LEMMA UpdatePatient ==
    ASSUME TypeOK, NEW m \in 0..MaxTime, now = Plus(use.start, m), ~use.flushing,
           NEW k, NEW over, over \in [Sn -> Nat], Ready(k, sentAt, over, fastResent, m),
           NEW rest, Update(k, rest)
    PROVE  Patient(k)
<1> DEFINE k1 == Scheduled(k, now)
<1>1. use \in Uses /\ k \in ControlBlock /\ Timed(k, m)
  BY DEF TypeOK, Ready, Sound
<1>2. Rescheduled(k, k1, now) /\ Timed(k1, m)
  BY <1>1, ScheduledIs
<1>3. Output(k1, rest) \/ kcp' = k1
  BY DEF Update
<1> HIDE DEF k1
<1>4. Ready(k1, sentAt, over, fastResent, m)
  <2>1. Sound(k1) /\ Room(k1)
    BY <1>2 DEF Rescheduled, Ready, Sound, Room, SameQueue
  <2>2. Airborne(k1, sentAt, m) /\ Earned(k1, over, fastResent)
    BY <1>2 DEF Rescheduled, Ready, Airborne, Earned
  <2> QED BY <1>2, <2>1, <2>2 DEF Ready
<1>5. k1.snd_buf = k.snd_buf /\ k1.current = now
  BY <1>2 DEF Rescheduled
<1>6. CASE Output(k1, rest)
  <2>1. Patient(k1)
    BY <1>4, <1>5, <1>6, OutputPatient
  <2> QED BY <1>5, <2>1 DEF Patient
<1>7. CASE kcp' = k1
  BY <1>5, <1>7 DEF Patient
<1> QED BY <1>3, <1>6, <1>7

\* So no step sends early what the engine had in flight before it.
LEMMA PatientSteps ==
    ASSUME IInv, Next, ~use.flushing
    PROVE  Patient(kcp)
<1>1. /\ TypeOK /\ now = Plus(use.start, time) /\ time \in 0..MaxTime
      /\ Ready(kcp, sentAt, overtaken, fastResent, time) /\ overtaken \in [Sn -> Nat]
  BY DEF IInv, TypeOK
<1>2. CASE kcp'.snd_buf = kcp.snd_buf
  BY <1>2 DEF Patient
<1>3. CASE \E d \in use.steps : Advance(d)
  BY <1>2, <1>3 DEF Advance
<1>4. CASE Write
  <2>1. kcp' = [kcp EXCEPT !.nsnd_que = @ + 1]
    BY <1>4 DEF Write
  <2>2. kcp'.snd_buf = kcp.snd_buf
    BY <1>1, <2>1 DEF TypeOK, ControlBlock
  <2> QED BY <1>2, <2>2
<1>5. CASE Tick
  BY <1>1, <1>5, UpdatePatient DEF Tick
<1>6. ASSUME NEW n \in Nat, NEW answers \in [1..n -> net],
             NEW una \in 0..MaxWrites, NEW wnd \in use.windows, Arrive(answers, una, wnd)
      PROVE  Patient(kcp)
  <2>1. PICK k1, rest, acks : Arrived(k1, rest, n, acks)
    BY <1>6, ArriveIs
  <2> DEFINE over1 == overtaken'
  <2>2. /\ Ready(k1, sentAt, over1, fastResent, time) /\ Update(k1, rest)
        /\ over1 \in [Sn -> Nat] /\ Taken(kcp, k1, n, acks)
    BY <2>1 DEF Arrived
  <2> HIDE DEF over1
  <2>3. Patient(k1)
    BY <1>1, <2>2, UpdatePatient
  <2>4. \A sn \in DOMAIN k1.snd_buf : sn \in DOMAIN kcp.snd_buf
                                      /\ k1.snd_buf[sn].xmit = kcp.snd_buf[sn].xmit
    BY <2>2 DEF Taken, Marked, SameSegment
  <2> QED BY <2>3, <2>4 DEF Patient
<1>7. CASE ArriveAcks
  <2>1. PICK n \in 1..MaxAcks : \E answers \in [1..n -> net] :
            \E una \in 0..MaxWrites, wnd \in use.windows : Arrive(answers, una, wnd)
    BY <1>7 DEF ArriveAcks
  <2>2. n \in Nat
    OBVIOUS
  <2> QED BY <1>6, <2>1, <2>2
<1>8. CASE ArriveWins
  <2> DEFINE answers == <<>>
             n == 0
  <2>1. PICK una \in 0..MaxWrites, wnd \in use.windows : Arrive(answers, una, wnd)
    BY <1>8 DEF ArriveWins
  <2>2. n \in Nat /\ answers \in [1..n -> net]
    OBVIOUS
  <2> HIDE DEF answers, n
  <2> QED BY <1>6, <2>1, <2>2
<1> QED BY <1>3, <1>4, <1>5, <1>7, <1>8 DEF Next

-----------------------------------------------------------------------------
(* How long ago: moments as numbers *)

\* A moment within Far of the start, and how far from it.
Moment(t) == \E x \in 0..Far : t = Plus(use.start, x)
Off(t) == Diff(t, use.start)

LEMMA OffIs ==
    ASSUME use \in Uses, NEW x \in 0..Far
    PROVE  /\ Off(Plus(use.start, x)) = x
           /\ Moment(Plus(use.start, x)) /\ Plus(use.start, x) \in Time
<1> DEFINE s == use.start
           z == 0
<1>1. /\ s \in Time /\ x \in Nat /\ z \in Nat /\ z = 0 /\ Clock \in Nat
      /\ x < Clock /\ z < Clock /\ 2 * (x - z) < Clock /\ 2 * (z - x) < Clock
  BY FarIs, ConfigIs
<1>2. Moment(Plus(use.start, x))
  BY DEF Moment
<1> HIDE DEF s, z
<1>3. Diff(Plus(s, x), Plus(s, z)) = x - z /\ Plus(s, x) \in Time
  BY <1>1, DiffOfPlus, PlusIs
<1>4. Plus(s, z) = s
  <2>1. Plus(s, z) = IF s + z < Clock THEN s + z ELSE s + z - Clock
    BY <1>1, PlusIs
  <2>2. s \in Nat /\ s < Clock
    BY <1>1 DEF Time
  <2> QED BY <1>1, <2>1, <2>2
<1> QED BY <1>1, <1>2, <1>3, <1>4 DEF Off, s

LEMMA MomentIs ==
    ASSUME use \in Uses, NEW t, Moment(t)
    PROVE  /\ Off(t) \in 0..Far /\ Off(t) \in Nat
           /\ t = Plus(use.start, Off(t)) /\ t \in Time
<1>1. PICK x \in 0..Far : t = Plus(use.start, x)
  BY DEF Moment
<1>2. Off(t) = x /\ t \in Time
  BY <1>1, OffIs
<1>3. x \in Nat
  BY FarIs
<1> QED BY <1>1, <1>2, <1>3

\* Two moments differ by what lies between them.
LEMMA MomentsApart ==
    ASSUME use \in Uses, NEW t, NEW u, Moment(t), Moment(u)
    PROVE  Diff(t, u) = Off(t) - Off(u)
<1> DEFINE s == use.start
           x == Off(t)
           y == Off(u)
<1>1. x \in 0..Far /\ y \in 0..Far /\ t = Plus(s, x) /\ u = Plus(s, y) /\ s \in Time
  BY MomentIs, ConfigIs
<1> HIDE DEF s, x, y
<1>2. /\ x \in Nat /\ y \in Nat /\ x < Clock /\ y < Clock
      /\ 2 * (x - y) < Clock /\ 2 * (y - x) < Clock
  BY <1>1, FarIs
<1>3. Diff(Plus(s, x), Plus(s, y)) = x - y
  BY <1>1, <1>2, DiffOfPlus
<1> QED BY <1>1, <1>3 DEF x, y

LEMMA WithinIs ==
    ASSUME use \in Uses, NEW m \in 0..MaxTime, NEW t, Within(t, m)
    PROVE  Moment(t) /\ Off(t) \in 0..m
<1>1. PICK x \in 0..m : t = Plus(use.start, x)
  BY DEF Within
<1>2. x \in 0..Far
  BY FarIs
<1> QED BY <1>1, <1>2, OffIs

\* The moment m itself is one.
LEMMA NowIs ==
    ASSUME use \in Uses, NEW m \in 0..MaxTime, NEW t, t = Plus(use.start, m)
    PROVE  Moment(t) /\ Off(t) = m /\ Within(t, m)
<1>1. m \in 0..Far /\ m \in 0..m
  BY FarIs
<1> QED BY <1>1, OffIs DEF Within

\* The engine's clock and its next flush as numbers.
LEMMA TimedIs ==
    ASSUME use \in Uses, NEW m \in 0..MaxTime, NEW k, Timed(k, m), k.updated
    PROVE  /\ Moment(k.current) /\ Moment(k.ts_flush)
           /\ Off(k.current) \in 0..m /\ Off(k.current) \in 0..MaxTime
           /\ Off(k.ts_flush) \in Nat
           /\ Off(k.ts_flush) > Off(k.current)
           /\ Off(k.ts_flush) <= Off(k.current) + Interval
<1>1. PICK a \in 0..m, b \in 1..Interval :
          k.current = Plus(use.start, a) /\ k.ts_flush = Plus(use.start, a + b)
  BY DEF Timed
<1> DEFINE c == a + b
<1>2. /\ a \in 0..Far /\ a \in 0..MaxTime /\ c \in 0..Far /\ c \in Nat
      /\ c > a /\ c <= a + Interval
  BY FarIs, ConfigIs
<1>3. k.ts_flush = Plus(use.start, c)
  BY <1>1
<1> HIDE DEF c
<1>4. Off(k.current) = a /\ Moment(k.current)
  BY <1>1, <1>2, OffIs
<1>5. Off(k.ts_flush) = c /\ Moment(k.ts_flush)
  BY <1>2, <1>3, OffIs
<1> QED BY <1>2, <1>4, <1>5

\* When the timer of a segment runs out.
Rings(seg) == Off(seg.ts) + Diff(seg.resendts, seg.ts)

\* The timer of a segment as numbers.
LEMMA FlyingIs ==
    ASSUME use \in Uses, NEW m \in 0..MaxTime, NEW seg \in Segment, NEW at, Flying(seg, at, m)
    PROVE  /\ seg.ts = at /\ Moment(at) /\ Off(at) \in 0..m
           /\ Rings(seg) \in Nat /\ Rings(seg) >= Off(at)
           /\ Rings(seg) <= Off(at) + seg.rto + seg.rto \div 8
           /\ Diff(Plus(use.start, m), seg.resendts) = m - Rings(seg)
<1>1. PICK s \in 0..m, x \in Nat :
           /\ at = Plus(use.start, s) /\ seg.resendts = Plus(use.start, s + x)
           /\ x >= seg.rto /\ seg.rto <= s + RtoMax /\ x <= s + 2 * RtoMax
           /\ x <= seg.rto + seg.rto \div 8
  BY DEF Flying
<1> DEFINE e == s + x
           eighth == seg.rto \div 8
<1>2. seg.rto \in Nat /\ eighth \in Nat /\ x <= seg.rto + eighth
  BY <1>1 DEF Segment
<1> HIDE DEF eighth
<1>3. /\ s \in 0..Far /\ s \in Nat /\ s <= MaxTime /\ m \in Nat /\ m <= MaxTime
      /\ e \in Nat /\ e >= s /\ e <= s + seg.rto + eighth
      /\ e <= s + Far /\ e <= m + Far /\ e - s = x
  BY <1>1, <1>2, FarIs
<1>4. seg.resendts = Plus(use.start, e)
  BY <1>1
<1> HIDE DEF e
<1>5. Off(at) = s /\ Moment(at)
  BY <1>1, <1>3, OffIs
<1>6. Diff(Plus(use.start, e), Plus(use.start, s)) = e - s
  BY <1>3, MomentsDiffer
<1>7. Diff(Plus(use.start, m), Plus(use.start, e)) = m - e
  BY <1>3, MomentsDiffer
<1>8. seg.ts = at
  BY DEF Flying
<1>9. Rings(seg) = e
  BY <1>1, <1>3, <1>4, <1>5, <1>6, <1>8 DEF Rings
<1> QED BY <1>1, <1>2, <1>3, <1>4, <1>5, <1>7, <1>8, <1>9 DEF eighth

-----------------------------------------------------------------------------
(* What is in flight goes out again in time *)

\* Every segment in flight was sent by a flush that ran on the engine's clock, not
\* after the history says so; with flush_write that clock may be an old one.
Aloft(k, sent, m) ==
    \A sn \in DOMAIN k.snd_buf :
        LET seg == k.snd_buf[sn]
        IN  /\ k.updated
            /\ Flying(seg, seg.ts, Off(k.current))
            /\ Within(sent[sn], m) /\ Off(seg.ts) <= Off(sent[sn])

\* No timer runs out more than an interval before the next flush.
Watched(k) ==
    \A sn \in DOMAIN k.snd_buf : Off(k.ts_flush) <= Rings(k.snd_buf[sn]) + Interval

\* A flush sends what has waited, and sets every timer it sends anew.
LEMMA OutputWatches ==
    ASSUME use \in Uses, NEW m \in 0..MaxTime, now = Plus(use.start, m),
           NEW k, Sound(k), Room(k), Timed(k, m), k.updated, Aloft(k, sentAt, m),
           NEW rest, Output(k, rest)
    PROVE  Aloft(kcp', sentAt', m) /\ Watched(kcp')
<1> DEFINE p == Prepared(k)
           f == Flush(k)
           D == DOMAIN p.snd_buf
           out == {sn \in D : Due(p, p.snd_buf[sn])}
           sent1 == sentAt'
<1>1. Flushed(k, p, f)
  BY FlushIs
<1>2. /\ kcp' = f
      /\ sent1 = [sn \in Sn |-> IF sn \in out THEN now ELSE sentAt[sn]]
  BY DEF Output
<1> HIDE DEF p, f
<1>3. /\ Sound(p) /\ SameClock(k, p) /\ SameClock(k, f) /\ DOMAIN f.snd_buf = D
      /\ \A sn \in D : /\ Due(p, p.snd_buf[sn]) => Sent(p, p.snd_buf[sn], f.snd_buf[sn])
                       /\ ~Due(p, p.snd_buf[sn]) => f.snd_buf[sn] = p.snd_buf[sn]
      /\ \A sn \in D : \/ sn \in DOMAIN k.snd_buf /\ p.snd_buf[sn] = k.snd_buf[sn]
                       \/ p.snd_buf[sn].xmit = 0 /\ p.snd_buf[sn].fastack = 0
  BY <1>1 DEF Flushed, Numbered
<1>4. D \subseteq Sn /\ \A sn \in D : p.snd_buf[sn] \in Segment
  BY <1>3, BlockIs DEF Sound
<1> DEFINE c == Off(k.current)
<1>5. /\ c \in 0..m /\ c \in 0..MaxTime /\ k.current = Plus(use.start, c)
      /\ Off(k.ts_flush) \in Nat /\ Off(k.ts_flush) <= c + Interval
  BY TimedIs, MomentIs
<1>6. /\ Interval \in Nat /\ m \in Nat /\ c \in Nat /\ p.current = k.current
      /\ f.current = k.current /\ f.ts_flush = k.ts_flush /\ f.updated = k.updated
  BY <1>3, <1>5, ConfigIs DEF SameClock
<1>7. Moment(now) /\ Off(now) = m /\ Within(now, m)
  BY NowIs
<1>8. ASSUME NEW sn \in D
      PROVE  /\ Flying(f.snd_buf[sn], f.snd_buf[sn].ts, c)
             /\ Within(sent1[sn], m) /\ Off(f.snd_buf[sn].ts) <= Off(sent1[sn])
             /\ Off(k.ts_flush) <= Rings(f.snd_buf[sn]) + Interval
  <2> DEFINE s == p.snd_buf[sn]
             t == f.snd_buf[sn]
             at == s.ts
  <2>1. s \in Segment /\ (s.xmit = 0 \/ Flying(s, at, c))
    <3>1. CASE sn \in DOMAIN k.snd_buf /\ p.snd_buf[sn] = k.snd_buf[sn]
      BY <1>4, <3>1 DEF Aloft
    <3>2. CASE p.snd_buf[sn].xmit = 0
      BY <1>4, <3>2
    <3> QED BY <1>3, <3>1, <3>2
  <2>2. CASE Due(p, s)
    <3>1. Sent(p, s, t)
      BY <1>3, <2>2
    <3>2. sent1[sn] = now
      BY <1>2, <1>4, <2>2
    <3> HIDE DEF s, t, at, c, sent1
    <3>3. Flying(t, Plus(use.start, c), c)
      BY <1>3, <1>5, <1>6, <2>1, <3>1, FlyingSent
    <3>4. t \in Segment /\ t.ts = Plus(use.start, c) /\ t.ts = k.current
      BY <1>5, <1>6, <3>1 DEF Sent
    <3>5. Off(t.ts) = c
      BY <3>4 DEF c
    <3>6. Rings(t) \in Nat /\ Rings(t) >= c
      BY <1>5, <3>3, <3>4, <3>5, FlyingIs
    <3>7. Off(t.ts) <= Off(sent1[sn])
      BY <1>5, <1>6, <1>7, <3>2, <3>5
    <3>8. Off(k.ts_flush) <= Rings(t) + Interval
      BY <1>5, <1>6, <3>6
    <3>9. Within(sent1[sn], m)
      BY <1>7, <3>2
    <3> QED BY <3>3, <3>4, <3>7, <3>8, <3>9 DEF t
  <2>3. CASE ~Due(p, s)
    <3>1. t = s /\ s.xmit # 0 /\ ~TimedOut(p, s)
      BY <1>3, <2>3 DEF Due
    <3>2. sn \in DOMAIN k.snd_buf /\ s = k.snd_buf[sn]
      BY <1>3, <3>1
    <3>3. sent1[sn] = sentAt[sn]
      BY <1>2, <1>4, <2>3
    <3>4. Within(sentAt[sn], m) /\ Off(s.ts) <= Off(sentAt[sn])
      BY <3>2 DEF Aloft
    <3>5. s.xmit \in Nat
      BY <2>1 DEF Segment
    <3> HIDE DEF s, t, at, c, sent1
    <3>6. Flying(s, at, c)
      BY <2>1, <3>1
    <3>7. Rings(s) \in Nat /\ Diff(Plus(use.start, c), s.resendts) = c - Rings(s)
      BY <1>5, <2>1, <3>6, FlyingIs
    <3>8. ~ (Diff(p.current, s.resendts) >= 0)
      BY <3>1, <3>5 DEF TimedOut
    <3>9. Off(k.ts_flush) <= Rings(s) + Interval
      BY <1>5, <1>6, <3>7, <3>8
    <3> QED BY <3>1, <3>3, <3>4, <3>6, <3>9 DEF t, at
  <2> QED BY <2>2, <2>3
<1> HIDE DEF sent1
<1>9. Aloft(f, sent1, m)
  BY <1>3, <1>6, <1>8 DEF Aloft
<1>10. Watched(f)
  BY <1>3, <1>6, <1>8 DEF Watched
<1> QED BY <1>2, <1>9, <1>10 DEF sent1

\* Time and the clock go on, and what is in flight is.
LEMMA AloftLater ==
    ASSUME use \in Uses, NEW m \in 0..MaxTime, NEW m1 \in 0..MaxTime, m <= m1,
           NEW k, NEW k1, NEW sent, Aloft(k, sent, m), Timed(k, m),
           k1.snd_buf = k.snd_buf, k.updated => k1.updated,
           k1.current = k.current \/ k1.current = Plus(use.start, m1)
    PROVE  Aloft(k1, sent, m1)
<1> SUFFICES ASSUME NEW sn \in DOMAIN k.snd_buf
             PROVE  /\ k1.updated /\ Flying(k.snd_buf[sn], k.snd_buf[sn].ts, Off(k1.current))
                    /\ Within(sent[sn], m1) /\ Off(k.snd_buf[sn].ts) <= Off(sent[sn])
  BY DEF Aloft
<1> DEFINE seg == k.snd_buf[sn]
           at == seg.ts
           c == Off(k.current)
           c1 == Off(k1.current)
<1>1. k.updated /\ Flying(seg, at, c) /\ Within(sent[sn], m) /\ Off(at) <= Off(sent[sn])
  BY DEF Aloft
<1>2. c \in 0..m
  BY <1>1, TimedIs
<1>3. c1 = c \/ c1 = m1
  BY NowIs
<1> HIDE DEF seg, at, c, c1
<1>4. c \in Nat /\ c1 \in Nat /\ c <= c1 /\ m \in Nat /\ m1 \in Nat
  BY <1>2, <1>3
<1>5. Flying(seg, at, c1) /\ Within(sent[sn], m1)
  BY <1>1, <1>4, TimePasses
<1> QED BY <1>1, <1>5 DEF seg, at, c1

\* What a datagram leaves in flight is in flight.
LEMMA TakenWatches ==
    ASSUME use \in Uses, NEW k, NEW k1, NEW n, NEW acks, Taken(k, k1, n, acks),
           NEW sent, NEW m, Aloft(k, sent, m), Watched(k)
    PROVE  Aloft(k1, sent, m) /\ Watched(k1)
<1>1. SameClock(k, k1)
  BY DEF Taken
<1> SUFFICES ASSUME NEW sn \in DOMAIN k1.snd_buf
             PROVE  LET seg == k1.snd_buf[sn]
                    IN  /\ k.updated /\ Flying(seg, seg.ts, Off(k.current))
                        /\ Within(sent[sn], m) /\ Off(seg.ts) <= Off(sent[sn])
                        /\ Off(k.ts_flush) <= Rings(seg) + Interval
  BY <1>1 DEF Aloft, Watched, SameClock
<1> DEFINE s == k.snd_buf[sn]
           seg == k1.snd_buf[sn]
<1>2. sn \in DOMAIN k.snd_buf /\ SameSegment(s, seg)
  BY DEF Taken, Marked
<1>3. /\ k.updated /\ Flying(s, s.ts, Off(k.current))
      /\ Within(sent[sn], m) /\ Off(s.ts) <= Off(sent[sn])
      /\ Off(k.ts_flush) <= Rings(s) + Interval
  BY <1>2 DEF Aloft, Watched
<1> HIDE DEF s, seg
<1>4. Rings(seg) = Rings(s) /\ seg.ts = s.ts
  BY <1>2 DEF SameSegment, Rings
<1>5. Flying(seg, seg.ts, Off(k.current))
  BY <1>2, <1>3 DEF SameSegment, Flying
<1> QED BY <1>3, <1>4, <1>5 DEF seg

-----------------------------------------------------------------------------
(* A closed window is probed in time *)

\* The timer of the probe, p being when the window closed or was last probed.
Armed(k, p, m) ==
    /\ Within(p, m)
    /\ k.probe_wait # 0 =>
           /\ Moment(k.ts_probe)
           /\ Off(k.ts_probe) <= Off(p) + k.probe_wait + 2 * Interval

\* The next flush is not far from when the timer is to start, or to run out.
Probed(k, p, m) ==
    /\ Armed(k, p, m)
    /\ k.updated /\ k.probe_wait = 0 => Off(k.ts_flush) <= Off(p) + Interval
    /\ k.updated /\ k.probe_wait # 0 => Off(k.ts_flush) <= Off(k.ts_probe) + Interval
    /\ ~k.updated => k.probe_wait = 0

\* A timer that starts or goes on at the engine's clock.
LEMMA ProbeFrom ==
    ASSUME use \in Uses, NEW m \in 0..MaxTime, NEW k, Timed(k, m), k.updated,
           NEW wait \in 1..ProbeLimit
    PROVE  /\ Moment(Plus(k.current, wait))
           /\ Off(Plus(k.current, wait)) = Off(k.current) + wait
<1> DEFINE c == Off(k.current)
           e == c + wait
<1>1. c \in 0..MaxTime /\ k.current = Plus(use.start, c)
  BY TimedIs, MomentIs
<1>2. ProbeLimit \in Nat /\ MaxTime \in Nat /\ MaxTime + ProbeLimit <= Far /\ Far \in Nat
  BY SenderAssumption DEF Far
<1> HIDE DEF c
<1>3. /\ c \in Nat /\ c <= MaxTime /\ wait \in Nat /\ wait <= Far /\ e \in 0..Far
  BY <1>1, <1>2
<1>4. Plus(k.current, wait) = Plus(use.start, e)
  BY <1>1, <1>3, TimerFrom
<1> HIDE DEF e
<1>5. Off(Plus(use.start, e)) = e /\ Moment(Plus(use.start, e))
  BY <1>3, OffIs
<1> QED BY <1>4, <1>5 DEF c, e

\* A flush starts the timer when the window has just closed, and asks and sets it
\* anew when it has run out; else it leaves it, or stops it.
LEMMA OutputProbes ==
    ASSUME use \in Uses, NEW m \in 0..MaxTime, now = Plus(use.start, m),
           NEW k, Sound(k), Room(k), Timed(k, m), k.updated, Armed(k, probedAt, m),
           k.probe_wait = 0 => Off(k.current) <= Off(probedAt) + 2 * Interval,
           NEW rest, Output(k, rest)
    PROVE  Probed(kcp', probedAt', m)
<1> DEFINE f == Flush(k)
           p == probedAt
           p1 == probedAt'
           c == Off(k.current)
           tp == Off(k.ts_probe)
           tp1 == Off(f.ts_probe)
           fl == Off(k.ts_flush)
           I == Interval
<1>1. /\ Flushed(k, Prepared(k), f) /\ ProbeSet(k, f)
  BY FlushIs
<1>2. /\ kcp' = f
      /\ p1 = IF Asks(k) \/ k.rmt_wnd # 0 THEN now ELSE p
  BY DEF Output
<1> HIDE DEF f
<1>3. f.current = k.current /\ f.updated = k.updated /\ f.ts_flush = k.ts_flush
  BY <1>1 DEF Flushed, SameClock
<1>4. /\ c \in 0..m /\ c \in Nat /\ m \in Nat /\ I \in Nat
      /\ Moment(k.current) /\ fl \in Nat /\ fl <= c + I
  BY TimedIs, ConfigIs
<1>5. Moment(p) /\ Off(p) \in 0..m /\ Within(p, m) /\ Off(p) \in Nat
  BY WithinIs DEF Armed
<1>6. Moment(now) /\ Off(now) = m /\ Within(now, m)
  BY NowIs
<1>7. k.probe_wait \in 0..ProbeLimit /\ k.probe_wait \in Nat /\ ProbeLimit \in Nat
  BY BlockIs, SenderAssumption DEF Sound
<1>8. ASSUME NEW wait \in 1..ProbeLimit
      PROVE  Moment(Plus(k.current, wait)) /\ Off(Plus(k.current, wait)) = c + wait
  BY ProbeFrom
<1>9. CASE k.rmt_wnd # 0
  <2>1. f.probe_wait = 0 /\ p1 = now
    BY <1>1, <1>2, <1>9 DEF ProbeSet
  <2>2. fl <= Off(p1) + I
    BY <1>4, <1>6, <2>1
  <2> HIDE DEF p, p1, c, tp, tp1, fl, I
  <2>3. Probed(f, p1, m)
    BY <1>3, <1>6, <2>1, <2>2 DEF Probed, Armed, fl, I
  <2> QED BY <1>2, <2>3 DEF p1
<1>10. CASE k.rmt_wnd = 0 /\ (k.probe_wait = 0 \/ Asks(k))
  <2> DEFINE wait == f.probe_wait
  <2>1. wait \in 1..ProbeLimit /\ f.ts_probe = Plus(k.current, wait)
    BY <1>1, <1>10 DEF ProbeSet
  <2>2. Moment(f.ts_probe) /\ tp1 = c + wait /\ wait \in Nat /\ wait # 0
    BY <1>7, <1>8, <2>1
  <2>3. Within(p1, m) /\ c <= Off(p1) + 2 * I /\ Off(p1) \in Nat
    <3>1. CASE Asks(k)
      BY <1>2, <1>4, <1>6, <3>1
    <3>2. CASE ~Asks(k)
      <4>1. p1 = p /\ k.probe_wait = 0
        BY <1>2, <1>10, <3>2
      <4> QED BY <1>5, <4>1
    <3> QED BY <3>1, <3>2
  <2> HIDE DEF p, p1, c, tp, tp1, fl, I, wait
  <2>4. tp1 <= Off(p1) + wait + 2 * I /\ fl <= tp1 + I
    BY <1>4, <2>2, <2>3
  <2>5. Probed(f, p1, m)
    BY <1>3, <2>2, <2>3, <2>4 DEF Probed, Armed, fl, tp1, wait, I
  <2> QED BY <1>2, <2>5 DEF p1
<1>11. CASE k.rmt_wnd = 0 /\ k.probe_wait # 0 /\ ~Asks(k)
  <2>1. f.ts_probe = k.ts_probe /\ f.probe_wait = k.probe_wait
    BY <1>1, <1>11 DEF ProbeSet, SameProbe
  <2>2. p1 = p
    BY <1>2, <1>11
  <2>3. Moment(k.ts_probe) /\ tp <= Off(p) + k.probe_wait + 2 * I
    BY <1>11 DEF Armed
  <2>4. tp \in Nat /\ Diff(k.current, k.ts_probe) = c - tp
    BY <1>4, <2>3, MomentIs, MomentsApart
  <2>5. ~ (c - tp >= 0)
    BY <1>11, <2>4 DEF Asks
  <2> HIDE DEF p, p1, c, tp, tp1, fl, I
  <2>6. fl <= tp + I
    BY <1>4, <2>4, <2>5
  <2>7. Probed(f, p1, m)
    BY <1>3, <1>5, <1>11, <2>1, <2>2, <2>3, <2>6 DEF Probed, Armed, fl, tp, I
  <2> QED BY <1>2, <2>7 DEF p1
<1> QED BY <1>9, <1>10, <1>11

-----------------------------------------------------------------------------
(* What is queued goes out in time *)

\* Data waits with nothing under way and an open window.
Waits(k) == k.nsnd_que > 0 /\ DOMAIN k.snd_buf = {} /\ k.rmt_wnd # 0

\* The next flush is not far from b, the last time that nothing waited; from the
\* first one on the congestion window is open.
Queued(k, b, m) ==
    /\ Within(b, m) /\ Whole(k)
    /\ k.updated => k.cwnd >= 1 /\ Off(k.ts_flush) <= Off(b) + 2 * Interval

\* What waits after a flush waited for the first one, in the first interval.
LEMMA OutputQueues ==
    ASSUME use \in Uses, NEW m \in 0..MaxTime, now = Plus(use.start, m), now' = now,
           NEW k, Sound(k), Room(k), Timed(k, m), k.updated, Whole(k),
           Within(blockedAt, m), k.cwnd >= 1 \/ m <= Interval,
           NEW rest, Output(k, rest), NoteBlocked
    PROVE  Queued(kcp', blockedAt', m)
<1> DEFINE f == Flush(k)
           b == blockedAt
           b1 == blockedAt'
           c == Off(k.current)
           fl == Off(k.ts_flush)
           I == Interval
<1>1. Flushed(k, Prepared(k), f) /\ Cleared(k, f) /\ f.cwnd >= 1
  BY FlushIs
<1>2. kcp' = f
  BY DEF Output
<1>3. b1 = IF f.nsnd_que = 0 \/ DOMAIN f.snd_buf # {} \/ f.rmt_wnd = 0 THEN now ELSE b
  BY <1>2 DEF NoteBlocked
<1> HIDE DEF f
<1>4. f.updated = k.updated /\ f.ts_flush = k.ts_flush
  BY <1>1 DEF Flushed, SameClock
<1>5. c \in Nat /\ c <= m /\ m \in Nat /\ I \in Nat /\ fl \in Nat /\ fl <= c + I
  BY TimedIs, ConfigIs
<1>6. Off(b) \in Nat
  BY WithinIs
<1>7. Off(now) = m /\ Within(now, m)
  BY NowIs
<1> HIDE DEF b, b1, c, fl, I
<1>8. Within(b1, m)
  BY <1>3, <1>7 DEF b
<1>9. fl <= Off(b1) + 2 * I
  <2>1. CASE b1 = now
    BY <1>5, <1>7, <2>1
  <2>2. CASE b1 # now
    <3>1. b1 = b /\ f.nsnd_que # 0 /\ DOMAIN f.snd_buf = {} /\ f.rmt_wnd # 0
      BY <1>3, <2>2
    <3>2. ~ (k.cwnd >= 1)
      BY <1>1, <3>1 DEF Cleared
    <3>3. m <= I
      BY <3>2 DEF I
    <3> QED BY <1>5, <1>6, <3>1, <3>3
  <2> QED BY <2>1, <2>2
<1>10. Whole(f)
  BY <1>1 DEF Cleared
<1>11. Queued(f, b1, m)
  BY <1>1, <1>4, <1>8, <1>9, <1>10 DEF Queued, fl, I
<1> QED BY <1>2, <1>11 DEF b1

-----------------------------------------------------------------------------
(* The deadlines *)

\* A loop around check sleeps an interval at most when check leaves it the choice.
Wakes == use.driver = "check" => Min(use.steps) <= Interval

\* The driver of the engine k is never late for an update.
Prompt(k, m) ==
    /\ k.updated => m <= Off(k.current) + Interval
    /\ ~k.updated => /\ m <= Interval /\ k.current = 0
                     /\ use.driver = "check" /\ Plus(use.start, m) = 0 => m = 0

\* The timers of the engine, the moments that the history notes, and the driver.
Deadlines(k, sent, p, b, m) ==
    /\ Aloft(k, sent, m) /\ Watched(k)
    /\ Driven /\ Wakes => Prompt(k, m) /\ Probed(k, p, m) /\ Queued(k, b, m)

\* A flush meets them.
LEMMA OutputMeets ==
    ASSUME use \in Uses, NEW m \in 0..MaxTime, now = Plus(use.start, m), now' = now,
           NEW k, Sound(k), Room(k), Timed(k, m), k.updated, Aloft(k, sentAt, m),
           Driven /\ Wakes =>
               /\ m <= Off(k.current) + Interval
               /\ Armed(k, probedAt, m)
               /\ k.probe_wait = 0 => Off(k.current) <= Off(probedAt) + 2 * Interval
               /\ Whole(k) /\ Within(blockedAt, m)
               /\ k.cwnd >= 1 \/ m <= Interval,
           NEW rest, Output(k, rest), NoteBlocked
    PROVE  Deadlines(kcp', sentAt', probedAt', blockedAt', m)
<1> DEFINE f == Flush(k)
           sent1 == sentAt'
           p1 == probedAt'
           b1 == blockedAt'
<1>1. kcp' = f
  BY DEF Output
<1>2. f.updated = k.updated /\ f.current = k.current
  BY FlushIs DEF Flushed, SameClock
<1> HIDE DEF f
<1>3. Aloft(f, sent1, m) /\ Watched(f)
  BY <1>1, OutputWatches
<1>4. ASSUME Driven, Wakes
      PROVE  Prompt(f, m) /\ Probed(f, p1, m) /\ Queued(f, b1, m)
  <2>1. Prompt(f, m)
    BY <1>2, <1>4 DEF Prompt
  <2>2. Probed(f, p1, m)
    BY <1>1, <1>4, OutputProbes
  <2>3. Queued(f, b1, m)
    BY <1>1, <1>4, OutputQueues
  <2> QED BY <2>1, <2>2, <2>3
<1> HIDE DEF sent1, p1, b1
<1>5. Deadlines(f, sent1, p1, b1, m)
  BY <1>3, <1>4 DEF Deadlines
<1> QED BY <1>1, <1>5 DEF sent1, p1, b1

\* An update meets them, also one that is too early to flush: it leaves the
\* schedule alone.
LEMMA UpdateMeets ==
    ASSUME use \in Uses, NEW m \in 0..MaxTime, now = Plus(use.start, m), now' = now,
           NEW k, Sound(k), Room(k), Timed(k, m),
           Deadlines(k, sentAt, probedAt, blockedAt, m),
           NEW rest, Update(k, rest), NoteBlocked
    PROVE  Deadlines(kcp', sentAt', probedAt', blockedAt', m)
<1> DEFINE k1 == Scheduled(k, now)
           slap == Slap(k, now)
           p == probedAt
           b == blockedAt
           c == Off(k.current)
           c1 == Off(k1.current)
           fl == Off(k.ts_flush)
           I == Interval
<1>1. /\ Rescheduled(k, k1, now) /\ Timed(k1, m) /\ slap \in Int
      /\ slap < 0 => k.updated /\ k1.ts_flush = k.ts_flush
  BY ScheduledIs DEF Sound
<1>2. \/ slap >= 0 /\ Output(k1, rest)
      \/ /\ ~ (slap >= 0) /\ kcp' = k1
         /\ probedAt' = IF k.rmt_wnd # 0 THEN now ELSE probedAt
         /\ UNCHANGED <<sentAt, fastResent, asked>>
  BY DEF Update
<1> HIDE DEF k1, slap
<1>3. /\ k1.updated /\ k1.current = now /\ k1.snd_buf = k.snd_buf
      /\ SameProbe(k, k1) /\ SameWindows(k, k1) /\ SameQueue(k, k1)
  BY <1>1 DEF Rescheduled
<1>4. Sound(k1) /\ Room(k1)
  BY <1>1, <1>3 DEF Rescheduled, Sound, Room, SameQueue
<1>5. Moment(now) /\ Off(now) = m /\ Within(now, m) /\ c1 = m /\ m \in Nat /\ I \in Nat
  BY <1>3, NowIs, ConfigIs
<1>6. Aloft(k1, sentAt, m)
  <2>1. m \in 0..MaxTime /\ m <= m /\ Aloft(k, sentAt, m)
    BY <1>5 DEF Deadlines
  <2> QED BY <1>3, <2>1, AloftLater
<1>7. k.updated => /\ c \in Nat /\ fl \in Nat /\ c <= m /\ c < fl /\ fl <= c + I
  BY <1>5, TimedIs
<1>8. CASE slap >= 0 /\ Output(k1, rest)
  <2>1. ASSUME Driven, Wakes
        PROVE  /\ m <= c1 + I
               /\ Armed(k1, p, m)
               /\ k1.probe_wait = 0 => c1 <= Off(p) + 2 * I
               /\ Whole(k1) /\ Within(b, m)
               /\ k1.cwnd >= 1 \/ m <= I
    <3>1. Prompt(k, m) /\ Probed(k, p, m) /\ Queued(k, b, m)
      BY <2>1 DEF Deadlines
    <3>2. Armed(k1, p, m)
      BY <1>3, <3>1 DEF Probed, Armed, SameProbe
    <3>3. Whole(k1) /\ Within(b, m)
      BY <1>3, <3>1 DEF Queued, Whole, SameWindows, SameQueue
    <3>4. k1.cwnd >= 1 \/ m <= I
      BY <1>3, <3>1 DEF Queued, Prompt, SameWindows
    <3>5. Off(p) \in Nat
      BY <3>1, WithinIs DEF Probed, Armed
    <3>6. k1.probe_wait = 0 => m <= Off(p) + 2 * I
      <4>1. CASE k.updated
        <5>1. m <= c + I
          BY <3>1, <4>1 DEF Prompt
        <5>2. k1.probe_wait = 0 => fl <= Off(p) + I
          BY <1>3, <3>1, <4>1 DEF Probed, SameProbe
        <5> HIDE DEF c, fl, I, p
        <5> QED BY <1>5, <1>7, <3>5, <4>1, <5>1, <5>2
      <4>2. CASE ~k.updated
        <5>1. m <= I
          BY <3>1, <4>2 DEF Prompt
        <5> HIDE DEF c, fl, I, p
        <5> QED BY <1>5, <3>5, <5>1
      <4> QED BY <4>1, <4>2
    <3> HIDE DEF c, c1, fl, I, p
    <3>7. m <= c1 + I /\ (k1.probe_wait = 0 => c1 <= Off(p) + 2 * I)
      BY <1>5, <3>6
    <3> QED BY <3>2, <3>3, <3>4, <3>7
  <2> QED BY <1>1, <1>3, <1>4, <1>6, <1>8, <2>1, OutputMeets
<1>9. CASE /\ ~ (slap >= 0) /\ kcp' = k1
           /\ probedAt' = IF k.rmt_wnd # 0 THEN now ELSE probedAt
           /\ UNCHANGED <<sentAt, fastResent, asked>>
  <2> DEFINE p1 == probedAt'
             b1 == blockedAt'
  <2>1. k.updated /\ k1.ts_flush = k.ts_flush
    BY <1>1, <1>9
  <2>2. b1 = b \/ b1 = now
    BY <1>9 DEF NoteBlocked
  <2>3. Watched(k1)
    BY <1>3, <2>1 DEF Deadlines, Watched
  <2>4. ASSUME Driven, Wakes
        PROVE  Prompt(k1, m) /\ Probed(k1, p1, m) /\ Queued(k1, b1, m)
    <3>1. Prompt(k, m) /\ Probed(k, p, m) /\ Queued(k, b, m)
      BY <2>4 DEF Deadlines
    <3>2. Prompt(k1, m)
      BY <1>3, <1>5 DEF Prompt
    <3>3. Within(p, m) /\ Off(p) \in Nat /\ Off(p) <= m
      BY <1>5, <3>1, WithinIs DEF Probed, Armed
    <3>4. k.probe_wait \in Nat
      <4>1. k.probe_wait \in 0..ProbeLimit
        BY BlockIs DEF Sound
      <4> QED BY <4>1, SenderAssumption
    <3>5. k.probe_wait # 0 =>
              Moment(k.ts_probe) /\ Off(k.ts_probe) <= Off(p) + k.probe_wait + 2 * I
      BY <3>1 DEF Probed, Armed
    <3>6. /\ k.probe_wait = 0 => fl <= Off(p) + I
          /\ k.probe_wait # 0 => fl <= Off(k.ts_probe) + I
      BY <2>1, <3>1 DEF Probed
    <3>7. p1 = p \/ p1 = now
      BY <1>9
    <3>8. k.probe_wait # 0 => Off(k.ts_probe) \in Nat
      BY <3>5, MomentIs
    <3> HIDE DEF p, p1, c, c1, I
    <3>9. /\ Within(p1, m)
          /\ k.probe_wait # 0 => Off(k.ts_probe) <= Off(p1) + k.probe_wait + 2 * I
          /\ k.probe_wait = 0 => fl <= Off(p1) + I
      <4>1. CASE p1 = p
        BY <3>3, <3>5, <3>6, <4>1
      <4>2. CASE p1 = now
        <5>1. Off(p1) = m /\ Within(p1, m)
          BY <1>5, <4>2
        <5> HIDE DEF fl
        <5> QED BY <1>5, <1>7, <2>1, <3>3, <3>4, <3>5, <3>8, <5>1
      <4> QED BY <3>7, <4>1, <4>2
    <3>10. Probed(k1, p1, m)
      BY <1>3, <2>1, <3>5, <3>6, <3>9 DEF Probed, Armed, SameProbe, fl, I
    <3>11. Within(b, m) /\ Whole(k) /\ k.cwnd >= 1 /\ fl <= Off(b) + 2 * I
      BY <2>1, <3>1 DEF Queued, I
    <3>12. Off(b) \in Nat
      BY <3>11, WithinIs
    <3> HIDE DEF b, b1, fl
    <3>13. Within(b1, m) /\ fl <= Off(b1) + 2 * I
      <4>1. CASE b1 = b
        BY <3>11, <4>1
      <4>2. CASE b1 = now
        BY <1>5, <1>7, <2>1, <4>2
      <4> QED BY <2>2, <4>1, <4>2
    <3>14. Whole(k1) /\ k1.cwnd >= 1
      BY <1>3, <3>11 DEF Whole, SameWindows, SameQueue
    <3>15. Queued(k1, b1, m)
      BY <2>1, <3>13, <3>14 DEF Queued, fl, I
    <3> QED BY <3>2, <3>10, <3>15
  <2> HIDE DEF p1, b1
  <2>5. Deadlines(k1, sentAt, p1, b1, m)
    BY <1>6, <2>3, <2>4 DEF Deadlines
  <2> QED BY <1>9, <2>5 DEF p1, b1
<1> QED BY <1>2, <1>8, <1>9

\* A datagram changes none of them.
LEMMA TakenMeets ==
    ASSUME use \in Uses, NEW k, NEW k1, NEW n, NEW acks, Taken(k, k1, n, acks),
           NEW sent, NEW p, NEW b, NEW m, Deadlines(k, sent, p, b, m)
    PROVE  Deadlines(k1, sent, p, b, m)
<1>1. SameClock(k, k1) /\ Steady(k, k1)
  BY DEF Taken
<1>2. Aloft(k1, sent, m) /\ Watched(k1)
  BY TakenWatches DEF Deadlines
<1>3. Prompt(k, m) => Prompt(k1, m)
  BY <1>1 DEF Prompt, SameClock
<1>4. Probed(k, p, m) => Probed(k1, p, m)
  BY <1>1 DEF Probed, Armed, SameClock, Steady, SameProbe
<1>5. Queued(k, b, m) => Queued(k1, b, m)
  BY <1>1 DEF Queued, SameClock, Steady
<1> QED BY <1>2, <1>3, <1>4, <1>5 DEF Deadlines

\* A step that starts no other use leaves them as it means them.
LEMMA DeadlinesPrimed ==
    ASSUME use' = use, NEW k, NEW sent, NEW p, NEW b, NEW m,
           k = kcp', sent = sentAt', p = probedAt', b = blockedAt', m = time',
           Deadlines(k, sent, p, b, m)
    PROVE  Deadlines(kcp, sentAt, probedAt, blockedAt, time)'
<1>1. /\ Config' = Config /\ Interval' = Interval /\ use'.start = use.start
      /\ use'.driver = use.driver /\ use'.steps = use.steps
  BY DEF Config, Interval
<1>2. Aloft(kcp, sentAt, time)'
  <2>1. Aloft(k, sent, m)
    BY DEF Deadlines
  <2> QED BY <1>1, <2>1 DEF Aloft, Flying, Within, Off
<1>3. Watched(kcp)'
  <2>1. Watched(k)
    BY DEF Deadlines
  <2> QED BY <1>1, <2>1 DEF Watched, Rings, Off
<1>4. (Driven /\ Wakes)' => Driven /\ Wakes
  BY <1>1 DEF Driven, Wakes
<1>5. Prompt(k, m) => Prompt(kcp, time)'
  BY <1>1 DEF Prompt, Off
<1>6. Probed(k, p, m) => Probed(kcp, probedAt, time)'
  BY <1>1 DEF Probed, Armed, Within, Moment, Off
<1>7. Queued(k, b, m) => Queued(kcp, blockedAt, time)'
  BY <1>1 DEF Queued, Within, Whole, Off
<1> QED BY <1>2, <1>3, <1>4, <1>5, <1>6, <1>7 DEF Deadlines

\* The inductive invariant with the deadlines.
DInv == IInv /\ Deadlines(kcp, sentAt, probedAt, blockedAt, time)

LEMMA TickMeets ==
    ASSUME DInv, Tick
    PROVE  DInv'
<1>1. /\ use \in Uses /\ time \in 0..MaxTime /\ now = Plus(use.start, time)
      /\ Sound(kcp) /\ Room(kcp) /\ Timed(kcp, time)
      /\ Deadlines(kcp, sentAt, probedAt, blockedAt, time)
  BY DEF DInv, IInv, TypeOK, Ready
<1>2. Update(kcp, net) /\ UNCHANGED <<use, now, time>> /\ NoteBlocked
  BY DEF Tick
<1> DEFINE k1 == kcp'
           sent1 == sentAt'
           p1 == probedAt'
           b1 == blockedAt'
<1>3. Deadlines(k1, sent1, p1, b1, time)
  BY <1>1, <1>2, UpdateMeets
<1>4. use' = use /\ k1 = kcp' /\ sent1 = sentAt' /\ p1 = probedAt' /\ b1 = blockedAt' /\ time = time'
  BY <1>2
<1> HIDE DEF k1, sent1, p1, b1
<1>5. Deadlines(kcp, sentAt, probedAt, blockedAt, time)'
  BY <1>3, <1>4, DeadlinesPrimed
<1>6. IInv'
  BY TickKeeps DEF DInv
<1> QED BY <1>5, <1>6 DEF DInv

LEMMA ArriveMeets ==
    ASSUME DInv, NEW n \in Nat, NEW answers \in [1..n -> net],
           NEW una \in 0..MaxWrites, NEW wnd \in use.windows, Arrive(answers, una, wnd)
    PROVE  DInv'
<1>1. /\ IInv /\ use \in Uses /\ time \in 0..MaxTime /\ now = Plus(use.start, time)
      /\ Deadlines(kcp, sentAt, probedAt, blockedAt, time)
  BY DEF DInv, IInv, TypeOK
<1>2. PICK k, rest, acks : Arrived(k, rest, n, acks)
  BY <1>1, ArriveIs
<1>3. UNCHANGED <<use, now, time>> /\ NoteBlocked
  BY <1>1, ArriveIs
<1>4. /\ Taken(kcp, k, n, acks) /\ Sound(k) /\ Room(k) /\ Timed(k, time) /\ Update(k, rest)
  BY <1>2 DEF Arrived, Ready
<1>5. Deadlines(k, sentAt, probedAt, blockedAt, time)
  BY <1>1, <1>4, TakenMeets
<1> DEFINE k1 == kcp'
           sent1 == sentAt'
           p1 == probedAt'
           b1 == blockedAt'
<1>6. Deadlines(k1, sent1, p1, b1, time)
  BY <1>1, <1>3, <1>4, <1>5, UpdateMeets
<1>7. use' = use /\ k1 = kcp' /\ sent1 = sentAt' /\ p1 = probedAt' /\ b1 = blockedAt' /\ time = time'
  BY <1>3
<1> HIDE DEF k1, sent1, p1, b1
<1>8. Deadlines(kcp, sentAt, probedAt, blockedAt, time)'
  BY <1>6, <1>7, DeadlinesPrimed
<1>9. IInv'
  BY <1>1, ArriveKeeps
<1> QED BY <1>8, <1>9 DEF DInv

\* A segment that is written waits for the next flush, or flush_write flushes.
LEMMA WriteMeets ==
    ASSUME DInv, Write
    PROVE  DInv'
<1> DEFINE n == kcp.nsnd_que + 1
           k == WithQueue(kcp, n)
           m == time
           p == probedAt
           b == blockedAt
           k1 == kcp'
           sent1 == sentAt'
           p1 == probedAt'
           b1 == blockedAt'
<1>1. /\ IInv /\ use \in Uses /\ m \in 0..MaxTime /\ now = Plus(use.start, m)
      /\ kcp \in ControlBlock /\ Sound(kcp) /\ Room(kcp) /\ Timed(kcp, m)
      /\ Deadlines(kcp, sentAt, p, b, m)
  BY DEF DInv, IInv, TypeOK, Ready
<1>2. /\ kcp.snd_nxt + kcp.nsnd_que < use.writes
      /\ \/ use.flushing /\ kcp.updated /\ Output(k, net)
         \/ k1 = k /\ sent1 = sentAt /\ p1 = p
      /\ use' = use /\ now' = now /\ time' = time
      /\ NoteBlocked
  <2>1. k = [kcp EXCEPT !.nsnd_que = @ + 1]
    BY <1>1 DEF WithQueue, ControlBlock
  <2> HIDE DEF k
  <2> QED BY <2>1 DEF Write
<1>3. n \in Nat /\ kcp.snd_nxt + n <= MaxWrites
  <2>1. kcp.snd_nxt \in Nat /\ kcp.nsnd_que \in Nat /\ use.writes \in 0..MaxWrites
    BY <1>1, BlockIs, ConfigIs
  <2> QED BY <1>2, <2>1, SnIs
<1> HIDE DEF n
<1>4. /\ k \in ControlBlock /\ SameClock(kcp, k) /\ k.snd_nxt = kcp.snd_nxt /\ k.nsnd_que = n
      /\ k.snd_buf = kcp.snd_buf /\ k.rx_rto = kcp.rx_rto
      /\ SameProbe(kcp, k) /\ SameWindows(kcp, k)
  BY <1>1, <1>3, QueueMade
<1> HIDE DEF k
<1>5. Sound(k) /\ Room(k) /\ Timed(k, m)
  BY <1>1, <1>3, <1>4 DEF Sound, Room, Timed, SameClock
<1>6. Aloft(k, sentAt, m) /\ Watched(k)
  BY <1>1, <1>4 DEF Deadlines, Aloft, Watched, SameClock
<1>7. ASSUME Driven, Wakes
      PROVE  Prompt(k, m) /\ Probed(k, p, m) /\ Within(b, m) /\ Whole(k)
             /\ (k.updated => k.cwnd >= 1 /\ Off(k.ts_flush) <= Off(b) + 2 * Interval)
  <2>1. Prompt(kcp, m) /\ Probed(kcp, p, m) /\ Queued(kcp, b, m)
    BY <1>1, <1>7 DEF Deadlines
  <2>2. Prompt(k, m)
    BY <1>4, <2>1 DEF Prompt, SameClock
  <2>3. Probed(k, p, m)
    BY <1>4, <2>1 DEF Probed, Armed, SameClock, SameProbe
  <2>4. Within(b, m) /\ Whole(k)
    BY <1>4, <2>1 DEF Queued, Whole, SameWindows
  <2>5. k.updated => k.cwnd >= 1 /\ Off(k.ts_flush) <= Off(b) + 2 * Interval
    BY <1>4, <2>1 DEF Queued, SameWindows, SameClock
  <2> QED BY <2>2, <2>3, <2>4, <2>5
<1>8. Deadlines(k1, sent1, p1, b1, m)
  <2>1. CASE use.flushing /\ kcp.updated /\ Output(k, net)
    <3> DEFINE c == Off(k.current)
               fl == Off(k.ts_flush)
               I == Interval
    <3>1. k.updated
      BY <1>4, <2>1 DEF SameClock
    <3>2. c \in Nat /\ fl \in Nat /\ c < fl /\ I \in Nat
      BY <1>1, <1>5, <3>1, TimedIs, ConfigIs
    <3>3. ASSUME Driven, Wakes
          PROVE  /\ m <= c + I
                 /\ Armed(k, p, m)
                 /\ k.probe_wait = 0 => c <= Off(p) + 2 * I
                 /\ Whole(k) /\ Within(b, m) /\ k.cwnd >= 1
      <4>1. Prompt(k, m) /\ Probed(k, p, m) /\ Within(b, m) /\ Whole(k) /\ k.cwnd >= 1
        BY <1>7, <3>1, <3>3
      <4>2. m <= c + I
        BY <3>1, <4>1 DEF Prompt
      <4>3. Armed(k, p, m) /\ (k.probe_wait = 0 => fl <= Off(p) + I)
        BY <3>1, <4>1 DEF Probed
      <4>4. Off(p) \in Nat
        BY <1>1, <4>3, WithinIs DEF Armed
      <4> HIDE DEF c, fl, I, p
      <4>5. k.probe_wait = 0 => c <= Off(p) + 2 * I
        BY <3>2, <4>3, <4>4
      <4> QED BY <4>1, <4>2, <4>3, <4>5
    <3> QED BY <1>1, <1>2, <1>5, <1>6, <2>1, <3>1, <3>3, OutputMeets
  <2>2. CASE k1 = k /\ sent1 = sentAt /\ p1 = p
    <3>1. b1 = b \/ b1 = now
      BY <1>2 DEF NoteBlocked
    <3>2. ASSUME Driven, Wakes PROVE Queued(k, b1, m)
      <4>1. /\ Within(b, m) /\ Whole(k)
            /\ (k.updated => k.cwnd >= 1 /\ Off(k.ts_flush) <= Off(b) + 2 * Interval)
        BY <1>7, <3>2
      <4>2. Off(now) = m /\ Within(now, m)
        BY <1>1, NowIs
      <4>3. Within(b1, m)
        BY <3>1, <4>1, <4>2
      <4>4. k.updated => Off(k.ts_flush) <= Off(b1) + 2 * Interval
        <5> SUFFICES ASSUME k.updated PROVE Off(k.ts_flush) <= Off(b1) + 2 * Interval
          OBVIOUS
        <5> DEFINE c == Off(k.current)
                   fl == Off(k.ts_flush)
                   I == Interval
        <5>1. c \in Nat /\ fl \in Nat /\ c <= m /\ fl <= c + I /\ I \in Nat /\ m \in Nat
          BY <1>1, <1>5, TimedIs, ConfigIs
        <5>2. fl <= Off(b) + 2 * I
          BY <4>1
        <5> HIDE DEF c, fl, I, b, b1, m
        <5>3. fl <= Off(b1) + 2 * I
          <6>1. CASE b1 = b
            BY <5>2, <6>1
          <6>2. CASE b1 = now
            BY <4>2, <5>1, <6>2
          <6> QED BY <3>1, <6>1, <6>2
        <5> QED BY <5>3 DEF fl, I
      <4> QED BY <4>1, <4>3, <4>4 DEF Queued
    <3> HIDE DEF b, b1, p, p1, k1, sent1, m
    <3>3. Deadlines(k, sentAt, p, b1, m)
      BY <1>6, <1>7, <3>2 DEF Deadlines
    <3> QED BY <2>2, <3>3
  <2> QED BY <1>2, <2>1, <2>2
<1>9. use' = use /\ k1 = kcp' /\ sent1 = sentAt' /\ p1 = probedAt' /\ b1 = blockedAt' /\ m = time'
  BY <1>2
<1> HIDE DEF k1, sent1, p1, b1, m
<1>10. Deadlines(kcp, sentAt, probedAt, blockedAt, time)'
  BY <1>8, <1>9, DeadlinesPrimed
<1>11. IInv'
  BY <1>1, WriteKeeps
<1> QED BY <1>10, <1>11 DEF DInv

\* A loop that sleeps for what check says wakes up no later than for the flush.
LEMMA CheckIs ==
    ASSUME use \in Uses, NEW m \in 0..MaxTime, NEW t, t = Plus(use.start, m),
           NEW k \in ControlBlock, Timed(k, m), NEW d \in Nat, d > 0,
           d <= Diff(Check(k, t), t)
    PROVE  k.updated /\ d <= Off(k.ts_flush) - m
<1> DEFINE late == Diff(t, k.ts_flush)
           next == IF late >= SlapLimit \/ late < -SlapLimit THEN t ELSE k.ts_flush
           wait == Diff(next, t)
           D == DOMAIN k.snd_buf
           resends == {Diff(k.snd_buf[sn].resendts, t) : sn \in D}
           T == {wait, Interval} \cup resends
           w == Min(T)
           now1 == Check(k, t)
<1>1. now1 = IF ~k.updated \/ wait <= 0 \/ \E r \in resends : r <= 0 THEN t ELSE Plus(t, w)
  BY DEF Check
<1>2. Moment(t) /\ Off(t) = m /\ t \in Time /\ m \in Nat /\ m <= MaxTime
  BY NowIs, MomentIs
<1>3. Diff(t, t) = 0
  <2>1. Diff(t, t) = Off(t) - Off(t)
    BY <1>2, MomentsApart
  <2> QED BY <1>2, <2>1
<1>4. now1 # t
  BY <1>3
<1>5. k.updated /\ ~ (wait <= 0) /\ (\A r \in resends : ~ (r <= 0)) /\ now1 = Plus(t, w)
  BY <1>1, <1>4
<1>6. Moment(k.ts_flush)
  BY <1>5, TimedIs
<1>7. wait = Off(k.ts_flush) - m /\ wait \in Nat
  <2>1. Off(k.ts_flush) \in Nat
    BY <1>6, MomentIs
  <2>2. next = t \/ next = k.ts_flush
    OBVIOUS
  <2>3. next # t
    BY <1>3, <1>5
  <2>4. wait = Off(k.ts_flush) - Off(t)
    BY <1>2, <1>6, <2>2, <2>3, MomentsApart
  <2> HIDE DEF wait
  <2> QED BY <1>2, <1>5, <2>1, <2>4
<1>8. resends \subseteq Nat
  <2> SUFFICES ASSUME NEW sn \in D PROVE Diff(k.snd_buf[sn].resendts, t) \in Nat
    OBVIOUS
  <2>1. k.snd_buf[sn].resendts \in Time
    BY BlockIs DEF Segment
  <2> DEFINE u == k.snd_buf[sn].resendts
             r == Diff(u, t)
  <2>2. ~ (r <= 0)
    BY <1>5
  <2>3. u \in Time
    BY <2>1
  <2> HIDE DEF u
  <2>4. r \in Int
    BY <1>2, <2>3, DiffIs
  <2> HIDE DEF r
  <2>5. r \in Nat
    BY <2>2, <2>4
  <2> QED BY <2>5 DEF r, u
<1>9. Interval \in Nat /\ Interval <= Far /\ Far \in Nat
  BY ConfigIs, FarIs
<1> HIDE DEF wait, resends
<1>10. T \subseteq Nat /\ T # {} /\ wait \in T /\ Interval \in T
  BY <1>7, <1>8, <1>9
<1>11. w \in Nat /\ w <= wait /\ w <= Interval
  <2> HIDE DEF T
  <2> QED BY <1>10, MinIs
<1> HIDE DEF w
<1> DEFINE e == m + w
<1>12. e \in Nat /\ e <= m + Far /\ e - m = w /\ w <= Far
  BY <1>2, <1>9, <1>11
<1>13. Plus(t, w) = Plus(use.start, e)
  BY <1>2, <1>11, <1>12, TimerFrom
<1> HIDE DEF e
<1>14. Diff(Plus(use.start, e), Plus(use.start, m)) = e - m
  BY <1>2, <1>12, MomentsDiffer
<1>15. Diff(now1, t) = w
  BY <1>5, <1>12, <1>13, <1>14
<1> HIDE DEF now1
<1>16. d <= w
  BY <1>15 DEF now1
<1>17. d <= wait
  BY <1>7, <1>11, <1>16
<1> QED BY <1>5, <1>7, <1>17

\* Time does not pass a deadline: the driver wakes up before.
LEMMA AdvancePrompt ==
    ASSUME IInv, NEW d \in use.steps, Advance(d), Driven, Wakes, Prompt(kcp, time)
    PROVE  Prompt(kcp, time + d)
<1> DEFINE m == time
           m1 == m + d
           now1 == Plus(now, d)
           c == Off(kcp.current)
           fl == Off(kcp.ts_flush)
           I == Interval
<1>1. /\ use \in Uses /\ m \in 0..MaxTime /\ now = Plus(use.start, m)
      /\ kcp \in ControlBlock /\ Timed(kcp, m)
  BY DEF IInv, TypeOK, Ready
<1>2. /\ m + d <= use.lasts
      /\ use.driver = "recv" =>
             IF kcp.updated THEN Diff(now1, kcp.current) <= I ELSE m + d <= I
      /\ use.driver = "check" => \/ d <= Diff(Check(kcp, now), now)
                                 \/ d = Min(use.steps) /\ kcp.current = now
  BY DEF Advance
<1>3. /\ d \in Nat /\ d > 0 /\ m \in Nat /\ m1 \in Nat /\ m1 \in 0..MaxTime /\ I \in Nat
      /\ m <= MaxTime /\ d <= MaxTime /\ MaxTime \in Nat /\ MaxTime <= Far /\ d <= Far
  <2>1. d \in 1..MaxTime /\ use.lasts \in 0..MaxTime /\ I \in Nat
    BY <1>1, ConfigIs
  <2> QED BY <1>1, <1>2, <2>1, FarIs
<1>4. use.driver = "recv" \/ use.driver = "check"
  <2>1. use \in Use
    BY <1>1, SenderAssumption
  <2>2. use.driver \in {"recv", "check", "idle"}
    BY <2>1 DEF Use
  <2> QED BY <2>2 DEF Driven
<1>5. Moment(now) /\ Off(now) = m
  BY <1>1, NowIs
<1>6. use.driver = "check" => Min(use.steps) <= I
  BY DEF Wakes
<1>7. CASE kcp.updated
  <2>1. c \in Nat /\ fl \in Nat /\ fl <= c + I /\ Moment(kcp.current)
    BY <1>1, <1>7, TimedIs
  <2>2. CASE use.driver = "recv"
    <3>1. now1 = Plus(use.start, m1)
      BY <1>1, <1>3, TimerFrom
    <3> HIDE DEF m1, now1
    <3>2. Moment(now1) /\ Off(now1) = m1
      BY <1>1, <1>3, <3>1, NowIs
    <3>3. Diff(now1, kcp.current) = m1 - c
      BY <1>1, <2>1, <3>2, MomentsApart
    <3>4. m1 <= c + I
      BY <1>2, <1>3, <1>7, <2>1, <2>2, <3>3
    <3> QED BY <1>7, <3>4 DEF Prompt, m1
  <2>3. CASE use.driver = "check"
    <3>1. CASE d <= Diff(Check(kcp, now), now)
      <4>1. d <= fl - m
        BY <1>1, <1>3, <3>1, CheckIs
      <4> HIDE DEF fl, c, I
      <4>2. m1 <= c + I
        BY <1>3, <2>1, <4>1
      <4> QED BY <1>7, <4>2 DEF Prompt, c, I
    <3>2. CASE d = Min(use.steps) /\ kcp.current = now
      <4>1. d <= I /\ c = m
        BY <1>5, <1>6, <2>3, <3>2
      <4> HIDE DEF fl, c, I
      <4>2. m1 <= c + I
        BY <1>3, <4>1
      <4> QED BY <1>7, <4>2 DEF Prompt, c, I
    <3> QED BY <1>2, <2>3, <3>1, <3>2
  <2> QED BY <1>4, <2>2, <2>3
<1>8. CASE ~kcp.updated
  <2>1. m <= I /\ kcp.current = 0 /\ (use.driver = "check" /\ Plus(use.start, m) = 0 => m = 0)
    BY <1>8 DEF Prompt
  <2>2. CASE use.driver = "recv"
    <3>1. m1 <= I /\ use.driver # "check"
      BY <1>2, <1>8, <2>2
    <3> QED BY <1>8, <2>1, <3>1 DEF Prompt
  <2>3. CASE use.driver = "check"
    <3>1. ~ (d <= Diff(Check(kcp, now), now))
      BY <1>1, <1>3, <1>8, CheckIs
    <3>2. d = Min(use.steps) /\ now = 0
      BY <1>2, <2>1, <2>3, <3>1
    <3>3. m = 0 /\ d <= I
      BY <1>1, <1>6, <2>1, <2>3, <3>2
    <3>4. m1 <= I
      BY <1>3, <3>3
    <3>5. Plus(use.start, m1) # 0
      <4>1. now1 = Plus(use.start, m1)
        BY <1>1, <1>3, TimerFrom
      <4> DEFINE z == now
      <4>2. z = 0 /\ z \in Time /\ d < Clock
        BY <1>1, <1>3, <3>2, FarIs, MomentIs, <1>5
      <4> HIDE DEF z
      <4>3. Plus(z, d) = IF z + d < Clock THEN z + d ELSE z + d - Clock
        BY <1>3, <4>2, PlusIs
      <4>4. Plus(z, d) = d
        BY <1>3, <4>2, <4>3
      <4> QED BY <1>3, <4>1, <4>4 DEF z
    <3> QED BY <1>8, <2>1, <3>4, <3>5 DEF Prompt
  <2> QED BY <1>4, <2>2, <2>3
<1> QED BY <1>7, <1>8

LEMMA AdvanceMeets ==
    ASSUME DInv, NEW d \in use.steps, Advance(d)
    PROVE  DInv'
<1> DEFINE m == time
           m1 == time'
           p == probedAt
           b == blockedAt
           b1 == blockedAt'
<1>1. /\ IInv /\ use \in Uses /\ m \in 0..MaxTime /\ now = Plus(use.start, m)
      /\ kcp \in ControlBlock /\ Timed(kcp, m)
      /\ Deadlines(kcp, sentAt, p, b, m)
  BY DEF DInv, IInv, TypeOK, Ready
<1>2. IInv'
  BY <1>1, AdvanceKeeps
<1>3. /\ m1 = m + d /\ now' = Plus(now, d) /\ use' = use
      /\ kcp' = kcp /\ sentAt' = sentAt /\ probedAt' = p /\ NoteBlocked
  BY DEF Advance
<1>4. m1 \in 0..MaxTime /\ m <= m1 /\ now' = Plus(use.start, m1) /\ m \in Nat /\ m1 \in Nat
  <2>1. m1 \in 0..MaxTime /\ now' = Plus(use'.start, m1)
    BY <1>2 DEF IInv, TypeOK
  <2>2. d \in 1..MaxTime
    BY <1>1, ConfigIs
  <2> QED BY <1>1, <1>3, <2>1, <2>2
<1> DEFINE now1 == now'
<1>5. now1 = Plus(use.start, m1) /\ (b1 = b \/ b1 = now1)
  BY <1>3, <1>4 DEF NoteBlocked
<1>6. Driven /\ Wakes => Prompt(kcp, m) /\ Probed(kcp, p, m) /\ Queued(kcp, b, m)
  BY <1>1 DEF Deadlines
<1>7. Driven /\ Wakes => Prompt(kcp, m1)
  BY <1>1, <1>3, <1>6, AdvancePrompt
<1> HIDE DEF m1, now1, b1
<1>8. Aloft(kcp, sentAt, m1) /\ Watched(kcp)
  <2>1. Aloft(kcp, sentAt, m) /\ Watched(kcp) /\ m1 \in 0..MaxTime /\ m <= m1
    BY <1>1, <1>4 DEF Deadlines
  <2> QED BY <1>1, <2>1, AloftLater
<1>9. \A t : Within(t, m) => Within(t, m1)
  BY <1>4, TimePasses
<1>10. Probed(kcp, p, m) => Probed(kcp, p, m1)
  BY <1>9 DEF Probed, Armed
<1>11. Queued(kcp, b, m) => Queued(kcp, b1, m1)
  <2> SUFFICES ASSUME Queued(kcp, b, m) PROVE Queued(kcp, b1, m1)
    OBVIOUS
  <2>1. Off(now1) = m1 /\ Within(now1, m1)
    BY <1>1, <1>4, <1>5, NowIs
  <2>2. Within(b, m1) /\ Whole(kcp)
    BY <1>9 DEF Queued
  <2>3. Within(b1, m1)
    BY <1>5, <2>1, <2>2
  <2>4. ASSUME kcp.updated PROVE kcp.cwnd >= 1 /\ Off(kcp.ts_flush) <= Off(b1) + 2 * Interval
    <3> DEFINE c == Off(kcp.current)
               fl == Off(kcp.ts_flush)
               I == Interval
    <3>1. kcp.cwnd >= 1 /\ fl <= Off(b) + 2 * I
      BY <2>4 DEF Queued
    <3>2. c \in Nat /\ c <= m /\ fl \in Nat /\ fl <= c + I /\ I \in Nat
      BY <1>1, <2>4, TimedIs, ConfigIs
    <3> HIDE DEF c, fl, I, b, m
    <3>3. fl <= Off(b1) + 2 * I
      <4>1. CASE b1 = b
        BY <3>1, <4>1
      <4>2. CASE b1 = now1
        BY <1>4, <2>1, <3>2, <4>2
      <4> QED BY <1>5, <4>1, <4>2
    <3> QED BY <3>1, <3>3 DEF fl, I
  <2> QED BY <2>2, <2>3, <2>4 DEF Queued
<1>12. Deadlines(kcp, sentAt, p, b1, m1)
  BY <1>6, <1>7, <1>8, <1>10, <1>11 DEF Deadlines
<1>13. Deadlines(kcp, sentAt, probedAt, blockedAt, time)'
  <2>1. use' = use /\ kcp = kcp' /\ sentAt = sentAt' /\ p = probedAt' /\ b1 = blockedAt' /\ m1 = time'
    BY <1>3 DEF b1, m1
  <2> HIDE DEF p
  <2> QED BY <1>12, <2>1, DeadlinesPrimed
<1> QED BY <1>2, <1>13 DEF DInv

\* A new session meets them: nothing is in flight, and the first update comes.
LEMMA DeadlinesStart ==
    ASSUME Init
    PROVE  DInv
<1>1. IInv
  BY Starts
<1>2. /\ use \in Uses /\ now = use.start /\ kcp = Created /\ time = 0
      /\ probedAt = use.start /\ blockedAt = use.start
  BY DEF Init
<1>3. /\ DOMAIN kcp.snd_buf = {} /\ kcp.snd_una = kcp.snd_nxt
      /\ kcp.updated = FALSE /\ kcp.current = 0 /\ kcp.probe_wait = 0
  BY <1>2 DEF Created
<1>4. time \in 0..MaxTime /\ now = Plus(use.start, time)
  BY <1>1 DEF IInv, TypeOK
<1>5. Within(now, time)
  BY <1>2, <1>4, NowIs
<1>6. Aloft(kcp, sentAt, time) /\ Watched(kcp)
  BY <1>3 DEF Aloft, Watched
<1>7. Prompt(kcp, time)
  <2>1. time <= Interval
    BY <1>2, ConfigIs
  <2> QED BY <1>2, <1>3, <2>1 DEF Prompt
<1>8. Probed(kcp, probedAt, time)
  BY <1>2, <1>3, <1>5 DEF Probed, Armed
<1>9. Queued(kcp, blockedAt, time)
  BY <1>2, <1>3, <1>5 DEF Queued, Whole
<1> QED BY <1>1, <1>6, <1>7, <1>8, <1>9 DEF DInv, Deadlines

LEMMA DeadlinesKept ==
    ASSUME DInv, [Next]_vars
    PROVE  DInv'
<1>1. CASE \E d \in use.steps : Advance(d)
  BY <1>1, AdvanceMeets
<1>2. CASE Write
  BY <1>2, WriteMeets
<1>3. CASE Tick
  BY <1>3, TickMeets
<1>4. CASE ArriveAcks
  <2>1. PICK n \in 1..MaxAcks : \E answers \in [1..n -> net] :
            \E una \in 0..MaxWrites, wnd \in use.windows : Arrive(answers, una, wnd)
    BY <1>4 DEF ArriveAcks
  <2>2. n \in Nat
    OBVIOUS
  <2> QED BY <2>1, <2>2, ArriveMeets
<1>5. CASE ArriveWins
  <2> DEFINE answers == <<>>
             n == 0
  <2>1. PICK una \in 0..MaxWrites, wnd \in use.windows : Arrive(answers, una, wnd)
    BY <1>5 DEF ArriveWins
  <2>2. n \in Nat /\ answers \in [1..n -> net]
    OBVIOUS
  <2> HIDE DEF answers, n
  <2> QED BY <2>1, <2>2, ArriveMeets
<1>6. CASE UNCHANGED vars
  <2>1. /\ use' = use /\ kcp' = kcp /\ time' = time /\ sentAt' = sentAt
        /\ probedAt' = probedAt /\ blockedAt' = blockedAt
    BY <1>6 DEF vars, history
  <2>2. IInv /\ Deadlines(kcp, sentAt, probedAt, blockedAt, time)
    BY DEF DInv
  <2>3. Deadlines(kcp, sentAt, probedAt, blockedAt, time)'
    BY <2>1, <2>2, DeadlinesPrimed
  <2>4. IInv'
    BY <2>2, NextKeeps
  <2> QED BY <2>3, <2>4 DEF DInv
<1> QED BY <1>1, <1>2, <1>3, <1>4, <1>5, <1>6 DEF Next

-----------------------------------------------------------------------------
(* The theorems *)

\* The engine's clock, its windows and its timers keep their types: no number
\* turns negative, whatever arrives when (ikcp_input, ikcp_flush, ikcp_update).
THEOREM SenderTypeCorrect == Spec => []TypeOK
<1>1. Init => IInv
  BY Starts
<1>2. IInv /\ [Next]_vars => IInv'
  BY NextKeeps
<1>3. IInv => TypeOK
  BY DEF IInv
<1> QED BY <1>1, <1>2, <1>3, PTL DEF Spec

\* At every interval and every start of the clock, and after a pause of any
\* length: the next flush is ahead of the last update, by an interval at most
\* (ikcp_update).
THEOREM FlushIsScheduled == Spec => []FlushScheduled
<1>1. Init => IInv
  BY Starts
<1>2. IInv /\ [Next]_vars => IInv'
  BY NextKeeps
<1>3. IInv => FlushScheduled
  <2> SUFFICES ASSUME IInv, kcp.updated PROVE Diff(kcp.ts_flush, kcp.current) \in 1..Interval
    BY DEF FlushScheduled
  <2>1. use \in Uses /\ time \in 0..MaxTime /\ Timed(kcp, time)
    BY DEF IInv, TypeOK, Ready
  <2>2. PICK a \in 0..time, b \in 1..Interval :
            kcp.current = Plus(use.start, a) /\ kcp.ts_flush = Plus(use.start, a + b)
    BY <2>1 DEF Timed
  <2> DEFINE c == a + b
  <2>3. a \in Nat /\ a <= MaxTime /\ c \in Nat /\ c <= a + Far /\ c - a = b
    BY <2>1, FarIs, ConfigIs
  <2>4. kcp.ts_flush = Plus(use.start, c)
    BY <2>2
  <2> HIDE DEF c
  <2>5. Diff(Plus(use.start, c), Plus(use.start, a)) = c - a
    BY <2>1, <2>3, MomentsDiffer
  <2> QED BY <2>2, <2>3, <2>4, <2>5
<1> QED BY <1>1, <1>2, <1>3, PTL DEF Spec

\* The estimate of the round trip is no longer than the longest one that was made,
\* however many ACKs were late, or answered another transmission (ikcp_update_ack).
THEOREM SamplesAreRoundTrips == Spec => []SampleIsRoundTrip
<1>1. Init => IInv
  BY Starts
<1>2. IInv /\ [Next]_vars => IInv'
  BY NextKeeps
<1>3. IInv => SampleIsRoundTrip
  BY DEF IInv
<1> QED BY <1>1, <1>2, <1>3, PTL DEF Spec

\* No fast retransmission without the datagrams that earn it, and none of these
\* counts twice (ikcp_parse_fastack, ikcp_flush).
THEOREM FastResendsAreEarned == Spec => []FastResendIsEarned
<1>1. Init => IInv
  BY Starts
<1>2. IInv /\ [Next]_vars => IInv'
  BY NextKeeps
<1>3. IInv => FastResendIsEarned
  BY DEF IInv, Ready, Earned, Need, FastResendIsEarned
<1> QED BY <1>1, <1>2, <1>3, PTL DEF Spec

\* Without flush_write a segment goes out again for its timer only when the
\* minimal timeout has passed since it last went out: for every clock, also over
\* its wrap, and whatever made the engine flush in between (ikcp_flush).
THEOREM TimersArePatient == Spec => NoEarlyResend
<1>1. Init => IInv
  BY Starts
<1>2. IInv /\ [Next]_vars => IInv'
  BY NextKeeps
<1>3. IInv /\ [Next]_vars => [~use.flushing => ~EarlyResend]_vars
  <2> SUFFICES ASSUME IInv, Next, ~use.flushing, EarlyResend PROVE FALSE
    OBVIOUS
  <2>1. PICK sn \in InFlight \cap InFlight' :
            /\ kcp.snd_buf[sn].xmit > 0
            /\ kcp'.snd_buf[sn].xmit > kcp.snd_buf[sn].xmit
            /\ fastResent'[sn] = fastResent[sn]
            /\ ~SentLongerThan(sn, Config.rx_minrto - 1)
    BY DEF EarlyResend
  <2>2. /\ use \in Uses /\ now \in Time /\ kcp \in ControlBlock /\ kcp' \in ControlBlock
        /\ time \in 0..MaxTime
    BY NextKeeps DEF IInv, TypeOK
  <2>3. /\ sn \in DOMAIN kcp.snd_buf /\ sn \in DOMAIN kcp'.snd_buf /\ sn \in Sn
        /\ kcp.snd_buf[sn].xmit \in Nat /\ kcp'.snd_buf[sn].xmit \in Nat
    <3>1. sn \in DOMAIN kcp.snd_buf /\ sn \in DOMAIN kcp'.snd_buf
      BY <2>1 DEF InFlight
    <3>2. sn \in Sn /\ kcp.snd_buf[sn] \in Segment
      BY <2>2, <3>1, BlockIs
    <3>3. kcp'.snd_buf[sn] \in Segment
      <4> DEFINE k1 == kcp'
      <4>1. k1 \in ControlBlock /\ sn \in DOMAIN k1.snd_buf
        BY <2>2, <3>1
      <4> HIDE DEF k1
      <4>2. k1.snd_buf[sn] \in Segment
        BY <4>1, BlockIs
      <4> QED BY <4>2 DEF k1
    <3> QED BY <3>1, <3>2, <3>3 DEF Segment
  <2>4. Diff(now, sentAt[sn]) >= Config.rx_minrto
    <3>1. Patient(kcp)
      BY PatientSteps
    <3>2. kcp'.snd_buf[sn].xmit > 1
      BY <2>1, <2>3
    <3> QED BY <2>1, <2>3, <3>1, <3>2 DEF Patient
  <2>5. Diff(now, sentAt[sn]) \in Int
    <3> DEFINE at == sentAt[sn]
    <3>1. Flying(kcp.snd_buf[sn], at, time)
      BY <2>3 DEF IInv, Ready, Airborne
    <3>2. PICK x \in 0..time : at = Plus(use.start, x)
      BY <3>1 DEF Flying
    <3>3. x \in Nat /\ x <= MaxTime /\ x <= x + Far
      BY <2>2, FarIs
    <3>4. Plus(use.start, x) \in Time
      BY <2>2, <3>3, MomentsDiffer
    <3>5. at \in Time
      BY <3>2, <3>4
    <3> HIDE DEF at
    <3>6. Diff(now, at) \in Int
      BY <2>2, <3>5, DiffIs
    <3> QED BY <3>6 DEF at
  <2>6. Config.rx_minrto \in {30, 100}
    BY <2>2, ConfigIs
  <2>7. Diff(now, sentAt[sn]) > Config.rx_minrto - 1
    BY <2>4, <2>5, <2>6
  <2> QED BY <2>1, <2>7 DEF SentLongerThan
<1> QED BY <1>1, <1>2, <1>3, PTL DEF Spec, NoEarlyResend

\* What is in flight goes out again within its timeout and two intervals, whatever
\* became of the other segments: for every configuration, also with flush_write,
\* and however late the driver is for the flush, up to an interval (ikcp_flush).
THEOREM ResendsAreInTime == Spec => [](Wakes => ResentInTime)
<1>1. Init => DInv
  BY DeadlinesStart
<1>2. DInv /\ [Next]_vars => DInv'
  BY DeadlinesKept
<1>3. DInv => (Wakes => ResentInTime)
  <2> SUFFICES ASSUME DInv, Wakes, Driven, NEW sn \in InFlight
               PROVE  LET rto == kcp.snd_buf[sn].rto
                      IN  ~SentLongerThan(sn, rto + Max({rto, kcp.rx_rto}) \div 8 + 2 * Interval)
    BY DEF ResentInTime
  <2> DEFINE seg == kcp.snd_buf[sn]
             rto == seg.rto
             rx == kcp.rx_rto
             most == Max({rto, rx})
             at == sentAt[sn]
             start == Off(seg.ts)
             rings == Rings(seg)
             c == Off(kcp.current)
             fl == Off(kcp.ts_flush)
             I == Interval
             m == time
  <2>1. /\ use \in Uses /\ m \in 0..MaxTime /\ now = Plus(use.start, m)
        /\ kcp \in ControlBlock /\ Timed(kcp, m) /\ sn \in DOMAIN kcp.snd_buf
    BY DEF DInv, IInv, TypeOK, Ready, InFlight
  <2>2. /\ kcp.updated /\ Flying(seg, seg.ts, c) /\ Within(at, m) /\ start <= Off(at)
        /\ fl <= rings + I /\ Prompt(kcp, m)
    BY <2>1 DEF DInv, Deadlines, Aloft, Watched
  <2>3. c \in 0..MaxTime /\ c \in Nat /\ fl \in Nat /\ c < fl /\ m <= c + I /\ I \in Nat
        /\ m \in Nat
    BY <2>1, <2>2, TimedIs, ConfigIs DEF Prompt
  <2>4. /\ seg \in Segment /\ rto \in Nat /\ rto \in Int /\ rx \in Int
    <3>1. rx \in 1..RtoMax /\ seg \in Segment
      BY <2>1, BlockIs
    <3> QED BY <3>1, FarIs DEF Segment
  <2>5. rings \in Nat /\ rings <= start + rto + rto \div 8 /\ start \in Nat
    <3> HIDE DEF c
    <3>1. /\ Rings(seg) \in Nat /\ Rings(seg) <= Off(seg.ts) + seg.rto + seg.rto \div 8
          /\ Off(seg.ts) \in 0..c
      BY <2>1, <2>2, <2>3, <2>4, FlyingIs
    <3> QED BY <2>3, <3>1
  <2>6. Off(at) \in Nat /\ Diff(now, at) = m - Off(at)
    <3>1. Moment(at) /\ Off(at) \in 0..m /\ Moment(now) /\ Off(now) = m
      BY <2>1, <2>2, WithinIs, NowIs
    <3>2. Diff(now, at) = Off(now) - Off(at)
      BY <2>1, <3>1, MomentsApart
    <3> QED BY <3>1, <3>2
  <2>7. most \in Nat /\ most >= rto
    <3> HIDE DEF rto, rx
    <3>1. most \in {rto, rx} /\ most >= rto
      BY <2>4, MaxOfTwo
    <3> QED BY <2>4, <3>1
  <2> HIDE DEF seg, rto, most, start, rings, c, fl, I, m
  <2>8. rto \div 8 <= most \div 8 /\ rto \div 8 \in Nat /\ most \div 8 \in Nat
    BY <2>4, <2>7
  <2> DEFINE eighth == rto \div 8
             more == most \div 8
             o == Off(at)
  <2>9. eighth <= more /\ eighth \in Nat /\ more \in Nat /\ rings <= start + rto + eighth
        /\ o \in Nat /\ start <= o
    BY <2>2, <2>5, <2>6, <2>8
  <2> HIDE DEF eighth, more, o
  <2>10. m - o < rto + more + 2 * I
    BY <2>2, <2>3, <2>4, <2>5, <2>9
  <2>11. ~ (Diff(now, at) > rto + more + 2 * I)
    BY <2>3, <2>4, <2>6, <2>9, <2>10 DEF o
  <2> QED BY <2>11 DEF SentLongerThan, seg, rto, most, more, I
<1> QED BY <1>1, <1>2, <1>3, PTL DEF Spec

\* A closed window is probed in time, again and again: no flush, no datagram and
\* no wrap of the clock loses its timer or starts it anew (ikcp_flush).
THEOREM ProbesAreInTime == Spec => [](Wakes => ProbedInTime)
<1>1. Init => DInv
  BY DeadlinesStart
<1>2. DInv /\ [Next]_vars => DInv'
  BY DeadlinesKept
<1>3. DInv => (Wakes => ProbedInTime)
  <2> SUFFICES ASSUME DInv, Wakes, Driven
               PROVE  Diff(now, probedAt) <= Max({ProbeInit, kcp.probe_wait}) + 5 * Interval
    BY DEF ProbedInTime
  <2> DEFINE p == probedAt
             wait == kcp.probe_wait
             first == ProbeInit
             most == Max({first, wait})
             c == Off(kcp.current)
             fl == Off(kcp.ts_flush)
             tp == Off(kcp.ts_probe)
             I == Interval
             m == time
  <2>1. /\ use \in Uses /\ m \in 0..MaxTime /\ m \in Nat /\ now = Plus(use.start, m)
        /\ kcp \in ControlBlock /\ Timed(kcp, m) /\ I \in Nat
    BY ConfigIs DEF DInv, IInv, TypeOK, Ready
  <2>2. Prompt(kcp, m) /\ Probed(kcp, p, m)
    BY DEF DInv, Deadlines
  <2>3. Off(p) \in Nat /\ Diff(now, p) = m - Off(p)
    <3>1. Moment(p) /\ Off(p) \in 0..m /\ Moment(now) /\ Off(now) = m
      BY <2>1, <2>2, WithinIs, NowIs DEF Probed, Armed
    <3>2. Diff(now, p) = Off(now) - Off(p)
      BY <2>1, <3>1, MomentsApart
    <3> QED BY <3>1, <3>2
  <2>4. most \in Int /\ most >= first /\ most >= wait /\ first \in Nat /\ wait \in Nat
    <3>1. first \in Nat /\ wait \in 0..ProbeLimit /\ ProbeLimit \in Nat
      BY <2>1, BlockIs, SenderAssumption
    <3>2. first \in Int /\ wait \in Int
      BY <3>1
    <3> HIDE DEF first, wait
    <3>3. most \in {first, wait} /\ most >= first /\ most >= wait
      BY <3>2, MaxOfTwo
    <3> QED BY <3>1, <3>2, <3>3
  <2>5. m <= Off(p) + wait + 4 * I
    <3>1. CASE ~kcp.updated
      <4>1. m <= I
        BY <2>2, <3>1 DEF Prompt
      <4> HIDE DEF p, wait, I, m
      <4> QED BY <2>1, <2>3, <2>4, <4>1
    <3>2. CASE kcp.updated
      <4>1. c \in Nat /\ fl \in Nat /\ c < fl /\ m <= c + I
        BY <2>1, <2>2, <3>2, TimedIs DEF Prompt
      <4>2. CASE wait = 0
        <5>1. fl <= Off(p) + I
          BY <2>2, <3>2, <4>2 DEF Probed
        <5> HIDE DEF p, wait, I, m, c, fl
        <5> QED BY <2>1, <2>3, <2>4, <4>1, <5>1
      <4>3. CASE wait # 0
        <5>1. fl <= tp + I /\ tp <= Off(p) + wait + 2 * I /\ Moment(kcp.ts_probe)
          BY <2>2, <3>2, <4>3 DEF Probed, Armed
        <5>2. tp \in Nat
          BY <2>1, <5>1, MomentIs
        <5> HIDE DEF p, wait, I, m, c, fl, tp
        <5> QED BY <2>1, <2>3, <2>4, <4>1, <5>1, <5>2
      <4> QED BY <4>2, <4>3
    <3> QED BY <3>1, <3>2
  <2> HIDE DEF p, wait, first, most, I, m
  <2>6. Diff(now, p) <= most + 5 * I
    BY <2>1, <2>3, <2>4, <2>5
  <2> QED BY <2>6 DEF p, most, first, wait, I
<1> QED BY <1>1, <1>2, <1>3, PTL DEF Spec

\* The congestion window never locks the sender out: what is queued waits for
\* something under way or for a closed window, else it goes out in three intervals
\* (ikcp_flush, ikcp_input).
THEOREM QueueGoesOutInTime == Spec => [](Wakes => QueuedGoesInTime)
<1>1. Init => DInv
  BY DeadlinesStart
<1>2. DInv /\ [Next]_vars => DInv'
  BY DeadlinesKept
<1>3. DInv => (Wakes => QueuedGoesInTime)
  <2> SUFFICES ASSUME DInv, Wakes, Driven PROVE Diff(now, blockedAt) <= 3 * Interval
    BY DEF QueuedGoesInTime
  <2> DEFINE b == blockedAt
             c == Off(kcp.current)
             fl == Off(kcp.ts_flush)
             I == Interval
             m == time
  <2>1. /\ use \in Uses /\ m \in 0..MaxTime /\ m \in Nat /\ now = Plus(use.start, m)
        /\ Timed(kcp, m) /\ I \in Nat
    BY ConfigIs DEF DInv, IInv, TypeOK, Ready
  <2>2. Prompt(kcp, m) /\ Queued(kcp, b, m)
    BY DEF DInv, Deadlines
  <2>3. Off(b) \in Nat /\ Diff(now, b) = m - Off(b)
    <3>1. Moment(b) /\ Off(b) \in 0..m /\ Moment(now) /\ Off(now) = m
      BY <2>1, <2>2, WithinIs, NowIs DEF Queued
    <3>2. Diff(now, b) = Off(now) - Off(b)
      BY <2>1, <3>1, MomentsApart
    <3> QED BY <3>1, <3>2
  <2>4. m <= Off(b) + 3 * I
    <3>1. CASE ~kcp.updated
      <4>1. m <= I
        BY <2>2, <3>1 DEF Prompt
      <4> HIDE DEF b, I, m
      <4> QED BY <2>1, <2>3, <4>1
    <3>2. CASE kcp.updated
      <4>1. c \in Nat /\ fl \in Nat /\ c < fl /\ m <= c + I
        BY <2>1, <2>2, <3>2, TimedIs DEF Prompt
      <4>2. fl <= Off(b) + 2 * I
        BY <2>2, <3>2 DEF Queued
      <4> HIDE DEF b, I, m, c, fl
      <4> QED BY <2>1, <2>3, <4>1, <4>2
    <3> QED BY <3>1, <3>2
  <2> HIDE DEF b, I, m
  <2>5. Diff(now, b) <= 3 * I
    BY <2>1, <2>3, <2>4
  <2> QED BY <2>5 DEF b, I
<1> QED BY <1>1, <1>2, <1>3, PTL DEF Spec
=============================================================================
