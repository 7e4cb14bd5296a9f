--------------------------- MODULE KcpArq_proofs ---------------------------
(***************************************************************************)
(* Proofs about KcpArq for all windows, limits and payloads: its types,    *)
(* its safety invariants, and that it implements KcpChannel.               *)
(*                                                                         *)
(* The inductive invariant IInv says, for each peer s and what it sends:   *)
(*  SendInv     how snd_una, snd_nxt, snd_buf, snd_queue and the history   *)
(*              of s fit together;                                         *)
(*  DataInv     that every copy of a segment, in a buffer, a queue or a    *)
(*              datagram, is the element of the history its sn names, and  *)
(*              how far the receiver has come;                             *)
(*  AckInv      that every acknowledgement, waiting or on its way, is true *)
(*              of the receiver;                                           *)
(*  MessageInv  that messages are whole: what follows the last fragment of *)
(*              one is the first of another.                               *)
(***************************************************************************)
EXTENDS KcpArq, SequenceTheorems, TLAPS

LEMMA OtherPeer ==
    ASSUME NEW p \in Peer
    PROVE  Other(p) \in Peer /\ Other(p) # p /\ Other(Other(p)) = p
BY DEF Other, Peer

LEMMA FragmentsAreSegments ==
    ASSUME NEW d \in Data, NEW n \in Nat
    PROVE  /\ Fragments(d, n) \in Seq(Segment)
           /\ Len(Fragments(d, n)) = n
           /\ \A i \in 1..n : Fragments(d, n)[i] = [frg |-> n - i, data |-> d]
BY DEF Fragments, Segment

LEMMA ConcatElements ==
    ASSUME NEW s \in Seq(Segment), NEW t \in Seq(Segment)
    PROVE  /\ s \o t \in Seq(Segment)
           /\ Len(s \o t) = Len(s) + Len(t)
           /\ \A i \in 1..Len(s) : (s \o t)[i] = s[i]
           /\ \A i \in 1..Len(t) : (s \o t)[Len(s) + i] = t[i]
OBVIOUS

LEMMA TakeElements ==
    ASSUME NEW buf, NEW nxt \in Nat, NEW k \in Nat,
           DOMAIN buf \subseteq Nat, buf \in [DOMAIN buf -> Segment],
           \A i \in 0..(k - 1) : nxt + i \in DOMAIN buf
    PROVE  /\ Take(buf, nxt, k) \in Seq(Segment)
           /\ Len(Take(buf, nxt, k)) = k
           /\ \A i \in 1..k : Take(buf, nxt, k)[i] = buf[nxt + i - 1]
<1>1. ASSUME NEW i \in 1..k PROVE buf[nxt + i - 1] \in Segment
  <2>1. i - 1 \in 0..(k - 1) OBVIOUS
  <2>2. nxt + (i - 1) \in DOMAIN buf BY <2>1
  <2>3. nxt + (i - 1) = nxt + i - 1 OBVIOUS
  <2> QED BY <2>2, <2>3
<1> QED BY <1>1 DEF Take

-----------------------------------------------------------------------------
(* What each step does, element by element. *)

\* rcv_queue, rcv_buf and rcv_nxt of p after k segments of buf went to queue.
Moved(p, queue, buf, k) ==
    /\ \A i \in 0..(k - 1) : rcv_nxt[p] + i \in DOMAIN buf
    /\ k = 0 \/ Len(queue) + k <= RcvWnd[p]
    /\ rcv_nxt[p] + k \notin DOMAIN buf \/ Len(queue) + k >= RcvWnd[p]
    /\ rcv_nxt' = [rcv_nxt EXCEPT ![p] = @ + k]
    /\ rcv_queue' \in [Peer -> Seq(Segment)]
    /\ \A q \in Peer \ {p} : rcv_queue'[q] = rcv_queue[q]
    /\ Len(rcv_queue'[p]) = Len(queue) + k
    /\ \A i \in 1..Len(queue) : rcv_queue'[p][i] = queue[i]
    /\ \A i \in 1..k : rcv_queue'[p][Len(queue) + i] = buf[rcv_nxt[p] + i - 1]
    /\ DOMAIN rcv_buf' = Peer
    /\ \A q \in Peer \ {p} : rcv_buf'[q] = rcv_buf[q]
    /\ DOMAIN rcv_buf'[p] = {sn \in DOMAIN buf : sn \notin rcv_nxt[p]..(rcv_nxt[p] + k - 1)}
    /\ rcv_buf'[p] \in [DOMAIN rcv_buf'[p] -> Segment]
    /\ \A sn \in DOMAIN rcv_buf'[p] : rcv_buf'[p][sn] = buf[sn]

LEMMA MoveEffect ==
    ASSUME TypeOK, NEW p \in Peer, NEW queue \in Seq(Segment), NEW buf,
           DOMAIN buf \subseteq Nat, buf \in [DOMAIN buf -> Segment],
           MoveToQueue(p, queue, buf)
    PROVE  \E k \in Nat : Moved(p, queue, buf, k)
<1>1. PICK k \in 0..Cardinality(DOMAIN buf) :
        /\ Movable(p, queue, buf, rcv_nxt[p], k)
        /\ rcv_queue' = [rcv_queue EXCEPT ![p] = queue \o Take(buf, rcv_nxt[p], k)]
        /\ rcv_buf' = [rcv_buf EXCEPT
              ![p] = Restrict(buf, DOMAIN buf \ (rcv_nxt[p]..(rcv_nxt[p] + k - 1)))]
        /\ rcv_nxt' = [rcv_nxt EXCEPT ![p] = @ + k]
  BY DEF MoveToQueue
<1>2. k \in Nat OBVIOUS
<1>3. rcv_nxt[p] \in Nat BY DEF TypeOK
<1> DEFINE taken == Take(buf, rcv_nxt[p], k)
<1>4. /\ \A i \in 0..(k - 1) : rcv_nxt[p] + i \in DOMAIN buf
      /\ k = 0 \/ Len(queue) + k <= RcvWnd[p]
      /\ rcv_nxt[p] + k \notin DOMAIN buf \/ Len(queue) + k >= RcvWnd[p]
  BY <1>1 DEF Movable
<1>5. /\ taken \in Seq(Segment)
      /\ Len(taken) = k
      /\ \A i \in 1..k : taken[i] = buf[rcv_nxt[p] + i - 1]
  BY <1>2, <1>3, <1>4, TakeElements
<1> HIDE DEF taken
<1>6. /\ queue \o taken \in Seq(Segment)
      /\ Len(queue \o taken) = Len(queue) + k
      /\ \A i \in 1..Len(queue) : (queue \o taken)[i] = queue[i]
      /\ \A i \in 1..k : (queue \o taken)[Len(queue) + i] = taken[i]
  <2>1. /\ queue \o taken \in Seq(Segment)
        /\ Len(queue \o taken) = Len(queue) + Len(taken)
        /\ \A i \in 1..Len(queue) : (queue \o taken)[i] = queue[i]
        /\ \A i \in 1..Len(taken) : (queue \o taken)[Len(queue) + i] = taken[i]
    BY <1>5, ConcatElements
  <2> QED BY <1>5, <2>1
<1>7. rcv_queue' = [rcv_queue EXCEPT ![p] = queue \o taken]
  BY <1>1 DEF taken
<1>8. /\ rcv_queue' \in [Peer -> Seq(Segment)]
      /\ rcv_queue'[p] = queue \o taken
      /\ \A q \in Peer \ {p} : rcv_queue'[q] = rcv_queue[q]
  BY <1>6, <1>7 DEF TypeOK
<1>9. /\ DOMAIN rcv_buf' = Peer
      /\ \A q \in Peer \ {p} : rcv_buf'[q] = rcv_buf[q]
      /\ rcv_buf'[p] = Restrict(buf, DOMAIN buf \ (rcv_nxt[p]..(rcv_nxt[p] + k - 1)))
  BY <1>1 DEF TypeOK
<1>10. /\ DOMAIN rcv_buf'[p] = {sn \in DOMAIN buf : sn \notin rcv_nxt[p]..(rcv_nxt[p] + k - 1)}
       /\ rcv_buf'[p] \in [DOMAIN rcv_buf'[p] -> Segment]
       /\ \A sn \in DOMAIN rcv_buf'[p] : rcv_buf'[p][sn] = buf[sn]
  BY <1>9 DEF Restrict
<1>11. /\ Len(rcv_queue'[p]) = Len(queue) + k
       /\ \A i \in 1..Len(queue) : rcv_queue'[p][i] = queue[i]
       /\ \A i \in 1..k : rcv_queue'[p][Len(queue) + i] = buf[rcv_nxt[p] + i - 1]
  BY <1>5, <1>6, <1>8
<1>12. Moved(p, queue, buf, k)
  BY <1>1, <1>4, <1>8, <1>9, <1>10, <1>11, Zenon DEF Moved
<1> QED BY <1>2, <1>12

LEMMA MovedTypes ==
    ASSUME TypeOK, NEW p \in Peer, NEW queue, NEW buf, NEW k \in Nat,
           DOMAIN buf \subseteq Nat, Moved(p, queue, buf, k)
    PROVE  /\ rcv_queue' \in [Peer -> Seq(Segment)]
           /\ rcv_nxt' \in [Peer -> Nat]
           /\ DOMAIN rcv_buf' = Peer
           /\ \A q \in Peer : /\ DOMAIN rcv_buf'[q] \subseteq Nat
                              /\ rcv_buf'[q] \in [DOMAIN rcv_buf'[q] -> Segment]
<1>1. rcv_queue' \in [Peer -> Seq(Segment)] /\ DOMAIN rcv_buf' = Peer
  BY DEF Moved
<1>2. rcv_nxt' = [rcv_nxt EXCEPT ![p] = @ + k]
  BY DEF Moved
<1>3. rcv_nxt' \in [Peer -> Nat]
  BY <1>2 DEF TypeOK
<1>4. ASSUME NEW q \in Peer
      PROVE  /\ DOMAIN rcv_buf'[q] \subseteq Nat
             /\ rcv_buf'[q] \in [DOMAIN rcv_buf'[q] -> Segment]
  <2>1. CASE q = p
    <3>1. /\ DOMAIN rcv_buf'[p] \subseteq DOMAIN buf
          /\ rcv_buf'[p] \in [DOMAIN rcv_buf'[p] -> Segment]
      BY Zenon DEF Moved
    <3> QED BY <2>1, <3>1
  <2>2. CASE q # p
    <3>1. rcv_buf'[q] = rcv_buf[q]
      BY <2>2, Zenon DEF Moved
    <3> QED BY <3>1 DEF TypeOK
  <2> QED BY <2>1, <2>2
<1> QED BY <1>1, <1>3, <1>4

\* The queues of a peer are sequences of segments.
LEMMA Sequences ==
    ASSUME TypeOK, NEW p \in Peer
    PROVE  /\ snd_queue[p] \in Seq(Segment) /\ Len(snd_queue[p]) \in Nat
           /\ rcv_queue[p] \in Seq(Segment) /\ Len(rcv_queue[p]) \in Nat
           /\ sent[p] \in Seq(Segment) /\ Len(sent[p]) \in Nat
           /\ delivered[p] \in Seq(Segment) /\ Len(delivered[p]) \in Nat
           /\ snd_nxt[p] \in Nat
<1>1. snd_queue[p] \in Seq(Segment) /\ rcv_queue[p] \in Seq(Segment)
  BY DEF TypeOK
<1>2. sent[p] \in Seq(Segment) /\ delivered[p] \in Seq(Segment) /\ snd_nxt[p] \in Nat
  BY DEF TypeOK
<1> QED BY <1>1, <1>2, LenProperties

\* A send of p appended the n fragments of a message d.
Appended(p, d, n) ==
    /\ SendAccepts(n)
    /\ n >= 1
    /\ sent' = [sent EXCEPT ![p] = @ \o Fragments(d, n)]
    /\ snd_queue' \in [Peer -> Seq(Segment)]
    /\ sent' \in [Peer -> Seq(Segment)]
    /\ \A q \in Peer \ {p} : snd_queue'[q] = snd_queue[q] /\ sent'[q] = sent[q]
    /\ Len(snd_queue'[p]) = Len(snd_queue[p]) + n
    /\ Len(sent'[p]) = Len(sent[p]) + n
    /\ \A i \in 1..Len(snd_queue[p]) : snd_queue'[p][i] = snd_queue[p][i]
    /\ \A i \in 1..Len(sent[p]) : sent'[p][i] = sent[p][i]
    /\ \A i \in 1..n : snd_queue'[p][Len(snd_queue[p]) + i] = [frg |-> n - i, data |-> d]
    /\ \A i \in 1..n : sent'[p][Len(sent[p]) + i] = [frg |-> n - i, data |-> d]

LEMMA SendEffect ==
    ASSUME TypeOK, NEW p \in Peer, Send(p)
    PROVE  \E d \in Data, n \in Nat : Appended(p, d, n)
<1>1. PICK d \in Data, n \in 1..MaxSent[p] :
        /\ SendAccepts(n)
        /\ snd_queue' = [snd_queue EXCEPT ![p] = @ \o Fragments(d, n)]
        /\ sent' = [sent EXCEPT ![p] = @ \o Fragments(d, n)]
  BY DEF Send
<1>2. n \in Nat /\ n >= 1 OBVIOUS
<1> DEFINE frags == Fragments(d, n)
<1>3. /\ frags \in Seq(Segment)
      /\ Len(frags) = n
      /\ \A i \in 1..n : frags[i] = [frg |-> n - i, data |-> d]
  BY <1>2, FragmentsAreSegments
<1> HIDE DEF frags
<1>4. ASSUME NEW s \in Seq(Segment)
      PROVE  /\ s \o frags \in Seq(Segment)
             /\ Len(s \o frags) = Len(s) + n
             /\ \A i \in 1..Len(s) : (s \o frags)[i] = s[i]
             /\ \A i \in 1..n : (s \o frags)[Len(s) + i] = [frg |-> n - i, data |-> d]
  <2>1. \A i \in 1..Len(frags) : (s \o frags)[Len(s) + i] = frags[i]
    BY <1>3, ConcatElements
  <2>2. \A i \in 1..n : (s \o frags)[Len(s) + i] = [frg |-> n - i, data |-> d]
    BY <1>3, <2>1
  <2> QED BY <1>3, <2>2, ConcatElements
<1>5. /\ snd_queue[p] \in Seq(Segment)
      /\ sent[p] \in Seq(Segment)
  BY DEF TypeOK
<1>6. /\ snd_queue' \in [Peer -> Seq(Segment)]
      /\ \A q \in Peer \ {p} : snd_queue'[q] = snd_queue[q]
      /\ snd_queue'[p] = snd_queue[p] \o frags
  BY <1>1, <1>4, <1>5 DEF TypeOK, frags
<1>7. /\ sent' \in [Peer -> Seq(Segment)]
      /\ \A q \in Peer \ {p} : sent'[q] = sent[q]
      /\ sent'[p] = sent[p] \o frags
  BY <1>1, <1>4, <1>5 DEF TypeOK, frags
<1>8. Appended(p, d, n)
  <2>1. /\ Len(snd_queue'[p]) = Len(snd_queue[p]) + n
        /\ \A i \in 1..Len(snd_queue[p]) : snd_queue'[p][i] = snd_queue[p][i]
        /\ \A i \in 1..n : snd_queue'[p][Len(snd_queue[p]) + i] = [frg |-> n - i, data |-> d]
    <3> DEFINE s == snd_queue[p]
    <3>1. s \in Seq(Segment)
      BY <1>5
    <3> HIDE DEF s
    <3>2. /\ Len(s \o frags) = Len(s) + n
          /\ \A i \in 1..Len(s) : (s \o frags)[i] = s[i]
          /\ \A i \in 1..n : (s \o frags)[Len(s) + i] = [frg |-> n - i, data |-> d]
      BY <1>4, <3>1
    <3> QED BY <1>6, <3>2 DEF s
  <2>2. /\ Len(sent'[p]) = Len(sent[p]) + n
        /\ \A i \in 1..Len(sent[p]) : sent'[p][i] = sent[p][i]
        /\ \A i \in 1..n : sent'[p][Len(sent[p]) + i] = [frg |-> n - i, data |-> d]
    <3> DEFINE s == sent[p]
    <3>1. s \in Seq(Segment)
      BY <1>5
    <3> HIDE DEF s
    <3>2. /\ Len(s \o frags) = Len(s) + n
          /\ \A i \in 1..Len(s) : (s \o frags)[i] = s[i]
          /\ \A i \in 1..n : (s \o frags)[Len(s) + i] = [frg |-> n - i, data |-> d]
      BY <1>4, <3>1
    <3> QED BY <1>7, <3>2 DEF s
  <2> QED BY <1>1, <1>2, <1>6, <1>7, <2>1, <2>2 DEF Appended
<1> QED BY <1>2, <1>8

LEMMA WndFieldIsNat ==
    ASSUME TypeOK, NEW p \in Peer
    PROVE  WndField(p) \in Nat
<1>1. WndUnused(p) \in Nat
  BY ArqAssumption DEF WndUnused, TypeOK
<1> QED BY <1>1, ArqAssumption DEF WndField

LEMMA FitBounds ==
    ASSUME TypeOK, NEW p \in Peer, NEW w \in Window(p)
    PROVE  /\ Fit(p, w) \in Nat
           /\ Fit(p, w) <= Len(snd_queue[p])
           /\ Fit(p, w) = 0 \/ snd_nxt[p] + Fit(p, w) <= snd_una[p] + SndWnd[p]
<1>1. /\ Len(snd_queue[p]) \in Nat
      /\ snd_nxt[p] \in Nat
      /\ snd_una[p] \in Nat
      /\ rmt_wnd[p] \in Nat
      /\ SndWnd[p] \in Nat
  BY ArqAssumption DEF TypeOK
<1>2. w \in Nat /\ w <= SndWnd[p]
  BY <1>1 DEF Window, Lesser
<1>3. CASE snd_una[p] + w - snd_nxt[p] <= 0
  <2>1. Fit(p, w) = 0
    BY <1>3 DEF Fit
  <2> QED BY <1>1, <2>1
<1>4. CASE snd_una[p] + w - snd_nxt[p] > 0
  <2> DEFINE room == snd_una[p] + w - snd_nxt[p]
  <2>1. room \in Nat /\ room <= snd_una[p] + SndWnd[p] - snd_nxt[p] /\ ~(room <= 0)
    BY <1>1, <1>2, <1>4
  <2>2. Fit(p, w) = Lesser(Len(snd_queue[p]), room)
    BY <2>1 DEF Fit
  <2> HIDE DEF room
  <2>3. /\ Fit(p, w) \in Nat
        /\ Fit(p, w) <= Len(snd_queue[p])
        /\ Fit(p, w) <= room
    BY <1>1, <2>1, <2>2 DEF Lesser
  <2> QED BY <1>1, <2>1, <2>3
<1> QED BY <1>1, <1>2, <1>3, <1>4

\* What p puts on the network describes its state at the end of the flush.
Describes(p, m, buf) ==
    /\ m \in Control \cup Push
    /\ m.una = rcv_nxt[p]
    /\ m.cmd = "ACK" => m.sn \in acklist[p]
    /\ m.cmd = "PUSH" => m.sn \in DOMAIN buf /\ m.seg = buf[m.sn]

LEMMA TransmissionsDescribe ==
    ASSUME TypeOK, NEW p \in Peer, NEW buf,
           DOMAIN buf \subseteq Nat, buf \in [DOMAIN buf -> Segment],
           NEW m \in Transmissions(p, buf)
    PROVE  Describes(p, m, buf)
<1>1. /\ WndField(p) \in Nat
      /\ rcv_nxt[p] \in Nat
      /\ acklist[p] \subseteq Nat
  BY WndFieldIsNat DEF TypeOK
<1>2. CASE m \in Acks(p)
  BY <1>1, <1>2 DEF Acks, ControlDatagram, Control, Cmd, Describes
<1>3. CASE m \in Probes(p)
  BY <1>1, <1>3 DEF Probes, ControlDatagram, Control, Cmd, Describes
<1>4. CASE \E sn \in DOMAIN buf : m = PushDatagram(p, sn, buf[sn])
  BY <1>1, <1>4 DEF PushDatagram, Push, Describes
<1> QED BY <1>2, <1>3, <1>4 DEF Transmissions

\* A flush of p gave a sn to the first k segments of snd_queue.
Flushed(p, k) ==
    /\ k <= Len(snd_queue[p])
    /\ k = 0 \/ snd_nxt[p] + k <= snd_una[p] + SndWnd[p]
    /\ snd_queue' \in [Peer -> Seq(Segment)]
    /\ \A q \in Peer \ {p} : snd_queue'[q] = snd_queue[q]
    /\ Len(snd_queue'[p]) = Len(snd_queue[p]) - k
    /\ \A i \in 1..(Len(snd_queue[p]) - k) : snd_queue'[p][i] = snd_queue[p][k + i]
    /\ DOMAIN snd_buf' = Peer
    /\ \A q \in Peer \ {p} : snd_buf'[q] = snd_buf[q]
    /\ DOMAIN snd_buf'[p] = DOMAIN snd_buf[p] \cup (snd_nxt[p]..(snd_nxt[p] + k - 1))
    /\ snd_buf'[p] \in [DOMAIN snd_buf'[p] -> Segment]
    /\ \A sn \in DOMAIN snd_buf[p] : snd_buf'[p][sn] = snd_buf[p][sn]
    /\ \A sn \in snd_nxt[p]..(snd_nxt[p] + k - 1) :
          sn \notin DOMAIN snd_buf[p]
             => snd_buf'[p][sn] = snd_queue[p][sn - snd_nxt[p] + 1]
    /\ snd_nxt' = [snd_nxt EXCEPT ![p] = @ + k]
    /\ DOMAIN net' = Peer
    /\ \A q \in Peer \ {Other(p)} : net'[q] = net[q]
    /\ \A m \in net'[Other(p)] : m \in net[Other(p)] \/ Describes(p, m, snd_buf'[p])

LEMMA FlushEffect ==
    ASSUME TypeOK, NEW p \in Peer, Flush(p)
    PROVE  \E k \in Nat : Flushed(p, k)
<1>0. PICK w \in Window(p) : \E carried : FlushWith(p, Fit(p, w), carried)
  BY DEF Flush
<1>1. PICK carried : FlushWith(p, Fit(p, w), carried)
  BY <1>0
<1> DEFINE k == Fit(p, w)
           fresh == snd_nxt[p]..(snd_nxt[p] + k - 1)
<1>2. /\ k \in Nat
      /\ k <= Len(snd_queue[p])
      /\ k = 0 \/ snd_nxt[p] + k <= snd_una[p] + SndWnd[p]
  BY FitBounds
<1>3. /\ carried \subseteq Transmissions(p, Numbered(p, k))
      /\ net' = [net EXCEPT ![Other(p)] = @ \cup carried]
      /\ snd_queue' = [snd_queue EXCEPT ![p] = SubSeq(@, k + 1, Len(@))]
      /\ snd_buf' = [snd_buf EXCEPT ![p] = Numbered(p, k)]
      /\ snd_nxt' = [snd_nxt EXCEPT ![p] = @ + k]
  BY <1>1 DEF FlushWith
<1> HIDE DEF k
<1>4. /\ snd_queue[p] \in Seq(Segment)
      /\ Len(snd_queue[p]) \in Nat
      /\ snd_nxt[p] \in Nat
  BY DEF TypeOK
<1>5. /\ SubSeq(snd_queue[p], k + 1, Len(snd_queue[p])) \in Seq(Segment)
      /\ Len(SubSeq(snd_queue[p], k + 1, Len(snd_queue[p]))) = Len(snd_queue[p]) - k
      /\ \A i \in 1..(Len(snd_queue[p]) - k) :
            SubSeq(snd_queue[p], k + 1, Len(snd_queue[p]))[i] = snd_queue[p][k + i]
  BY <1>2, <1>4
<1>6. /\ snd_queue' \in [Peer -> Seq(Segment)]
      /\ \A q \in Peer \ {p} : snd_queue'[q] = snd_queue[q]
      /\ snd_queue'[p] = SubSeq(snd_queue[p], k + 1, Len(snd_queue[p]))
  BY <1>3, <1>5 DEF TypeOK
<1>7. /\ Len(snd_queue'[p]) = Len(snd_queue[p]) - k
      /\ \A i \in 1..(Len(snd_queue[p]) - k) : snd_queue'[p][i] = snd_queue[p][k + i]
  BY <1>5, <1>6
<1>8. /\ DOMAIN snd_buf' = Peer
      /\ \A q \in Peer \ {p} : snd_buf'[q] = snd_buf[q]
      /\ snd_buf'[p] = Numbered(p, k)
  BY <1>3 DEF TypeOK
<1>9. ASSUME NEW sn \in fresh
      PROVE  snd_queue[p][sn - snd_nxt[p] + 1] \in Segment
  <2>1. sn - snd_nxt[p] + 1 \in 1..Len(snd_queue[p])
    BY <1>2, <1>4
  <2> QED BY <1>4, <2>1
<1>10. /\ DOMAIN snd_buf'[p] = DOMAIN snd_buf[p] \cup fresh
       /\ \A sn \in DOMAIN snd_buf[p] : snd_buf'[p][sn] = snd_buf[p][sn]
       /\ \A sn \in fresh : sn \notin DOMAIN snd_buf[p]
             => snd_buf'[p][sn] = snd_queue[p][sn - snd_nxt[p] + 1]
  BY <1>8 DEF Numbered
<1>11. /\ snd_buf'[p] \in [DOMAIN snd_buf'[p] -> Segment]
       /\ DOMAIN snd_buf'[p] \subseteq Nat
  <2>1. /\ snd_buf[p] \in [DOMAIN snd_buf[p] -> Segment]
        /\ DOMAIN snd_buf[p] \subseteq Nat
    BY DEF TypeOK
  <2>2. \A sn \in DOMAIN snd_buf'[p] : snd_buf'[p][sn] \in Segment
    BY <1>9, <1>10, <2>1
  <2>3. snd_buf'[p] = [sn \in DOMAIN snd_buf'[p] |-> snd_buf'[p][sn]]
    BY <1>8 DEF Numbered
  <2>4. DOMAIN snd_buf'[p] \subseteq Nat
    BY <1>2, <1>4, <1>10, <2>1
  <2> HIDE DEF fresh
  <2> QED BY <2>2, <2>3, <2>4
<1>12. /\ DOMAIN net' = Peer
       /\ \A q \in Peer \ {Other(p)} : net'[q] = net[q]
       /\ net'[Other(p)] = net[Other(p)] \cup carried
  BY <1>3, OtherPeer DEF TypeOK
<1>13. ASSUME NEW m \in carried
       PROVE  Describes(p, m, snd_buf'[p])
  BY <1>3, <1>8, <1>11, TransmissionsDescribe
<1>14. Flushed(p, k)
  BY <1>2, <1>3, <1>6, <1>7, <1>8, <1>10, <1>11, <1>12, <1>13 DEF Flushed
<1> QED BY <1>2, <1>14

\* The acknowledgement part of an input of m.
Acknowledged(p, m) ==
    /\ rmt_wnd' = [rmt_wnd EXCEPT ![p] = m.wnd]
    /\ DOMAIN snd_buf' = Peer
    /\ \A q \in Peer \ {p} : snd_buf'[q] = snd_buf[q]
    /\ DOMAIN snd_buf'[p] = Unacked(p, m)
    /\ snd_buf'[p] \in [DOMAIN snd_buf'[p] -> Segment]
    /\ \A sn \in DOMAIN snd_buf'[p] : snd_buf'[p][sn] = snd_buf[p][sn]
    /\ IsFirstSn(snd_una'[p], snd_buf'[p], snd_nxt[p])
    /\ DOMAIN snd_una' = Peer
    /\ \A q \in Peer \ {p} : snd_una'[q] = snd_una[q]
    /\ UNCHANGED <<snd_queue, snd_nxt, probe_wait>>

LEMMA AcknowledgeEffect ==
    ASSUME TypeOK, NEW p \in Peer, NEW m, Acknowledge(p, m)
    PROVE  Acknowledged(p, m)
<1> DEFINE buf == Restrict(snd_buf[p], Unacked(p, m))
<1>1. PICK una \in DOMAIN buf \cup {snd_nxt[p]} :
        /\ IsFirstSn(una, buf, snd_nxt[p])
        /\ snd_una' = [snd_una EXCEPT ![p] = una]
  BY DEF Acknowledge
<1>2. /\ rmt_wnd' = [rmt_wnd EXCEPT ![p] = m.wnd]
      /\ snd_buf' = [snd_buf EXCEPT ![p] = buf]
      /\ UNCHANGED <<snd_queue, snd_nxt, probe_wait>>
  BY DEF Acknowledge
<1>3. /\ DOMAIN buf = Unacked(p, m)
      /\ Unacked(p, m) \subseteq DOMAIN snd_buf[p]
      /\ \A sn \in Unacked(p, m) : buf[sn] = snd_buf[p][sn]
      /\ buf \in [DOMAIN buf -> Segment]
  BY DEF Restrict, Unacked, TypeOK
<1>4. /\ DOMAIN snd_buf' = Peer
      /\ \A q \in Peer \ {p} : snd_buf'[q] = snd_buf[q]
      /\ snd_buf'[p] = buf
  BY <1>2 DEF TypeOK
<1>5. /\ DOMAIN snd_una' = Peer
      /\ snd_una'[p] = una
      /\ \A q \in Peer \ {p} : snd_una'[q] = snd_una[q]
  BY <1>1 DEF TypeOK
<1> HIDE DEF buf
<1> QED BY <1>1, <1>2, <1>3, <1>4, <1>5 DEF Acknowledged

LEMMA NetTypes ==
    ASSUME TypeOK, NEW p \in Peer, NEW m \in net[p]
    PROVE  /\ m.sn \in Nat
           /\ m.wnd \in Nat
           /\ m.una \in Nat
           /\ m.cmd = "PUSH" => m.seg \in Segment
           /\ m.cmd \in Cmd \cup {"PUSH"}
<1>1. m \in Control \cup Push
  BY DEF TypeOK
<1>2. CASE m \in Control
  BY <1>2 DEF Control, Cmd
<1>3. CASE m \in Push
  BY <1>3 DEF Push
<1> QED BY <1>1, <1>2, <1>3

LEMMA InsertType ==
    ASSUME NEW buf, DOMAIN buf \subseteq Nat, buf \in [DOMAIN buf -> Segment],
           NEW sn \in Nat, NEW seg \in Segment
    PROVE  /\ DOMAIN Insert(buf, sn, seg) = DOMAIN buf \cup {sn}
           /\ DOMAIN Insert(buf, sn, seg) \subseteq Nat
           /\ Insert(buf, sn, seg) \in [DOMAIN Insert(buf, sn, seg) -> Segment]
           /\ \A x \in DOMAIN buf : Insert(buf, sn, seg)[x] = buf[x]
           /\ sn \notin DOMAIN buf => Insert(buf, sn, seg)[sn] = seg
BY DEF Insert

\* The receiving part of an input of a PUSH that is in the receive window.
LEMMA PushEffect ==
    ASSUME TypeOK, NEW p \in Peer, NEW m \in net[p], m.cmd = "PUSH",
           InRcvWindow(p, m.sn), InputPush(p, m)
    PROVE  \E k \in Nat :
              Moved(p, rcv_queue[p], Insert(rcv_buf[p], m.sn, m.seg), k)
<1>1. MoveToQueue(p, rcv_queue[p], Insert(rcv_buf[p], m.sn, m.seg))
  BY DEF InputPush
<1>2. /\ DOMAIN rcv_buf[p] \subseteq Nat
      /\ rcv_buf[p] \in [DOMAIN rcv_buf[p] -> Segment]
      /\ rcv_queue[p] \in Seq(Segment)
  BY DEF TypeOK
<1>3. m.sn \in Nat /\ m.seg \in Segment
  BY NetTypes
<1> DEFINE buf == Insert(rcv_buf[p], m.sn, m.seg)
<1>4. DOMAIN buf \subseteq Nat /\ buf \in [DOMAIN buf -> Segment]
  BY <1>2, <1>3, InsertType
<1> HIDE DEF buf
<1>5. MoveToQueue(p, rcv_queue[p], buf)
  BY <1>1 DEF buf
<1>6. \E k \in Nat : Moved(p, rcv_queue[p], buf, k)
  BY <1>2, <1>4, <1>5, MoveEffect
<1> QED BY <1>6 DEF buf

\* A recv of p handed over the first j segments and moved k to rcv_queue.
Received(p, j, k) ==
    /\ PeekReady(rcv_queue[p])
    /\ MergeEnds(rcv_queue[p], j)
    /\ Moved(p, SubSeq(rcv_queue[p], j + 1, Len(rcv_queue[p])), rcv_buf[p], k)
    /\ Len(SubSeq(rcv_queue[p], j + 1, Len(rcv_queue[p]))) = Len(rcv_queue[p]) - j
    /\ \A i \in 1..(Len(rcv_queue[p]) - j) :
          SubSeq(rcv_queue[p], j + 1, Len(rcv_queue[p]))[i] = rcv_queue[p][j + i]
    /\ delivered' \in [Peer -> Seq(Segment)]
    /\ \A q \in Peer \ {p} : delivered'[q] = delivered[q]
    /\ Len(delivered'[p]) = Len(delivered[p]) + j
    /\ \A i \in 1..Len(delivered[p]) : delivered'[p][i] = delivered[p][i]
    /\ \A i \in 1..j : delivered'[p][Len(delivered[p]) + i] = rcv_queue[p][i]

LEMMA RecvEffect ==
    ASSUME TypeOK, NEW p \in Peer, Recv(p)
    PROVE  \E j \in 1..Len(rcv_queue[p]), k \in Nat : Received(p, j, k)
<1>1. PICK j \in 1..Len(rcv_queue[p]) :
        /\ MergeEnds(rcv_queue[p], j)
        /\ delivered' = [delivered EXCEPT ![p] = @ \o SubSeq(rcv_queue[p], 1, j)]
        /\ MoveToQueue(p, SubSeq(rcv_queue[p], j + 1, Len(rcv_queue[p])), rcv_buf[p])
  BY DEF Recv
<1>2. /\ rcv_queue[p] \in Seq(Segment)
      /\ delivered[p] \in Seq(Segment)
      /\ Len(rcv_queue[p]) \in Nat
      /\ Len(delivered[p]) \in Nat
      /\ DOMAIN rcv_buf[p] \subseteq Nat
      /\ rcv_buf[p] \in [DOMAIN rcv_buf[p] -> Segment]
  BY DEF TypeOK
<1> DEFINE rest == SubSeq(rcv_queue[p], j + 1, Len(rcv_queue[p]))
           msg == SubSeq(rcv_queue[p], 1, j)
<1>3. /\ rest \in Seq(Segment)
      /\ Len(rest) = Len(rcv_queue[p]) - j
      /\ \A i \in 1..(Len(rcv_queue[p]) - j) : rest[i] = rcv_queue[p][j + i]
  BY <1>2
<1>4. /\ msg \in Seq(Segment)
      /\ Len(msg) = j
      /\ \A i \in 1..j : msg[i] = rcv_queue[p][i]
  BY <1>2
<1> HIDE DEF rest, msg
<1>5. PICK k \in Nat : Moved(p, rest, rcv_buf[p], k)
  BY <1>1, <1>2, <1>3, MoveEffect DEF rest
<1>6. /\ delivered[p] \o msg \in Seq(Segment)
      /\ Len(delivered[p] \o msg) = Len(delivered[p]) + Len(msg)
      /\ \A i \in 1..Len(delivered[p]) : (delivered[p] \o msg)[i] = delivered[p][i]
      /\ \A i \in 1..Len(msg) : (delivered[p] \o msg)[Len(delivered[p]) + i] = msg[i]
  BY <1>2, <1>4, ConcatElements
<1>7. delivered' = [delivered EXCEPT ![p] = @ \o msg]
  BY <1>1 DEF msg
<1>8. /\ delivered' \in [Peer -> Seq(Segment)]
      /\ \A q \in Peer \ {p} : delivered'[q] = delivered[q]
      /\ delivered'[p] = delivered[p] \o msg
  BY <1>6, <1>7 DEF TypeOK
<1>9. /\ Len(delivered'[p]) = Len(delivered[p]) + j
      /\ \A i \in 1..Len(delivered[p]) : delivered'[p][i] = delivered[p][i]
      /\ \A i \in 1..j : delivered'[p][Len(delivered[p]) + i] = rcv_queue[p][i]
  BY <1>4, <1>6, <1>8
<1>10. PeekReady(rcv_queue[p])
  BY DEF Recv
<1>11. Received(p, j, k)
  BY <1>1, <1>3, <1>5, <1>8, <1>9, <1>10 DEF Received, rest
<1> QED BY <1>5, <1>11

-----------------------------------------------------------------------------
(* Type correctness *)

LEMMA TypeInit == Init => TypeOK
<1> SUFFICES ASSUME Init PROVE TypeOK
  OBVIOUS
<1>1. Empty \in [DOMAIN Empty -> Segment] /\ DOMAIN Empty \subseteq Nat
  BY DEF Empty
<1> QED BY <1>1, ArqAssumption DEF Init, TypeOK

LEMMA TypeNext == TypeOK /\ [Next]_vars => TypeOK'
<1> SUFFICES ASSUME TypeOK, [Next]_vars PROVE TypeOK'
  OBVIOUS
<1>1. ASSUME NEW p \in Peer, Send(p) PROVE TypeOK'
  <2>1. snd_queue' \in [Peer -> Seq(Segment)] /\ sent' \in [Peer -> Seq(Segment)]
    BY <1>1, SendEffect DEF Appended
  <2>2. UNCHANGED <<snd_buf, snd_una, snd_nxt, rmt_wnd, probe_wait,
                    rcv_queue, rcv_buf, rcv_nxt, acklist, ask_tell, net, delivered>>
    BY <1>1 DEF Send, rcvVars
  <2> QED BY <2>1, <2>2 DEF TypeOK
<1>2. ASSUME NEW p \in Peer, Flush(p) PROVE TypeOK'
  <2>1. PICK k \in Nat : Flushed(p, k)
    BY <1>2, FlushEffect
  <2>2. /\ acklist' = [acklist EXCEPT ![p] = {}]
        /\ ask_tell' = [ask_tell EXCEPT ![p] = FALSE]
        /\ probe_wait' = [probe_wait EXCEPT ![p] = (rmt_wnd[p] = 0)]
        /\ UNCHANGED <<snd_una, rmt_wnd, rcv_queue, rcv_buf, rcv_nxt, sent, delivered>>
    BY <1>2 DEF Flush, FlushWith
  <2>3. net' \in [Peer -> SUBSET (Control \cup Push)]
    <3>1. net'[Other(p)] \subseteq Control \cup Push
      BY <2>1, OtherPeer DEF Flushed, Describes, TypeOK
    <3>2. \A q \in Peer \ {Other(p)} : net'[q] \subseteq Control \cup Push
      BY <2>1 DEF Flushed, TypeOK
    <3>3. DOMAIN net' = Peer /\ net' = [q \in Peer |-> net'[q]]
      BY <1>2 DEF Flush, FlushWith, TypeOK
    <3> QED BY <3>1, <3>2, <3>3
  <2>4. /\ DOMAIN snd_buf' = Peer
        /\ \A q \in Peer : DOMAIN snd_buf'[q] \subseteq Nat
        /\ \A q \in Peer : snd_buf'[q] \in [DOMAIN snd_buf'[q] -> Segment]
    <3>1. /\ DOMAIN snd_buf' = Peer
          /\ \A q \in Peer \ {p} : snd_buf'[q] = snd_buf[q]
          /\ DOMAIN snd_buf'[p] = DOMAIN snd_buf[p] \cup (snd_nxt[p]..(snd_nxt[p] + k - 1))
          /\ snd_buf'[p] \in [DOMAIN snd_buf'[p] -> Segment]
      BY <2>1 DEF Flushed
    <3>2. DOMAIN snd_buf'[p] \subseteq Nat
      BY <3>1 DEF TypeOK
    <3> QED BY <3>1, <3>2 DEF TypeOK
  <2>5. snd_queue' \in [Peer -> Seq(Segment)] /\ snd_nxt' \in [Peer -> Nat]
    BY <2>1 DEF Flushed, TypeOK
  <2>6. /\ acklist' \in [Peer -> SUBSET Nat]
        /\ ask_tell' \in [Peer -> BOOLEAN]
        /\ probe_wait' \in [Peer -> BOOLEAN]
    BY <2>2 DEF TypeOK
  <2> QED BY <2>2, <2>3, <2>4, <2>5, <2>6 DEF TypeOK
<1>3. ASSUME NEW p \in Peer, NEW m \in net[p], Input(p, m) PROVE TypeOK'
  <2>1. /\ Consume(p, m)
        /\ InputAck(p, m) \/ InputWask(p, m) \/ InputWins(p, m) \/ InputPush(p, m)
        /\ UNCHANGED <<sent, delivered>>
    BY <1>3 DEF Input
  <2>2. net' \in [Peer -> SUBSET (Control \cup Push)]
    BY <2>1 DEF Consume, TypeOK
  <2>3. Acknowledged(p, m)
    BY <2>1, AcknowledgeEffect DEF InputAck, InputWask, InputWins, InputPush
  <2>4. m.sn \in Nat /\ m.wnd \in Nat
    BY NetTypes
  <2>5. /\ DOMAIN snd_buf' = Peer
        /\ \A q \in Peer : DOMAIN snd_buf'[q] \subseteq Nat
        /\ \A q \in Peer : snd_buf'[q] \in [DOMAIN snd_buf'[q] -> Segment]
    BY <2>3 DEF Acknowledged, Unacked, TypeOK
  <2>6. snd_una' \in [Peer -> Nat]
    <3>1. snd_una'[p] \in Nat
      BY <2>3, <2>5 DEF Acknowledged, IsFirstSn, TypeOK
    <3>2. snd_una' = [q \in Peer |-> snd_una'[q]]
      BY <2>1 DEF InputAck, InputWask, InputWins, InputPush, Acknowledge, TypeOK
    <3> QED BY <2>3, <3>1, <3>2 DEF Acknowledged, TypeOK
  <2>7. /\ rmt_wnd' \in [Peer -> Nat]
        /\ UNCHANGED <<snd_queue, snd_nxt, probe_wait>>
    BY <2>3, <2>4 DEF Acknowledged, TypeOK
  <2>8. /\ rcv_queue' \in [Peer -> Seq(Segment)]
        /\ rcv_nxt' \in [Peer -> Nat]
        /\ DOMAIN rcv_buf' = Peer
        /\ \A q \in Peer : DOMAIN rcv_buf'[q] \subseteq Nat
        /\ \A q \in Peer : rcv_buf'[q] \in [DOMAIN rcv_buf'[q] -> Segment]
        /\ acklist' \in [Peer -> SUBSET Nat]
        /\ ask_tell' \in [Peer -> BOOLEAN]
    <3>1. CASE InputAck(p, m) \/ InputWins(p, m)
      BY <3>1 DEF InputAck, InputWins, rcvVars, TypeOK
    <3>2. CASE InputWask(p, m)
      BY <3>2 DEF InputWask, TypeOK
    <3>3. CASE InputPush(p, m) /\ ~InRcvWindow(p, m.sn)
      BY <2>4, <3>3 DEF InputPush, TypeOK
    <3>4. CASE InputPush(p, m) /\ InRcvWindow(p, m.sn)
      <4>1. PICK k \in Nat :
              Moved(p, rcv_queue[p], Insert(rcv_buf[p], m.sn, m.seg), k)
        BY <3>4, PushEffect DEF InputPush
      <4>2. DOMAIN Insert(rcv_buf[p], m.sn, m.seg) \subseteq Nat
        BY <2>4 DEF Insert, TypeOK
      <4>3. acklist' \in [Peer -> SUBSET Nat] /\ ask_tell' \in [Peer -> BOOLEAN]
        BY <2>4, <3>4 DEF InputPush, TypeOK
      <4> QED BY <4>1, <4>2, <4>3, MovedTypes
    <3> QED BY <2>1, <3>1, <3>2, <3>3, <3>4
  <2> QED BY <2>1, <2>2, <2>5, <2>6, <2>7, <2>8 DEF TypeOK
<1>4. ASSUME NEW p \in Peer, Recv(p) PROVE TypeOK'
  <2>1. PICK j \in 1..Len(rcv_queue[p]), k \in Nat : Received(p, j, k)
    BY <1>4, RecvEffect
  <2>2. UNCHANGED <<snd_queue, snd_buf, snd_una, snd_nxt, rmt_wnd, probe_wait,
                    acklist, net, sent>>
    BY <1>4 DEF Recv, sndVars
  <2>3. ask_tell' \in [Peer -> BOOLEAN]
    BY <1>4 DEF Recv, TypeOK
  <2>4. /\ rcv_queue' \in [Peer -> Seq(Segment)]
        /\ rcv_nxt' \in [Peer -> Nat]
        /\ DOMAIN rcv_buf' = Peer
        /\ \A q \in Peer : DOMAIN rcv_buf'[q] \subseteq Nat
        /\ \A q \in Peer : rcv_buf'[q] \in [DOMAIN rcv_buf'[q] -> Segment]
    BY <2>1, MovedTypes DEF Received, TypeOK
  <2>5. delivered' \in [Peer -> Seq(Segment)]
    BY <2>1 DEF Received
  <2> QED BY <2>2, <2>3, <2>4, <2>5 DEF TypeOK
<1>5. CASE UNCHANGED vars
  BY <1>5 DEF vars, sndVars, rcvVars, TypeOK
<1> QED BY <1>1, <1>2, <1>3, <1>4, <1>5 DEF Next

\* Every variable of the engine keeps its type, for all windows and limits.
THEOREM TypeCorrect == Spec => []TypeOK
<1> QED BY TypeInit, TypeNext, PTL DEF Spec

-----------------------------------------------------------------------------
(***************************************************************************)
(* The inductive invariant.  It is stated for each direction, from a       *)
(* sender s to its receiver Other(s), and says that every copy of a        *)
(* segment, wherever it is, is the element of the history sent[s] that its *)
(* sn names, and that every acknowledgement is true.                       *)
(***************************************************************************)

\* The sender: snd_queue continues sent after snd_nxt, snd_buf is a part of it.
SendInv(s) ==
    /\ snd_nxt[s] + Len(snd_queue[s]) = Len(sent[s])
    /\ \A i \in 1..Len(snd_queue[s]) : snd_queue[s][i] = sent[s][snd_nxt[s] + i]
    /\ snd_una[s] <= snd_nxt[s]
    /\ snd_nxt[s] <= snd_una[s] + SndWnd[s]
    /\ \A sn \in DOMAIN snd_buf[s] : /\ snd_una[s] <= sn
                                     /\ sn < snd_nxt[s]
                                     /\ snd_buf[s][sn] = sent[s][sn + 1]

\* queue and buf hold elements of hist below limit: queue those after the first
\* base ones, up to nxt, and buf some in the window of size wnd from nxt.
Holds(hist, limit, wnd, base, queue, buf, nxt) ==
    /\ base + Len(queue) = nxt
    /\ nxt <= limit
    /\ Len(queue) <= wnd
    /\ \A i \in 1..Len(queue) : queue[i] = hist[base + i]
    /\ \A sn \in DOMAIN buf : /\ nxt <= sn
                              /\ sn < nxt + wnd
                              /\ sn < limit
                              /\ buf[sn] = hist[sn + 1]

\* Data on its way from s and in the buffers of its receiver.
DataInv(s) ==
    LET r == Other(s)
    IN  /\ \A m \in net[r] : m.cmd = "PUSH" => /\ m.sn < snd_nxt[s]
                                               /\ m.seg = sent[s][m.sn + 1]
        /\ Holds(sent[s], snd_nxt[s], RcvWnd[r], Len(delivered[r]),
                 rcv_queue[r], rcv_buf[r], rcv_nxt[r])
        /\ \A i \in 1..Len(delivered[r]) : delivered[r][i] = sent[s][i]
        /\ rcv_nxt[r] \in DOMAIN rcv_buf[r] => Len(rcv_queue[r]) >= RcvWnd[r]

\* Acknowledgements on their way to s are true, and nothing is lost.
AckInv(s) ==
    LET r == Other(s)
    IN  /\ \A sn \in acklist[r] : Has(r, sn)
        /\ \A m \in net[s] : /\ m.una <= rcv_nxt[r]
                             /\ m.cmd = "ACK" => Has(r, m.sn)
        /\ \A sn \in 0..(snd_nxt[s] - 1) : sn \in DOMAIN snd_buf[s] \/ Has(r, sn)

\* From a segment of hist with number frg, frg more follow, counting down.
Whole(hist) ==
    \A i \in 1..Len(hist) :
        /\ hist[i].frg + 1 < WndRcv
        /\ \A j \in 0..hist[i].frg : /\ i + j <= Len(hist)
                                     /\ hist[i + j].frg = hist[i].frg - j

\* Messages are sent whole, and delivered[r] ends at the end of one.
MessageInv(s) ==
    LET got == delivered[Other(s)]
    IN  /\ Whole(sent[s])
        /\ got # <<>> => got[Len(got)].frg = 0

IInv == /\ TypeOK
        /\ \A s \in Peer : SendInv(s) /\ DataInv(s) /\ AckInv(s) /\ MessageInv(s)

LEMMA SendInvInit == Init => \A s \in Peer : SendInv(s)
BY ArqAssumption DEF Init, SendInv, Empty

LEMMA SendInvNext ==
    TypeOK /\ (\A s \in Peer : SendInv(s)) /\ [Next]_vars
        => \A s \in Peer : SendInv(s)'
<1> SUFFICES ASSUME TypeOK, \A s \in Peer : SendInv(s), [Next]_vars, NEW s \in Peer
             PROVE  SendInv(s)'
  OBVIOUS
<1>1. /\ Len(snd_queue[s]) \in Nat
      /\ Len(sent[s]) \in Nat
      /\ snd_nxt[s] \in Nat
      /\ snd_una[s] \in Nat
      /\ SndWnd[s] \in Nat
      /\ DOMAIN snd_buf[s] \subseteq Nat
  BY ArqAssumption DEF TypeOK
<1>2. SendInv(s)
  OBVIOUS
<1>3. ASSUME snd_queue'[s] = snd_queue[s], sent'[s] = sent[s],
             snd_una'[s] = snd_una[s], snd_nxt'[s] = snd_nxt[s],
             snd_buf'[s] = snd_buf[s]
      PROVE  SendInv(s)'
  BY <1>2, <1>3 DEF SendInv
<1>4. ASSUME NEW p \in Peer, Send(p) PROVE SendInv(s)'
  <2>1. UNCHANGED <<snd_buf, snd_una, snd_nxt>>
    BY <1>4 DEF Send
  <2>2. CASE p # s
    <3>1. snd_queue'[s] = snd_queue[s] /\ sent'[s] = sent[s]
      BY <1>4, <2>2, SendEffect DEF Appended
    <3> QED BY <1>3, <2>1, <3>1
  <2>3. CASE p = s
    <3>0. PICK d \in Data, n \in Nat : Appended(s, d, n)
      BY <1>4, <2>3, SendEffect
    <3>1. /\ \A i \in 1..Len(snd_queue[s]) : snd_queue'[s][i] = snd_queue[s][i]
          /\ \A i \in 1..n : snd_queue'[s][Len(snd_queue[s]) + i]
                                = [frg |-> n - i, data |-> d]
          /\ \A i \in 1..Len(sent[s]) : sent'[s][i] = sent[s][i]
          /\ \A i \in 1..n : sent'[s][Len(sent[s]) + i]
                                = [frg |-> n - i, data |-> d]
      BY <3>0 DEF Appended
    <3> DEFINE lq == Len(snd_queue[s])
               ls == Len(sent[s])
               lq1 == Len(snd_queue'[s])
               ls1 == Len(sent'[s])
    <3>9. /\ lq \in Nat /\ ls \in Nat
          /\ lq1 = lq + n /\ ls1 = ls + n
          /\ snd_nxt[s] + lq = ls
          /\ snd_nxt'[s] = snd_nxt[s]
      BY <1>1, <1>2, <2>1, <3>0 DEF Appended, SendInv
    <3> HIDE DEF lq, ls, lq1, ls1
    <3>2. snd_nxt'[s] + lq1 = ls1
      BY <1>1, <3>9
    <3>3. ASSUME NEW i \in 1..lq1
          PROVE  snd_queue'[s][i] = sent'[s][snd_nxt'[s] + i]
      <4>1. CASE i <= lq
        <5>1. i \in 1..lq /\ snd_nxt[s] + i \in 1..ls
          BY <1>1, <3>9, <4>1
        <5> QED BY <1>2, <3>1, <3>9, <5>1 DEF SendInv, lq, ls
      <4>2. CASE i > lq
        <5> DEFINE x == i - lq
        <5>1. /\ x \in 1..n
              /\ lq + x = i
              /\ ls + x = snd_nxt[s] + i
          BY <1>1, <3>9, <4>2
        <5> HIDE DEF x
        <5>2. snd_queue'[s][lq + x] = sent'[s][ls + x]
          BY <3>1, <5>1 DEF lq, ls
        <5> QED BY <3>9, <5>1, <5>2
      <4>3. i \in Nat /\ lq \in Nat
        BY <3>9
      <4> QED BY <4>1, <4>2, <4>3
    <3>4. ASSUME NEW sn \in DOMAIN snd_buf'[s]
          PROVE  /\ snd_una'[s] <= sn
                 /\ sn < snd_nxt'[s]
                 /\ snd_buf'[s][sn] = sent'[s][sn + 1]
      <4>1. sn + 1 \in 1..Len(sent[s])
        BY <1>1, <1>2, <2>1 DEF SendInv
      <4> QED BY <1>2, <2>1, <3>1, <4>1 DEF SendInv
    <3> QED BY <1>2, <2>1, <3>2, <3>3, <3>4 DEF SendInv, lq1, ls1
  <2> QED BY <2>2, <2>3
<1>5. ASSUME NEW p \in Peer, Flush(p) PROVE SendInv(s)'
  <2>1. PICK k \in Nat : Flushed(p, k)
    BY <1>5, FlushEffect
  <2>2. snd_una' = snd_una /\ sent' = sent
    BY <1>5 DEF Flush, FlushWith
  <2>3. CASE p # s
    <3>1. /\ snd_queue'[s] = snd_queue[s]
          /\ snd_buf'[s] = snd_buf[s]
          /\ snd_nxt'[s] = snd_nxt[s]
      BY <2>1, <2>3 DEF Flushed, TypeOK
    <3> QED BY <1>3, <2>2, <3>1
  <2>4. CASE p = s
    <3>1. /\ k <= Len(snd_queue[s])
          /\ k = 0 \/ snd_nxt[s] + k <= snd_una[s] + SndWnd[s]
          /\ Len(snd_queue'[s]) = Len(snd_queue[s]) - k
          /\ \A i \in 1..(Len(snd_queue[s]) - k) : snd_queue'[s][i] = snd_queue[s][k + i]
          /\ DOMAIN snd_buf'[s] = DOMAIN snd_buf[s] \cup (snd_nxt[s]..(snd_nxt[s] + k - 1))
          /\ \A sn \in DOMAIN snd_buf[s] : snd_buf'[s][sn] = snd_buf[s][sn]
          /\ \A sn \in snd_nxt[s]..(snd_nxt[s] + k - 1) :
                sn \notin DOMAIN snd_buf[s]
                   => snd_buf'[s][sn] = snd_queue[s][sn - snd_nxt[s] + 1]
      BY <2>1, <2>4 DEF Flushed
    <3>2. snd_nxt'[s] = snd_nxt[s] + k
      BY <2>1, <2>4 DEF Flushed, TypeOK
    <3>3. /\ snd_nxt'[s] + Len(snd_queue'[s]) = Len(sent'[s])
          /\ snd_una'[s] <= snd_nxt'[s]
          /\ snd_nxt'[s] <= snd_una'[s] + SndWnd[s]
      BY <1>1, <1>2, <2>2, <3>1, <3>2 DEF SendInv
    <3>4. ASSUME NEW i \in 1..Len(snd_queue'[s])
          PROVE  snd_queue'[s][i] = sent'[s][snd_nxt'[s] + i]
      <4>1. /\ i \in 1..(Len(snd_queue[s]) - k)
            /\ k + i \in 1..Len(snd_queue[s])
            /\ snd_nxt[s] + (k + i) = (snd_nxt[s] + k) + i
        BY <1>1, <3>1
      <4> QED BY <1>2, <2>2, <3>1, <3>2, <4>1 DEF SendInv
    <3>5. ASSUME NEW sn \in DOMAIN snd_buf'[s]
          PROVE  /\ snd_una'[s] <= sn
                 /\ sn < snd_nxt'[s]
                 /\ snd_buf'[s][sn] = sent'[s][sn + 1]
      <4>1. CASE sn \in DOMAIN snd_buf[s]
        BY <1>1, <1>2, <2>2, <3>1, <3>2, <4>1 DEF SendInv
      <4>2. CASE sn \notin DOMAIN snd_buf[s]
        <5>1. /\ sn \in snd_nxt[s]..(snd_nxt[s] + k - 1)
              /\ snd_buf'[s][sn] = snd_queue[s][sn - snd_nxt[s] + 1]
          BY <3>1, <4>2
        <5>2. /\ sn - snd_nxt[s] + 1 \in 1..Len(snd_queue[s])
              /\ snd_nxt[s] + (sn - snd_nxt[s] + 1) = sn + 1
          <6> DEFINE len == Len(snd_queue[s])
                     nxt == snd_nxt[s]
          <6>1. len \in Nat /\ nxt \in Nat /\ k <= len /\ sn \in nxt..(nxt + k - 1)
            BY <1>1, <3>1, <5>1
          <6> HIDE DEF len, nxt
          <6>2. sn - nxt + 1 \in 1..len /\ nxt + (sn - nxt + 1) = sn + 1
            BY <6>1
          <6> QED BY <6>2 DEF len, nxt
        <5>3. snd_queue[s][sn - snd_nxt[s] + 1] = sent[s][sn + 1]
          <6> DEFINE x == sn - snd_nxt[s] + 1
          <6>1. x \in 1..Len(snd_queue[s]) /\ snd_nxt[s] + x = sn + 1
            BY <5>2
          <6> HIDE DEF x
          <6>2. \A i \in 1..Len(snd_queue[s]) : snd_queue[s][i] = sent[s][snd_nxt[s] + i]
            BY <1>2 DEF SendInv
          <6>3. snd_queue[s][x] = sent[s][snd_nxt[s] + x]
            BY <6>1, <6>2
          <6> QED BY <6>1, <6>3 DEF x
        <5>4. snd_una[s] <= sn /\ sn < snd_nxt[s] + k
          BY <1>1, <1>2, <5>1 DEF SendInv
        <5> QED BY <2>2, <3>2, <5>1, <5>3, <5>4
      <4> QED BY <4>1, <4>2
    <3> QED BY <3>3, <3>4, <3>5 DEF SendInv
  <2> QED BY <2>3, <2>4
<1>6. ASSUME NEW p \in Peer, NEW m \in net[p], Input(p, m) PROVE SendInv(s)'
  <2>1. Acknowledged(p, m) /\ sent' = sent
    BY <1>6, AcknowledgeEffect DEF Input, InputAck, InputWask, InputWins, InputPush
  <2>2. snd_queue' = snd_queue /\ snd_nxt' = snd_nxt
    BY <2>1 DEF Acknowledged
  <2>3. CASE p # s
    BY <1>3, <2>1, <2>2, <2>3 DEF Acknowledged
  <2>4. CASE p = s
    <3>1. /\ DOMAIN snd_buf'[s] \subseteq DOMAIN snd_buf[s]
          /\ \A sn \in DOMAIN snd_buf'[s] : snd_buf'[s][sn] = snd_buf[s][sn]
          /\ snd_una'[s] \in DOMAIN snd_buf'[s] \cup {snd_nxt[s]}
          /\ \A sn \in DOMAIN snd_buf'[s] : snd_una'[s] <= sn
      BY <2>1, <2>4 DEF Acknowledged, Unacked, IsFirstSn
    <3>2. /\ snd_una[s] <= snd_una'[s]
          /\ snd_una'[s] <= snd_nxt[s]
          /\ snd_una'[s] \in Nat
      BY <1>1, <1>2, <3>1 DEF SendInv
    <3>3. snd_nxt[s] <= snd_una'[s] + SndWnd[s]
      BY <1>1, <1>2, <3>2 DEF SendInv
    <3> QED BY <1>2, <2>1, <2>2, <3>1, <3>2, <3>3 DEF SendInv
  <2> QED BY <2>3, <2>4
<1>7. ASSUME NEW p \in Peer, Recv(p) PROVE SendInv(s)'
  BY <1>3, <1>7 DEF Recv, sndVars
<1>8. CASE UNCHANGED vars
  BY <1>3, <1>8 DEF vars, sndVars
<1> QED BY <1>4, <1>5, <1>6, <1>7, <1>8 DEF Next

LEMMA MovedData ==
    ASSUME TypeOK, NEW r \in Peer, NEW hist, NEW limit \in Nat, NEW base \in Nat,
           NEW queue \in Seq(Segment), NEW buf, DOMAIN buf \subseteq Nat,
           NEW k \in Nat, Moved(r, queue, buf, k),
           Holds(hist, limit, RcvWnd[r], base, queue, buf, rcv_nxt[r])
    PROVE  /\ Holds(hist, limit, RcvWnd[r], base, rcv_queue'[r], rcv_buf'[r], rcv_nxt'[r])
           /\ rcv_nxt'[r] \in DOMAIN rcv_buf'[r] => Len(rcv_queue'[r]) >= RcvWnd[r]
           /\ rcv_nxt'[r] = rcv_nxt[r] + k
<1> DEFINE nxt == rcv_nxt[r]
           lq == Len(queue)
           lq1 == Len(rcv_queue'[r])
           wnd == RcvWnd[r]
<1>1. nxt \in Nat /\ lq \in Nat /\ wnd \in Nat
  BY ArqAssumption DEF TypeOK
<1>2. rcv_nxt'[r] = nxt + k
  BY DEF Moved, TypeOK
<1>3. /\ lq1 = lq + k
      /\ k = 0 \/ lq + k <= wnd
      /\ nxt + k \notin DOMAIN buf \/ lq + k >= wnd
      /\ base + lq = nxt
      /\ nxt <= limit
      /\ lq <= wnd
  BY DEF Moved, Holds
<1>4. /\ \A i \in 0..(k - 1) : nxt + i \in DOMAIN buf
      /\ \A i \in 1..lq : rcv_queue'[r][i] = queue[i]
      /\ \A i \in 1..k : rcv_queue'[r][lq + i] = buf[nxt + i - 1]
      /\ DOMAIN rcv_buf'[r] = {sn \in DOMAIN buf : sn \notin nxt..(nxt + k - 1)}
      /\ \A sn \in DOMAIN rcv_buf'[r] : rcv_buf'[r][sn] = buf[sn]
  BY DEF Moved
<1>5. /\ \A i \in 1..lq : queue[i] = hist[base + i]
      /\ \A sn \in DOMAIN buf : /\ nxt <= sn
                                /\ sn < nxt + wnd
                                /\ sn < limit
                                /\ buf[sn] = hist[sn + 1]
  BY DEF Holds
<1> HIDE DEF nxt, lq, lq1, wnd
<1>6. base + lq1 = nxt + k /\ lq1 <= wnd
  BY <1>1, <1>3
<1>7. nxt + k <= limit
  <2>1. CASE k = 0
    BY <1>1, <1>3, <2>1
  <2>2. CASE k # 0
    <3>1. k - 1 \in 0..(k - 1) /\ nxt + (k - 1) \in DOMAIN buf
      BY <1>4, <2>2
    <3>2. nxt + (k - 1) < limit
      BY <1>5, <3>1
    <3> QED BY <1>1, <3>2
  <2> QED BY <2>1, <2>2
<1>8. ASSUME NEW i \in 1..lq1
      PROVE  rcv_queue'[r][i] = hist[base + i]
  <2>1. CASE i <= lq
    <3>1. i \in 1..lq
      BY <1>1, <2>1
    <3> QED BY <1>4, <1>5, <3>1
  <2>2. CASE i > lq
    <3> DEFINE x == i - lq
    <3>0. /\ lq1 = lq + k /\ base + lq = nxt
          /\ i \in 1..(lq + k) /\ i > lq
      BY <1>3, <2>2
    <3>1. /\ x \in 1..k
          /\ lq + x = i
          /\ nxt + x - 1 = nxt + (x - 1)
          /\ x - 1 \in 0..(k - 1)
          /\ (nxt + (x - 1)) + 1 = base + i
      <4> HIDE DEF lq, lq1, nxt, wnd
      <4> QED BY <1>1, <3>0
    <3> HIDE DEF x
    <3>2. nxt + (x - 1) \in DOMAIN buf
      BY <1>4, <3>1
    <3>3. buf[nxt + (x - 1)] = hist[(nxt + (x - 1)) + 1]
      BY <1>5, <3>2
    <3>4. rcv_queue'[r][lq + x] = buf[nxt + x - 1]
      BY <1>4, <3>1
    <3> QED BY <3>1, <3>3, <3>4
  <2> QED BY <1>1, <1>3, <2>1, <2>2
<1>9. ASSUME NEW sn \in DOMAIN rcv_buf'[r]
      PROVE  /\ nxt + k <= sn
             /\ sn < nxt + k + wnd
             /\ sn < limit
             /\ rcv_buf'[r][sn] = hist[sn + 1]
  <2>1. sn \in DOMAIN buf /\ sn \notin nxt..(nxt + k - 1) /\ rcv_buf'[r][sn] = buf[sn]
    BY <1>4
  <2>2. sn \in Nat
    BY <2>1
  <2>3. /\ nxt <= sn
        /\ sn < nxt + wnd
        /\ sn < limit
        /\ buf[sn] = hist[sn + 1]
    BY <1>5, <2>1
  <2> QED BY <1>1, <2>1, <2>2, <2>3
<1>10. nxt + k \in DOMAIN rcv_buf'[r] => lq1 >= wnd
  BY <1>3, <1>4
<1>11. rcv_nxt'[r] = rcv_nxt[r] + k
  BY <1>2 DEF nxt
<1> QED
  BY <1>2, <1>6, <1>7, <1>8, <1>9, <1>10, <1>11 DEF Holds, lq1, wnd

LEMMA DataInvInit == Init => \A s \in Peer : DataInv(s)
BY ArqAssumption, OtherPeer DEF Init, DataInv, Holds, Empty

LEMMA ReceiverTypes ==
    ASSUME TypeOK, NEW p \in Peer
    PROVE  /\ delivered[p] \in Seq(Segment)
           /\ rcv_queue[p] \in Seq(Segment)
           /\ Len(delivered[p]) \in Nat
           /\ Len(rcv_queue[p]) \in Nat
           /\ rcv_nxt[p] \in Nat
           /\ DOMAIN rcv_buf[p] \subseteq Nat
           /\ rcv_buf[p] \in [DOMAIN rcv_buf[p] -> Segment]
           /\ RcvWnd[p] \in Nat
BY ArqAssumption DEF TypeOK

\* Neither sent[s] nor snd_nxt[s] ever loses anything.
LEMMA SentStays ==
    ASSUME TypeOK, NEW s \in Peer, SendInv(s), [Next]_vars
    PROVE  /\ snd_nxt[s] \in Nat
           /\ snd_nxt'[s] \in Nat
           /\ snd_nxt[s] <= snd_nxt'[s]
           /\ \A sn \in Nat : sn < snd_nxt[s] => sent'[s][sn + 1] = sent[s][sn + 1]
<1> DEFINE ls == Len(sent[s])
<1>1. /\ snd_nxt[s] \in Nat
      /\ ls \in Nat
      /\ snd_nxt[s] <= ls
  <2> DEFINE lq == Len(snd_queue[s])
  <2>1. /\ snd_nxt[s] \in Nat
        /\ ls \in Nat
        /\ lq \in Nat
        /\ snd_nxt[s] + lq = ls
    BY DEF TypeOK, SendInv
  <2> HIDE DEF lq, ls
  <2> QED BY <2>1
<1>2. ASSUME snd_nxt'[s] = snd_nxt[s] \/ \E k \in Nat : snd_nxt'[s] = snd_nxt[s] + k,
             \A i \in 1..ls : sent'[s][i] = sent[s][i]
      PROVE  /\ snd_nxt'[s] \in Nat
             /\ snd_nxt[s] <= snd_nxt'[s]
             /\ \A sn \in Nat : sn < snd_nxt[s] => sent'[s][sn + 1] = sent[s][sn + 1]
  <2> HIDE DEF ls
  <2>1. snd_nxt'[s] \in Nat /\ snd_nxt[s] <= snd_nxt'[s]
    BY <1>1, <1>2
  <2>2. ASSUME NEW sn \in Nat, sn < snd_nxt[s]
        PROVE  sent'[s][sn + 1] = sent[s][sn + 1]
    <3>1. sn + 1 \in 1..ls
      BY <1>1, <2>2
    <3> QED BY <1>2, <3>1
  <2> QED BY <2>1, <2>2
<1>3. ASSUME NEW p \in Peer, Send(p)
      PROVE  snd_nxt' = snd_nxt /\ \A i \in 1..ls : sent'[s][i] = sent[s][i]
  <2>1. snd_nxt' = snd_nxt
    BY <1>3 DEF Send
  <2>2. PICK d \in Data, n \in Nat : Appended(p, d, n)
    BY <1>3, SendEffect
  <2> QED BY <2>1, <2>2 DEF Appended
<1>4. ASSUME NEW p \in Peer, Flush(p)
      PROVE  /\ sent' = sent
             /\ snd_nxt'[s] = snd_nxt[s] \/ \E k \in Nat : snd_nxt'[s] = snd_nxt[s] + k
  <2>1. sent' = sent
    BY <1>4 DEF Flush, FlushWith
  <2>2. PICK k \in Nat : Flushed(p, k)
    BY <1>4, FlushEffect
  <2>3. snd_nxt' = [snd_nxt EXCEPT ![p] = @ + k]
    BY <2>2 DEF Flushed
  <2> QED BY <2>1, <2>3 DEF TypeOK
<1>5. ASSUME NEW p \in Peer, NEW m \in net[p], Input(p, m)
      PROVE  sent' = sent /\ snd_nxt' = snd_nxt
  BY <1>5 DEF Input, InputAck, InputWask, InputWins, InputPush, Acknowledge
<1>6. ASSUME NEW p \in Peer, Recv(p)
      PROVE  sent' = sent /\ snd_nxt' = snd_nxt
  BY <1>6 DEF Recv, sndVars
<1>7. CASE UNCHANGED vars
  BY <1>1, <1>2, <1>7 DEF vars, sndVars
<1> QED BY <1>1, <1>2, <1>3, <1>4, <1>5, <1>6, <1>7 DEF Next

LEMMA HoldsStays ==
    ASSUME NEW h1, NEW h2, NEW l1 \in Nat, NEW l2 \in Nat, l1 <= l2, NEW wnd,
           \A sn \in Nat : sn < l1 => h1[sn + 1] = h2[sn + 1],
           NEW base \in Nat, NEW queue \in Seq(Segment),
           NEW buf, DOMAIN buf \subseteq Nat, NEW nxt \in Nat,
           Holds(h1, l1, wnd, base, queue, buf, nxt)
    PROVE  Holds(h2, l2, wnd, base, queue, buf, nxt)
<1> DEFINE lq == Len(queue)
<1>1. /\ base + lq = nxt
      /\ nxt <= l1
      /\ lq <= wnd
      /\ \A i \in 1..lq : queue[i] = h1[base + i]
      /\ \A sn \in DOMAIN buf : /\ nxt <= sn
                                /\ sn < nxt + wnd
                                /\ sn < l1
                                /\ buf[sn] = h1[sn + 1]
  BY DEF Holds
<1>2. lq \in Nat
  OBVIOUS
<1> HIDE DEF lq
<1>3. ASSUME NEW i \in 1..lq PROVE queue[i] = h2[base + i]
  <2>1. /\ base + i - 1 \in Nat
        /\ base + i - 1 < l1
        /\ (base + i - 1) + 1 = base + i
    BY <1>1, <1>2
  <2>2. h1[(base + i - 1) + 1] = h2[(base + i - 1) + 1]
    BY <2>1
  <2> QED BY <1>1, <2>1, <2>2
<1>4. ASSUME NEW sn \in DOMAIN buf PROVE sn < l2 /\ buf[sn] = h2[sn + 1]
  BY <1>1
<1>5. nxt <= l2
  BY <1>1
<1> QED BY <1>1, <1>3, <1>4, <1>5 DEF Holds, lq

LEMMA DataInvNext ==
    TypeOK /\ (\A s \in Peer : SendInv(s) /\ SendInv(s)' /\ DataInv(s)) /\ [Next]_vars
        => \A s \in Peer : DataInv(s)'
<1> SUFFICES ASSUME TypeOK, \A s \in Peer : SendInv(s) /\ SendInv(s)' /\ DataInv(s),
                    [Next]_vars, NEW s \in Peer
             PROVE  DataInv(s)'
  OBVIOUS
<1> DEFINE r == Other(s)
           ld == Len(delivered[r])
<1>1. r \in Peer /\ r # s /\ Other(r) = s
  BY OtherPeer
<1>2. /\ snd_nxt[s] \in Nat
      /\ snd_nxt'[s] \in Nat
      /\ snd_nxt[s] <= snd_nxt'[s]
      /\ \A sn \in Nat : sn < snd_nxt[s] => sent'[s][sn + 1] = sent[s][sn + 1]
  BY SentStays
<1>3. /\ \A m \in net[r] : m.cmd = "PUSH" => /\ m.sn < snd_nxt[s]
                                              /\ m.seg = sent[s][m.sn + 1]
      /\ Holds(sent[s], snd_nxt[s], RcvWnd[r], ld, rcv_queue[r], rcv_buf[r], rcv_nxt[r])
      /\ \A i \in 1..ld : delivered[r][i] = sent[s][i]
      /\ rcv_nxt[r] \in DOMAIN rcv_buf[r] => Len(rcv_queue[r]) >= RcvWnd[r]
  BY DEF DataInv
<1> HIDE DEF r
<1>4. /\ delivered[r] \in Seq(Segment)
      /\ rcv_queue[r] \in Seq(Segment)
      /\ ld \in Nat
      /\ rcv_nxt[r] \in Nat
      /\ DOMAIN rcv_buf[r] \subseteq Nat
      /\ rcv_buf[r] \in [DOMAIN rcv_buf[r] -> Segment]
      /\ RcvWnd[r] \in Nat
  BY <1>1, ReceiverTypes
<1> HIDE DEF ld
\* What was so remains so of sent' and snd_nxt'.
<1>5. ASSUME NEW m \in net[r], m.cmd = "PUSH"
      PROVE  m.sn < snd_nxt'[s] /\ m.seg = sent'[s][m.sn + 1]
  <2>1. m.sn \in Nat /\ m.sn < snd_nxt[s] /\ m.seg = sent[s][m.sn + 1]
    BY <1>1, <1>3, <1>5, NetTypes
  <2> QED BY <1>2, <2>1
<1>6. Holds(sent'[s], snd_nxt'[s], RcvWnd[r], ld, rcv_queue[r], rcv_buf[r], rcv_nxt[r])
  BY <1>2, <1>3, <1>4, HoldsStays
<1>7. \A i \in 1..ld : delivered[r][i] = sent'[s][i]
  <2> DEFINE lq == Len(rcv_queue[r])
  <2>1. lq \in Nat /\ ld + lq = rcv_nxt[r] /\ rcv_nxt[r] <= snd_nxt[s]
    BY <1>3, <1>4 DEF Holds
  <2> HIDE DEF lq
  <2>2. ASSUME NEW i \in 1..ld PROVE delivered[r][i] = sent'[s][i]
    <3>1. i - 1 \in Nat /\ i - 1 < snd_nxt[s] /\ (i - 1) + 1 = i
      BY <1>2, <1>4, <2>1
    <3>2. sent'[s][(i - 1) + 1] = sent[s][(i - 1) + 1]
      BY <1>2, <3>1
    <3> QED BY <1>3, <3>1, <3>2
  <2> QED BY <2>2
<1>8. ASSUME rcv_queue'[r] = rcv_queue[r], rcv_buf'[r] = rcv_buf[r],
             rcv_nxt'[r] = rcv_nxt[r], delivered'[r] = delivered[r],
             \A m \in net'[r] : m \in net[r] \/ (m.cmd = "PUSH" =>
                                   m.sn < snd_nxt'[s] /\ m.seg = sent'[s][m.sn + 1])
      PROVE  DataInv(s)'
  BY <1>3, <1>5, <1>6, <1>7, <1>8 DEF DataInv, r, ld
<1>9. ASSUME NEW p \in Peer, Send(p) PROVE DataInv(s)'
  BY <1>1, <1>8, <1>9 DEF Send, rcvVars
<1>10. ASSUME NEW p \in Peer, Flush(p) PROVE DataInv(s)'
  <2>1. UNCHANGED <<rcv_queue, rcv_buf, rcv_nxt, delivered>>
    BY <1>10 DEF Flush, FlushWith
  <2>2. PICK k \in Nat : Flushed(p, k)
    BY <1>10, FlushEffect
  <2>3. CASE p = s
    <3>1. \A m \in net'[r] : m \in net[r] \/ Describes(s, m, snd_buf'[s])
      BY <2>2, <2>3 DEF Flushed, r
    <3>2. ASSUME NEW m, Describes(s, m, snd_buf'[s]), m.cmd = "PUSH"
          PROVE  m.sn < snd_nxt'[s] /\ m.seg = sent'[s][m.sn + 1]
      <4>1. m.sn \in DOMAIN snd_buf'[s] /\ m.seg = snd_buf'[s][m.sn]
        BY <3>2 DEF Describes
      <4> QED BY <4>1 DEF SendInv
    <3> QED BY <1>8, <2>1, <3>1, <3>2
  <2>4. CASE p # s
    <3>1. net'[r] = net[r]
      <4>1. r # Other(p)
        BY <1>1, <2>4, OtherPeer
      <4> QED BY <1>1, <2>2, <4>1 DEF Flushed
    <3> QED BY <1>8, <2>1, <3>1
  <2> QED BY <2>3, <2>4
<1>11. ASSUME NEW p \in Peer, NEW m \in net[p], Input(p, m) PROVE DataInv(s)'
  <2>1. /\ delivered' = delivered
        /\ \A q \in Peer : net'[q] \subseteq net[q]
    BY <1>11 DEF Input, Consume, TypeOK
  <2>2. CASE UNCHANGED <<rcv_queue, rcv_buf, rcv_nxt>>
    BY <1>1, <1>8, <2>1, <2>2
  <2>3. CASE InputPush(p, m) /\ InRcvWindow(p, m.sn)
    <3> DEFINE buf == Insert(rcv_buf[p], m.sn, m.seg)
    <3>1. PICK k \in Nat : Moved(p, rcv_queue[p], buf, k)
      BY <2>3, PushEffect DEF InputPush
    <3>2. CASE p # r
      <4>1. /\ rcv_queue'[r] = rcv_queue[r]
            /\ rcv_buf'[r] = rcv_buf[r]
            /\ rcv_nxt'[r] = rcv_nxt[r]
        BY <1>1, <3>1, <3>2 DEF Moved, TypeOK
      <4> QED BY <1>1, <1>8, <2>1, <4>1
    <3>3. CASE p = r
      <4>1. m.sn \in Nat /\ m.seg \in Segment /\ m.cmd = "PUSH"
        BY <2>3, NetTypes DEF InputPush
      <4>2. /\ m.sn < snd_nxt'[s]
            /\ m.seg = sent'[s][m.sn + 1]
            /\ rcv_nxt[r] <= m.sn
            /\ m.sn < rcv_nxt[r] + RcvWnd[r]
        BY <1>4, <1>5, <2>3, <3>3, <4>1 DEF InRcvWindow
      <4>3. /\ DOMAIN buf = DOMAIN rcv_buf[r] \cup {m.sn}
            /\ DOMAIN buf \subseteq Nat
            /\ \A x \in DOMAIN rcv_buf[r] : buf[x] = rcv_buf[r][x]
            /\ m.sn \notin DOMAIN rcv_buf[r] => buf[m.sn] = m.seg
        BY <1>4, <3>3, <4>1 DEF Insert
      <4> HIDE DEF buf
      <4>4. Holds(sent'[s], snd_nxt'[s], RcvWnd[r], ld, rcv_queue[r], buf, rcv_nxt[r])
        BY <1>6, <4>2, <4>3 DEF Holds
      <4>5. Moved(r, rcv_queue[r], buf, k)
        BY <3>1, <3>3
      <4>6. /\ Holds(sent'[s], snd_nxt'[s], RcvWnd[r], ld,
                     rcv_queue'[r], rcv_buf'[r], rcv_nxt'[r])
            /\ rcv_nxt'[r] \in DOMAIN rcv_buf'[r] => Len(rcv_queue'[r]) >= RcvWnd[r]
        BY <1>1, <1>2, <1>4, <4>3, <4>4, <4>5, MovedData
      <4>7. \A x \in net'[r] : x.cmd = "PUSH" =>
                 x.sn < snd_nxt'[s] /\ x.seg = sent'[s][x.sn + 1]
        BY <1>1, <1>5, <2>1
      <4> QED BY <1>7, <2>1, <4>6, <4>7 DEF DataInv, r, ld
    <3> QED BY <3>2, <3>3
  <2> QED BY <1>11, <2>2, <2>3 DEF Input, InputAck, InputWask, InputWins, InputPush, rcvVars
<1>12. ASSUME NEW p \in Peer, Recv(p) PROVE DataInv(s)'
  <2>1. net' = net
    BY <1>12 DEF Recv
  <2>2. PICK j \in 1..Len(rcv_queue[p]), k \in Nat : Received(p, j, k)
    BY <1>12, RecvEffect
  <2> DEFINE rest == SubSeq(rcv_queue[p], j + 1, Len(rcv_queue[p]))
             lq == Len(rcv_queue[p])
  <2>3. /\ Moved(p, rest, rcv_buf[p], k)
        /\ Len(rest) = lq - j
        /\ \A i \in 1..(lq - j) : rest[i] = rcv_queue[p][j + i]
        /\ \A q \in Peer \ {p} : delivered'[q] = delivered[q]
        /\ Len(delivered'[p]) = Len(delivered[p]) + j
        /\ \A i \in 1..Len(delivered[p]) : delivered'[p][i] = delivered[p][i]
        /\ \A i \in 1..j : delivered'[p][Len(delivered[p]) + i] = rcv_queue[p][i]
    BY <2>2 DEF Received
  <2>4. j \in 1..lq /\ lq \in Nat
    BY ReceiverTypes
  <2>5. rest \in Seq(Segment)
    BY <2>4, ReceiverTypes
  <2> HIDE DEF rest
  <2>6. CASE p # r
    <3>1. /\ rcv_queue'[r] = rcv_queue[r]
          /\ rcv_buf'[r] = rcv_buf[r]
          /\ rcv_nxt'[r] = rcv_nxt[r]
          /\ delivered'[r] = delivered[r]
      BY <1>1, <2>3, <2>6 DEF Moved, TypeOK
    <3> QED BY <1>8, <2>1, <3>1
  <2>7. CASE p = r
    <3>1. /\ ld + lq = rcv_nxt[r]
          /\ rcv_nxt[r] <= snd_nxt'[s]
          /\ lq <= RcvWnd[r]
          /\ \A i \in 1..lq : rcv_queue[r][i] = sent'[s][ld + i]
          /\ \A sn \in DOMAIN rcv_buf[r] : /\ rcv_nxt[r] <= sn
                                           /\ sn < rcv_nxt[r] + RcvWnd[r]
                                           /\ sn < snd_nxt'[s]
                                           /\ rcv_buf[r][sn] = sent'[s][sn + 1]
      BY <1>6, <2>7 DEF Holds
    <3> HIDE DEF lq
    <3>2. /\ (ld + j) + (lq - j) = rcv_nxt[r]
          /\ lq - j <= RcvWnd[r]
      BY <1>4, <2>4, <3>1
    <3>3. ASSUME NEW i \in 1..(lq - j) PROVE rest[i] = sent'[s][(ld + j) + i]
      <4>1. j + i \in 1..lq /\ ld + (j + i) = (ld + j) + i
        BY <1>4, <2>4
      <4> QED BY <2>3, <2>7, <3>1, <4>1
    <3>4. Holds(sent'[s], snd_nxt'[s], RcvWnd[r], ld + j, rest, rcv_buf[r], rcv_nxt[r])
      BY <2>3, <3>1, <3>2, <3>3 DEF Holds
    <3>5. /\ Holds(sent'[s], snd_nxt'[s], RcvWnd[r], ld + j,
                   rcv_queue'[r], rcv_buf'[r], rcv_nxt'[r])
          /\ rcv_nxt'[r] \in DOMAIN rcv_buf'[r] => Len(rcv_queue'[r]) >= RcvWnd[r]
      <4>1. Moved(r, rest, rcv_buf[r], k) /\ ld + j \in Nat
        BY <1>4, <2>3, <2>4, <2>7
      <4> QED BY <1>1, <1>2, <1>4, <2>5, <3>4, <4>1, MovedData
    <3>6. ASSUME NEW i \in 1..(ld + j) PROVE delivered'[r][i] = sent'[s][i]
      <4>1. CASE i \in 1..ld
        BY <1>7, <2>3, <2>7, <4>1 DEF ld
      <4>2. CASE i \notin 1..ld
        <5> DEFINE x == i - ld
        <5>1. x \in 1..j /\ x \in 1..lq /\ ld + x = i
          BY <1>4, <2>4, <4>2
        <5> HIDE DEF x
        <5>2. delivered'[r][ld + x] = rcv_queue[r][x]
          BY <2>3, <2>7, <5>1 DEF ld
        <5> QED BY <3>1, <5>1, <5>2
      <4> QED BY <4>1, <4>2
    <3>7. Len(delivered'[r]) = ld + j
      BY <2>3, <2>7 DEF ld
    <3>8. \A x \in net'[r] : x.cmd = "PUSH" =>
              x.sn < snd_nxt'[s] /\ x.seg = sent'[s][x.sn + 1]
      BY <1>5, <2>1
    <3> QED BY <3>5, <3>6, <3>7, <3>8 DEF DataInv, r
  <2> QED BY <2>6, <2>7
<1>13. CASE UNCHANGED vars
  BY <1>8, <1>13 DEF vars, rcvVars
<1> QED BY <1>9, <1>10, <1>11, <1>12, <1>13 DEF Next

LEMMA AckInvInit == Init => \A s \in Peer : AckInv(s)
BY OtherPeer DEF Init, AckInv, Empty

\* What a receiver has it keeps.
LEMMA HasStays ==
    ASSUME TypeOK, \A s \in Peer : DataInv(s), [Next]_vars, NEW r \in Peer
    PROVE  /\ rcv_nxt[r] \in Nat
           /\ rcv_nxt'[r] \in Nat
           /\ rcv_nxt[r] <= rcv_nxt'[r]
           /\ \A sn \in Nat : Has(r, sn) => Has(r, sn)'
<1>1. /\ rcv_nxt[r] \in Nat
      /\ DOMAIN rcv_buf[r] \subseteq Nat
      /\ TypeOK'
  BY TypeNext DEF TypeOK
<1>2. ASSUME rcv_nxt'[r] = rcv_nxt[r], rcv_buf'[r] = rcv_buf[r]
      PROVE  /\ rcv_nxt[r] <= rcv_nxt'[r]
             /\ \A sn \in Nat : Has(r, sn) => Has(r, sn)'
  BY <1>1, <1>2 DEF Has
<1>3. ASSUME NEW queue, NEW buf, NEW k \in Nat, Moved(r, queue, buf, k),
             DOMAIN rcv_buf[r] \subseteq DOMAIN buf
      PROVE  /\ rcv_nxt[r] <= rcv_nxt'[r]
             /\ \A sn \in Nat : Has(r, sn) => Has(r, sn)'
  <2>1. /\ rcv_nxt'[r] = rcv_nxt[r] + k
        /\ DOMAIN rcv_buf'[r] = {sn \in DOMAIN buf :
                                    sn \notin rcv_nxt[r]..(rcv_nxt[r] + k - 1)}
    BY <1>3 DEF Moved, TypeOK
  <2>2. ASSUME NEW sn \in Nat, Has(r, sn) PROVE Has(r, sn)'
    <3>1. CASE sn < rcv_nxt[r] + k
      BY <2>1, <3>1 DEF Has
    <3>2. CASE ~(sn < rcv_nxt[r] + k)
      <4>1. sn \in DOMAIN buf /\ sn \notin rcv_nxt[r]..(rcv_nxt[r] + k - 1)
        BY <1>1, <1>3, <2>2, <3>2 DEF Has
      <4> QED BY <2>1, <4>1 DEF Has
    <3> QED BY <3>1, <3>2
  <2> QED BY <1>1, <2>1, <2>2
<1>4. ASSUME NEW p \in Peer, Send(p) \/ Flush(p)
      PROVE  rcv_nxt' = rcv_nxt /\ rcv_buf' = rcv_buf
  BY <1>4 DEF Send, Flush, FlushWith, rcvVars
<1>5. ASSUME NEW p \in Peer, NEW m \in net[p], Input(p, m)
      PROVE  /\ rcv_nxt[r] <= rcv_nxt'[r]
             /\ \A sn \in Nat : Has(r, sn) => Has(r, sn)'
  <2>1. CASE UNCHANGED <<rcv_nxt, rcv_buf>>
    BY <1>2, <2>1
  <2>2. CASE InputPush(p, m) /\ InRcvWindow(p, m.sn)
    <3>1. PICK k \in Nat :
            Moved(p, rcv_queue[p], Insert(rcv_buf[p], m.sn, m.seg), k)
      BY <2>2, PushEffect DEF InputPush
    <3>2. CASE p = r
      <4>1. DOMAIN rcv_buf[r] \subseteq DOMAIN Insert(rcv_buf[p], m.sn, m.seg)
        BY <3>2 DEF Insert
      <4> QED BY <1>3, <3>1, <3>2, <4>1
    <3>3. CASE p # r
      <4>1. rcv_nxt'[r] = rcv_nxt[r] /\ rcv_buf'[r] = rcv_buf[r]
        BY <3>1, <3>3 DEF Moved, TypeOK
      <4> QED BY <1>2, <4>1
    <3> QED BY <3>2, <3>3
  <2> QED BY <1>5, <2>1, <2>2 DEF Input, InputAck, InputWask, InputWins, InputPush, rcvVars
<1>6. ASSUME NEW p \in Peer, Recv(p)
      PROVE  /\ rcv_nxt[r] <= rcv_nxt'[r]
             /\ \A sn \in Nat : Has(r, sn) => Has(r, sn)'
  <2>1. PICK j \in 1..Len(rcv_queue[p]), k \in Nat : Received(p, j, k)
    BY <1>6, RecvEffect
  <2> DEFINE rest == SubSeq(rcv_queue[p], j + 1, Len(rcv_queue[p]))
  <2>2. Moved(p, rest, rcv_buf[p], k)
    BY <2>1 DEF Received
  <2> HIDE DEF rest
  <2>3. CASE p = r
    BY <1>3, <2>2, <2>3
  <2>4. CASE p # r
    <3>1. rcv_nxt'[r] = rcv_nxt[r] /\ rcv_buf'[r] = rcv_buf[r]
      BY <2>2, <2>4 DEF Moved, TypeOK
    <3> QED BY <1>2, <3>1
  <2> QED BY <2>3, <2>4
<1>7. ASSUME UNCHANGED vars
      PROVE  /\ rcv_nxt[r] <= rcv_nxt'[r]
             /\ \A sn \in Nat : Has(r, sn) => Has(r, sn)'
  BY <1>2, <1>7 DEF vars, rcvVars
<1>8. rcv_nxt'[r] \in Nat
  BY <1>1 DEF TypeOK
<1>9. ASSUME NEW p \in Peer, Send(p) \/ Flush(p)
      PROVE  /\ rcv_nxt[r] <= rcv_nxt'[r]
             /\ \A sn \in Nat : Has(r, sn) => Has(r, sn)'
  BY <1>2, <1>4, <1>9
<1> QED BY <1>1, <1>5, <1>6, <1>7, <1>8, <1>9 DEF Next

LEMMA AckInvNext ==
    TypeOK /\ (\A s \in Peer : SendInv(s) /\ DataInv(s) /\ AckInv(s)) /\ [Next]_vars
        => \A s \in Peer : AckInv(s)'
<1> SUFFICES ASSUME TypeOK, [Next]_vars,
                    \A s \in Peer : SendInv(s) /\ DataInv(s) /\ AckInv(s),
                    NEW s \in Peer
             PROVE  AckInv(s)'
  OBVIOUS
<1> DEFINE r == Other(s)
<1>1. r \in Peer /\ r # s /\ Other(r) = s
  BY OtherPeer
<1>2. /\ \A sn \in acklist[r] : Has(r, sn)
      /\ \A m \in net[s] : /\ m.una <= rcv_nxt[r]
                           /\ m.cmd = "ACK" => Has(r, m.sn)
      /\ \A sn \in 0..(snd_nxt[s] - 1) : sn \in DOMAIN snd_buf[s] \/ Has(r, sn)
  BY DEF AckInv
<1> HIDE DEF r
<1>3. /\ rcv_nxt[r] \in Nat
      /\ rcv_nxt'[r] \in Nat
      /\ rcv_nxt[r] <= rcv_nxt'[r]
      /\ \A sn \in Nat : Has(r, sn) => Has(r, sn)'
  BY <1>1, HasStays
<1>4. acklist[r] \subseteq Nat /\ snd_nxt[s] \in Nat
  BY <1>1 DEF TypeOK
\* What was true of the acknowledgements remains true.
<1>5. \A sn \in acklist[r] : Has(r, sn)'
  BY <1>2, <1>3, <1>4
<1>6. ASSUME NEW m \in net[s]
      PROVE  m.una <= rcv_nxt'[r] /\ (m.cmd = "ACK" => Has(r, m.sn)')
  BY <1>2, <1>3, NetTypes
<1>7. \A sn \in 0..(snd_nxt[s] - 1) : sn \in DOMAIN snd_buf[s] \/ Has(r, sn)'
  BY <1>2, <1>3
<1>8. ASSUME acklist'[r] \subseteq acklist[r], net'[s] \subseteq net[s],
             snd_nxt'[s] = snd_nxt[s], snd_buf'[s] = snd_buf[s]
      PROVE  AckInv(s)'
  BY <1>5, <1>6, <1>7, <1>8 DEF AckInv, r
<1>9. ASSUME NEW p \in Peer, Send(p) PROVE AckInv(s)'
  BY <1>8, <1>9 DEF Send, rcvVars
<1>10. ASSUME NEW p \in Peer, Flush(p) PROVE AckInv(s)'
  <2>1. PICK k \in Nat : Flushed(p, k)
    BY <1>10, FlushEffect
  <2>2. acklist'[r] \subseteq acklist[r] /\ rcv_nxt' = rcv_nxt
    BY <1>1, <1>10 DEF Flush, FlushWith, TypeOK
  <2>3. CASE p = s
    <3>1. net'[s] = net[s]
      BY <1>1, <2>1, <2>3 DEF Flushed, r
    <3>2. /\ DOMAIN snd_buf'[s] = DOMAIN snd_buf[s] \cup (snd_nxt[s]..(snd_nxt[s] + k - 1))
          /\ snd_nxt'[s] = snd_nxt[s] + k
      BY <2>1, <2>3 DEF Flushed, TypeOK
    <3>3. ASSUME NEW sn \in 0..(snd_nxt'[s] - 1)
          PROVE  sn \in DOMAIN snd_buf'[s] \/ Has(r, sn)'
      <4>1. sn \in 0..(snd_nxt[s] - 1) \/ sn \in snd_nxt[s]..(snd_nxt[s] + k - 1)
        BY <1>4, <3>2
      <4> QED BY <1>7, <3>2, <4>1
    <3> QED BY <1>5, <1>6, <2>2, <3>1, <3>3 DEF AckInv, r
  <2>4. CASE p # s
    <3>1. p = r
      BY <1>1, <2>4 DEF Peer, Other, r
    <3>2. snd_nxt'[s] = snd_nxt[s] /\ snd_buf'[s] = snd_buf[s]
      BY <2>1, <2>4 DEF Flushed, TypeOK
    <3>3. ASSUME NEW m \in net'[s]
          PROVE  m.una <= rcv_nxt'[r] /\ (m.cmd = "ACK" => Has(r, m.sn)')
      <4>1. m \in net[s] \/ Describes(r, m, snd_buf'[r])
        BY <1>1, <2>1, <3>1 DEF Flushed
      <4>2. CASE Describes(r, m, snd_buf'[r])
        BY <1>3, <1>5, <2>2, <4>2 DEF Describes
      <4> QED BY <1>6, <4>1, <4>2
    <3> QED BY <1>5, <1>7, <2>2, <3>2, <3>3 DEF AckInv, r
  <2> QED BY <2>3, <2>4
<1>11. ASSUME NEW p \in Peer, NEW m \in net[p], Input(p, m) PROVE AckInv(s)'
  <2>1. Acknowledged(p, m)
    BY <1>11, AcknowledgeEffect DEF Input, InputAck, InputWask, InputWins, InputPush
  <2>2. \A q \in Peer : net'[q] \subseteq net[q]
    BY <1>11 DEF Input, Consume, TypeOK
  <2>3. \A x \in net'[s] : x.una <= rcv_nxt'[r] /\ (x.cmd = "ACK" => Has(r, x.sn)')
    BY <1>6, <2>2
  <2>4. snd_nxt' = snd_nxt
    BY <2>1 DEF Acknowledged
  <2>5. \A sn \in acklist'[r] : Has(r, sn)'
    <3>1. CASE acklist' = acklist
      BY <1>5, <3>1
    <3>2. CASE InputPush(p, m)
      <4>1. CASE p # r
        <5>1. acklist'[r] = acklist[r]
          BY <1>1, <3>2, <4>1 DEF InputPush, TypeOK
        <5> QED BY <1>5, <5>1
      <4>2. CASE p = r /\ ~ToAck(r, m.sn)
        <5>1. acklist'[r] = acklist[r]
          BY <1>1, <3>2, <4>2 DEF InputPush, TypeOK
        <5> QED BY <1>5, <5>1
      <4>3. CASE p = r /\ ToAck(r, m.sn)
        <5>1. acklist'[r] = acklist[r] \cup {m.sn} /\ m.sn \in Nat
          BY <1>1, <3>2, <4>3, NetTypes DEF InputPush, TypeOK
        <5>2. CASE m.sn < rcv_nxt[r]
          BY <1>3, <1>5, <5>1, <5>2 DEF Has
        <5>3. CASE ~(m.sn < rcv_nxt[r])
          <6>1. InRcvWindow(p, m.sn)
            BY <1>1, <1>3, <4>3, <5>1, <5>3, ReceiverTypes DEF InRcvWindow, ToAck
          <6>2. PICK k \in Nat :
                  Moved(p, rcv_queue[p], Insert(rcv_buf[p], m.sn, m.seg), k)
            BY <3>2, <6>1, PushEffect DEF InputPush
          <6>3. /\ rcv_nxt'[r] = rcv_nxt[r] + k
                /\ DOMAIN rcv_buf'[r] =
                     {sn \in DOMAIN Insert(rcv_buf[r], m.sn, m.seg) :
                         sn \notin rcv_nxt[r]..(rcv_nxt[r] + k - 1)}
            BY <1>1, <4>3, <6>2 DEF Moved, TypeOK
          <6>4. m.sn \in DOMAIN Insert(rcv_buf[r], m.sn, m.seg)
            BY DEF Insert
          <6>5. m.sn < rcv_nxt'[r] \/ m.sn \in DOMAIN rcv_buf'[r]
            BY <1>3, <5>1, <6>3, <6>4
          <6> QED BY <1>5, <5>1, <6>5 DEF Has
        <5> QED BY <5>2, <5>3
      <4> QED BY <4>1, <4>2, <4>3
    <3> QED BY <1>11, <3>1, <3>2 DEF Input, InputAck, InputWask, InputWins, rcvVars
  <2>6. ASSUME NEW sn \in 0..(snd_nxt[s] - 1)
        PROVE  sn \in DOMAIN snd_buf'[s] \/ Has(r, sn)'
    <3>1. CASE p # s
      BY <1>7, <2>1, <3>1 DEF Acknowledged
    <3>2. CASE p = s
      <4>1. DOMAIN snd_buf'[s] = Unacked(s, m)
        BY <2>1, <3>2 DEF Acknowledged
      <4>2. /\ m.una \in Nat
            /\ m.una <= rcv_nxt'[r]
            /\ m.cmd = "ACK" => Has(r, m.sn)'
        BY <1>6, <3>2, NetTypes
      <4>3. CASE sn \in DOMAIN snd_buf[s]
        <5>1. CASE sn < m.una
          BY <1>3, <4>2, <5>1 DEF Has
        <5>2. CASE m.cmd = "ACK" /\ m.sn = sn
          BY <4>2, <5>2
        <5>3. CASE ~(sn < m.una) /\ ~(m.cmd = "ACK" /\ m.sn = sn)
          BY <4>1, <4>2, <4>3, <5>3 DEF Unacked
        <5> QED BY <5>1, <5>2, <5>3
      <4>4. CASE sn \notin DOMAIN snd_buf[s]
        BY <1>7, <4>4
      <4> QED BY <4>3, <4>4
    <3> QED BY <3>1, <3>2
  <2> QED BY <2>3, <2>4, <2>5, <2>6 DEF AckInv, r
<1>12. ASSUME NEW p \in Peer, Recv(p) PROVE AckInv(s)'
  BY <1>8, <1>12 DEF Recv, sndVars
<1>13. CASE UNCHANGED vars
  BY <1>8, <1>13 DEF vars, sndVars, rcvVars
<1> QED BY <1>9, <1>10, <1>11, <1>12, <1>13 DEF Next

-----------------------------------------------------------------------------
(* Whole messages *)

LEMMA WholeAppend ==
    ASSUME NEW hist \in Seq(Segment), NEW new \in Seq(Segment),
           NEW d, NEW n \in Nat,
           SendAccepts(n), Whole(hist),
           Len(new) = Len(hist) + n,
           \A i \in 1..Len(hist) : new[i] = hist[i],
           \A i \in 1..n : new[Len(hist) + i] = [frg |-> n - i, data |-> d]
    PROVE  Whole(new)
<1> DEFINE l == Len(hist)
<1>1. l \in Nat
  OBVIOUS
<1>2. Len(new) = l + n
  OBVIOUS
<1>3. ASSUME NEW i \in 1..l PROVE hist[i].frg \in Nat
  <2>1. hist[i] \in Segment
    OBVIOUS
  <2> QED BY <2>1 DEF Segment
<1>4. \A i \in 1..l : new[i] = hist[i]
  OBVIOUS
<1>5. ASSUME NEW i \in 1..n PROVE new[l + i].frg = n - i
  <2>1. new[l + i] = [frg |-> n - i, data |-> d]
    OBVIOUS
  <2> QED BY <2>1
<1>6. \A i \in 1..l : /\ hist[i].frg + 1 < WndRcv
                      /\ \A j \in 0..hist[i].frg : /\ i + j <= l
                                                   /\ hist[i + j].frg = hist[i].frg - j
  BY DEF Whole
<1> HIDE DEF l
<1>7. ASSUME NEW i \in 1..(l + n)
      PROVE  /\ new[i].frg + 1 < WndRcv
             /\ \A j \in 0..new[i].frg : /\ i + j <= l + n
                                         /\ new[i + j].frg = new[i].frg - j
  <2>1. CASE i \in 1..l
    <3>1. ASSUME NEW j \in 0..hist[i].frg
          PROVE  i + j <= l + n /\ new[i + j].frg = hist[i].frg - j
      <4>1. i + j <= l /\ hist[i + j].frg = hist[i].frg - j
        BY <1>6, <2>1
      <4>2. i + j \in 1..l
        BY <1>1, <1>3, <2>1, <4>1
      <4> QED BY <1>1, <1>4, <4>1, <4>2
    <3> QED BY <1>4, <1>6, <2>1, <3>1
  <2>2. CASE i \notin 1..l
    <3> DEFINE x == i - l
    <3>1. x \in 1..n /\ i = l + x
      BY <1>1, <2>2
    <3> HIDE DEF x
    <3>2. new[i].frg = n - x
      BY <1>5, <3>1
    <3>3. n - x + 1 < WndRcv
      BY <3>1, ArqAssumption DEF SendAccepts
    <3>4. ASSUME NEW j \in 0..(n - x)
          PROVE  i + j <= l + n /\ new[i + j].frg = (n - x) - j
      <4>1. x + j \in 1..n /\ i + j = l + (x + j)
        BY <1>1, <3>1
      <4>2. new[l + (x + j)].frg = n - (x + j)
        BY <1>5, <4>1
      <4> QED BY <1>1, <3>1, <4>1, <4>2
    <3> QED BY <3>2, <3>3, <3>4
  <2> QED BY <2>1, <2>2
<1> QED BY <1>2, <1>7 DEF Whole

\* In a queue of whole messages the merge loop of ikcp_recv ends at the end of
\* the first one, never at the end of the queue.
LEMMA MergeWhole ==
    ASSUME NEW hist \in Seq(Segment), NEW queue \in Seq(Segment), NEW base \in Nat,
           NEW j \in 1..Len(queue),
           Whole(hist), base + Len(queue) <= Len(hist),
           \A i \in 1..Len(queue) : queue[i] = hist[base + i],
           PeekReady(queue), MergeEnds(queue, j)
    PROVE  EndsFirstMessage(queue, j)
<1> DEFINE lq == Len(queue)
           f == queue[1].frg
<1>1. lq \in Nat /\ lq >= 1 /\ f \in Nat
  <2>1. lq \in Nat /\ lq >= 1
    BY LenProperties
  <2>2. queue[1] \in Segment
    BY <2>1, ElementOfSeq
  <2> QED BY <2>1, <2>2 DEF Segment
<1>2. f = 0 \/ lq >= f + 1
  BY DEF PeekReady
<1>3. queue[1] = hist[base + 1] /\ base + 1 \in 1..Len(hist)
  BY <1>1
<1>4. \A x \in 0..f : hist[(base + 1) + x].frg = f - x
  BY <1>3 DEF Whole
<1>5. \A i \in 1..lq : queue[i] = hist[base + i]
  OBVIOUS
<1> HIDE DEF lq, f
<1>6. lq >= f + 1
  BY <1>1, <1>2
<1>7. hist[(base + 1) + f].frg = f - f
  <2>1. f \in 0..f
    BY <1>1
  <2> QED BY <1>4, <2>1
<1>8. f + 1 \in 1..lq /\ base + (f + 1) = (base + 1) + f
  BY <1>1, <1>6
<1>9. queue[f + 1].frg = 0
  BY <1>1, <1>5, <1>7, <1>8
<1> QED BY <1>8, <1>9 DEF MergeEnds, lq

LEMMA MessageInvInit == Init => \A s \in Peer : MessageInv(s)
BY OtherPeer DEF Init, MessageInv, Whole

\* A call of ikcp_recv hands over one whole message.
LEMMA ReceivesMessage ==
    ASSUME IInv, NEW p \in Peer, NEW j \in 1..Len(rcv_queue[p]), NEW k \in Nat,
           Received(p, j, k)
    PROVE  /\ EndsFirstMessage(rcv_queue[p], j)
           /\ Len(delivered[p]) + Len(rcv_queue[p]) <= Len(sent[Other(p)])
           /\ \A i \in 1..Len(rcv_queue[p]) :
                 rcv_queue[p][i] = sent[Other(p)][Len(delivered[p]) + i]
<1> DEFINE s == Other(p)
           lq == Len(rcv_queue[p])
           ld == Len(delivered[p])
           ls == Len(sent[s])
<1>1. s \in Peer /\ Other(s) = p
  BY OtherPeer
<1>2. TypeOK /\ SendInv(s) /\ DataInv(s) /\ MessageInv(s)
  BY <1>1 DEF IInv
<1>3. /\ lq \in Nat
      /\ ld \in Nat
      /\ ls \in Nat
      /\ snd_nxt[s] \in Nat
      /\ Len(snd_queue[s]) \in Nat
      /\ rcv_queue[p] \in Seq(Segment)
      /\ sent[s] \in Seq(Segment)
  BY <1>1, <1>2, Sequences
<1>4. /\ ld + lq <= snd_nxt[s]
      /\ \A i \in 1..lq : rcv_queue[p][i] = sent[s][ld + i]
  BY <1>1, <1>2 DEF DataInv, Holds
<1>5. snd_nxt[s] + Len(snd_queue[s]) = ls
  BY <1>2 DEF SendInv
<1>6. Whole(sent[s])
  BY <1>2 DEF MessageInv
<1>7. PeekReady(rcv_queue[p]) /\ MergeEnds(rcv_queue[p], j)
  BY DEF Received
<1>8. ld + lq <= ls
  <2> DEFINE lsq == Len(snd_queue[s])
  <2>1. lsq \in Nat /\ snd_nxt[s] + lsq = ls
    BY <1>3, <1>5
  <2> HIDE DEF lsq, ls, ld, lq
  <2> QED BY <1>3, <1>4, <2>1
<1>9. EndsFirstMessage(rcv_queue[p], j)
  BY <1>3, <1>4, <1>6, <1>7, <1>8, MergeWhole
<1> QED BY <1>4, <1>8, <1>9

LEMMA MessageInvNext ==
    IInv /\ [Next]_vars => \A s \in Peer : MessageInv(s)'
<1> SUFFICES ASSUME IInv, [Next]_vars, NEW s \in Peer
             PROVE  MessageInv(s)'
  OBVIOUS
<1> DEFINE r == Other(s)
<1>1. r \in Peer /\ Other(r) = s /\ TypeOK /\ MessageInv(s)
  BY OtherPeer DEF IInv
<1>2. ASSUME sent'[s] = sent[s], delivered'[r] = delivered[r] PROVE MessageInv(s)'
  BY <1>1, <1>2 DEF MessageInv
<1>3. ASSUME NEW p \in Peer, Send(p) PROVE MessageInv(s)'
  <2>1. PICK d \in Data, n \in Nat : Appended(p, d, n)
    BY <1>1, <1>3, SendEffect
  <2>2. delivered' = delivered
    BY <1>3 DEF Send
  <2>3. CASE p # s
    BY <1>2, <2>1, <2>2, <2>3 DEF Appended
  <2>4. CASE p = s
    <3>1. /\ SendAccepts(n)
          /\ sent[s] \in Seq(Segment)
          /\ sent'[s] \in Seq(Segment)
          /\ Len(sent'[s]) = Len(sent[s]) + n
          /\ \A i \in 1..Len(sent[s]) : sent'[s][i] = sent[s][i]
          /\ \A i \in 1..n : sent'[s][Len(sent[s]) + i] = [frg |-> n - i, data |-> d]
      BY <1>1, <2>1, <2>4 DEF Appended, TypeOK
    <3>2. Whole(sent[s])
      BY <1>1 DEF MessageInv
    <3>3. Whole(sent'[s])
      BY <3>1, <3>2, WholeAppend
    <3>4. Whole(sent[s])'
      BY <3>3 DEF Whole
    <3> QED BY <1>1, <2>2, <3>4 DEF MessageInv
  <2> QED BY <2>3, <2>4
<1>4. ASSUME NEW p \in Peer, Flush(p) PROVE MessageInv(s)'
  BY <1>2, <1>4 DEF Flush, FlushWith
<1>5. ASSUME NEW p \in Peer, NEW m \in net[p], Input(p, m) PROVE MessageInv(s)'
  BY <1>2, <1>5 DEF Input
<1>6. ASSUME NEW p \in Peer, Recv(p) PROVE MessageInv(s)'
  <2>1. sent' = sent
    BY <1>6 DEF Recv
  <2>2. PICK j \in 1..Len(rcv_queue[p]), k \in Nat : Received(p, j, k)
    BY <1>1, <1>6, RecvEffect
  <2>3. CASE p # r
    BY <1>1, <1>2, <2>1, <2>2, <2>3 DEF Received
  <2>4. CASE p = r
    <3>1. rcv_queue[r][j].frg = 0
      BY <2>2, <2>4, ReceivesMessage DEF EndsFirstMessage
    <3>2. /\ Len(delivered'[r]) = Len(delivered[r]) + j
          /\ delivered'[r][Len(delivered[r]) + j] = rcv_queue[r][j]
      BY <1>1, <2>2, <2>4, ReceiverTypes DEF Received
    <3>3. delivered'[r][Len(delivered'[r])].frg = 0
      BY <3>1, <3>2
    <3> QED BY <1>1, <2>1, <3>3 DEF MessageInv
  <2> QED BY <2>3, <2>4
<1>7. CASE UNCHANGED vars
  BY <1>2, <1>7 DEF vars
<1> QED BY <1>3, <1>4, <1>5, <1>6, <1>7 DEF Next

-----------------------------------------------------------------------------
(* The safety properties *)

\* The inductive invariant holds in every reachable state of the engine.
THEOREM Invariance == Spec => []IInv
<1>1. Init => IInv
  BY TypeInit, SendInvInit, DataInvInit, AckInvInit, MessageInvInit DEF IInv
<1>2. IInv /\ [Next]_vars => IInv'
  <2> SUFFICES ASSUME IInv, [Next]_vars PROVE IInv'
    OBVIOUS
  <2>1. TypeOK /\ \A s \in Peer : SendInv(s) /\ DataInv(s) /\ AckInv(s)
    BY DEF IInv
  <2>2. TypeOK'
    BY <2>1, TypeNext
  <2>3. \A s \in Peer : SendInv(s)'
    BY <2>1, SendInvNext
  <2>4. \A s \in Peer : DataInv(s)'
    BY <2>1, <2>3, DataInvNext
  <2>5. \A s \in Peer : AckInv(s)'
    BY <2>1, AckInvNext
  <2>6. \A s \in Peer : MessageInv(s)'
    BY MessageInvNext
  <2> QED BY <2>2, <2>3, <2>4, <2>5, <2>6 DEF IInv
<1> QED BY <1>1, <1>2, PTL DEF Spec

LEMMA IInvOf ==
    ASSUME IInv, NEW p \in Peer
    PROVE  /\ TypeOK
           /\ SendInv(p) /\ DataInv(p) /\ AckInv(p) /\ MessageInv(p)
           /\ SendInv(Other(p)) /\ DataInv(Other(p)) /\ MessageInv(Other(p))
           /\ Other(Other(p)) = p
           /\ Other(p) \in Peer
BY OtherPeer DEF IInv

\* Lengths of the histories and of the queues between them.
LEMMA Lengths ==
    ASSUME IInv, NEW p \in Peer
    PROVE  Len(delivered[p]) + Len(rcv_queue[p]) <= Len(sent[Other(p)])
<1> DEFINE s == Other(p)
           lq == Len(rcv_queue[p])
           ld == Len(delivered[p])
           ls == Len(sent[s])
           lsq == Len(snd_queue[s])
<1>1. s \in Peer /\ Other(s) = p /\ TypeOK /\ SendInv(s) /\ DataInv(s)
  BY IInvOf
<1>2. lq \in Nat /\ ld \in Nat /\ ls \in Nat /\ lsq \in Nat /\ snd_nxt[s] \in Nat
  BY <1>1, Sequences
<1>3. ld + lq <= snd_nxt[s]
  BY <1>1 DEF DataInv, Holds
<1>4. snd_nxt[s] + lsq = ls
  BY <1>1 DEF SendInv
<1> HIDE DEF lq, ld, ls, lsq
<1>5. ld + lq <= ls
  BY <1>2, <1>3, <1>4
<1> QED BY <1>5 DEF lq, ld, ls

LEMMA InvInOrder == IInv => InOrder
<1> SUFFICES ASSUME IInv, NEW p \in Peer
             PROVE  LET got == delivered[p] \o rcv_queue[p]
                    IN  /\ Len(got) <= Len(sent[Other(p)])
                        /\ \A i \in 1..Len(got) : got[i] = sent[Other(p)][i]
  BY DEF InOrder
<1> DEFINE s == Other(p)
           q == rcv_queue[p]
           dl == delivered[p]
           lq == Len(q)
           ld == Len(dl)
           got == dl \o q
<1>1. s \in Peer /\ Other(s) = p /\ TypeOK /\ DataInv(s)
  BY IInvOf
<1>2. ld + lq <= Len(sent[s])
  BY Lengths
<1>3. q \in Seq(Segment) /\ dl \in Seq(Segment) /\ lq \in Nat /\ ld \in Nat
  BY <1>1, Sequences
<1>4. /\ \A i \in 1..ld : dl[i] = sent[s][i]
      /\ \A i \in 1..lq : q[i] = sent[s][ld + i]
  BY <1>1 DEF DataInv, Holds
<1>5. /\ Len(got) = ld + lq
      /\ \A i \in 1..ld : got[i] = dl[i]
      /\ \A i \in 1..lq : got[ld + i] = q[i]
  BY <1>3, ConcatElements
<1> HIDE DEF got, ld, lq, q, dl, s
<1>6. ASSUME NEW i \in 1..(ld + lq) PROVE got[i] = sent[s][i]
  <2>1. CASE i \in 1..ld
    BY <1>4, <1>5, <2>1
  <2>2. CASE i \notin 1..ld
    <3> DEFINE x == i - ld
    <3>1. x \in 1..lq /\ ld + x = i
      BY <1>3, <2>2
    <3> HIDE DEF x
    <3> QED BY <1>4, <1>5, <3>1
  <2> QED BY <2>1, <2>2
<1> QED BY <1>2, <1>5, <1>6 DEF got, dl, q, s

\* Whatever the network does, a peer delivers a prefix of what was sent.
THEOREM DeliveredInOrder == Spec => []InOrder
<1> QED BY Invariance, InvInOrder, PTL

LEMMA InvNothingLost == IInv => NothingLost
BY IInvOf DEF NothingLost, AckInv

\* A segment is kept by its sender until the receiver has it.
THEOREM NothingIsLost == Spec => []NothingLost
<1> QED BY Invariance, InvNothingLost, PTL

LEMMA InvNoneStranded == IInv => NoneStranded
<1> SUFFICES ASSUME IInv, NEW p \in Peer
             PROVE  rcv_nxt[p] \in DOMAIN rcv_buf[p] => Len(rcv_queue[p]) >= RcvWnd[p]
  BY DEF NoneStranded
<1> QED BY IInvOf DEF DataInv

\* The next segment in order waits only for room in rcv_queue.
THEOREM NoneIsStranded == Spec => []NoneStranded
<1> QED BY Invariance, InvNoneStranded, PTL

LEMMA InvWithinWindows == IInv => WithinWindows
<1> SUFFICES ASSUME IInv, NEW p \in Peer
             PROVE  /\ snd_nxt[p] - snd_una[p] <= SndWnd[p]
                    /\ DOMAIN snd_buf[p] \subseteq snd_una[p]..(snd_nxt[p] - 1)
                    /\ Len(rcv_queue[p]) <= RcvWnd[p]
                    /\ DOMAIN rcv_buf[p] \subseteq rcv_nxt[p]..(rcv_nxt[p] + RcvWnd[p] - 1)
  BY DEF WithinWindows
<1>1. /\ snd_nxt[p] \in Nat
      /\ snd_una[p] \in Nat
      /\ SndWnd[p] \in Nat
      /\ rcv_nxt[p] \in Nat
      /\ RcvWnd[p] \in Nat
      /\ DOMAIN snd_buf[p] \subseteq Nat
      /\ DOMAIN rcv_buf[p] \subseteq Nat
  BY IInvOf, ArqAssumption DEF TypeOK
<1>2. /\ snd_nxt[p] <= snd_una[p] + SndWnd[p]
      /\ \A sn \in DOMAIN snd_buf[p] : snd_una[p] <= sn /\ sn < snd_nxt[p]
  BY IInvOf DEF SendInv
<1>3. /\ Len(rcv_queue[p]) <= RcvWnd[p]
      /\ \A sn \in DOMAIN rcv_buf[p] : rcv_nxt[p] <= sn /\ sn < rcv_nxt[p] + RcvWnd[p]
  BY IInvOf DEF DataInv, Holds
<1>4. DOMAIN snd_buf[p] \subseteq snd_una[p]..(snd_nxt[p] - 1)
  BY <1>1, <1>2
<1>5. DOMAIN rcv_buf[p] \subseteq rcv_nxt[p]..(rcv_nxt[p] + RcvWnd[p] - 1)
  BY <1>1, <1>3
<1> QED BY <1>1, <1>2, <1>3, <1>4, <1>5

\* Memory at both ends is bounded by the windows.
THEOREM MemoryWithinWindows == Spec => []WithinWindows
<1> QED BY Invariance, InvWithinWindows, PTL

LEMMA InvFullQueueReadable == IInv => FullQueueReadable
<1> SUFFICES ASSUME IInv, NEW p \in Peer, Len(rcv_queue[p]) >= RcvWnd[p],
                    rcv_queue[p] # <<>>
             PROVE  PeekReady(rcv_queue[p])
  BY DEF FullQueueReadable
<1> DEFINE s == Other(p)
           q == rcv_queue[p]
           lq == Len(q)
           ld == Len(delivered[p])
           ls == Len(sent[s])
           f == q[1].frg
<1>1. s \in Peer /\ Other(s) = p /\ TypeOK /\ DataInv(s) /\ MessageInv(s)
  BY IInvOf
<1>2. q \in Seq(Segment) /\ lq \in Nat /\ ld \in Nat /\ ls \in Nat /\ lq >= 1
  BY <1>1, Sequences
<1>3. f \in Nat
  <2>1. q[1] \in Segment
    BY <1>2
  <2> QED BY <2>1 DEF Segment
<1>4. \A i \in 1..lq : q[i] = sent[s][ld + i]
  BY <1>1 DEF DataInv, Holds
<1>5. ld + lq <= ls
  BY Lengths
<1>6. \A i \in 1..ls : sent[s][i].frg + 1 < WndRcv
  BY <1>1 DEF MessageInv, Whole
<1>7. WndRcv \in Nat /\ RcvWnd[p] \in Nat /\ RcvWnd[p] >= WndRcv /\ lq >= RcvWnd[p]
  BY ArqAssumption
<1> HIDE DEF lq, ld, ls
<1>8. q[1] = sent[s][ld + 1] /\ ld + 1 \in 1..ls
  BY <1>2, <1>4, <1>5
<1>9. f + 1 < WndRcv
  BY <1>6, <1>8
<1>10. lq >= f + 1
  BY <1>2, <1>3, <1>7, <1>9
<1> QED BY <1>10 DEF PeekReady, lq

\* A full receive queue can be read, so that the window opens again.
THEOREM FullQueueIsReadable == Spec => []FullQueueReadable
<1> QED BY Invariance, InvFullQueueReadable, PTL

LEMMA StepNeverBack == IInv /\ [Next]_vars => NeverBack
<1> SUFFICES ASSUME IInv, [Next]_vars, NEW s \in Peer
             PROVE  snd_una'[s] >= snd_una[s] /\ rcv_nxt'[s] >= rcv_nxt[s]
  BY DEF NeverBack
<1>1. TypeOK /\ SendInv(s) /\ \A q \in Peer : DataInv(q)
  BY DEF IInv
<1>2. snd_una[s] \in Nat /\ snd_nxt[s] \in Nat /\ DOMAIN snd_buf[s] \subseteq Nat
  BY <1>1 DEF TypeOK
<1>3. rcv_nxt'[s] >= rcv_nxt[s]
  BY <1>1, HasStays
<1>4. ASSUME snd_una'[s] = snd_una[s] PROVE snd_una'[s] >= snd_una[s]
  BY <1>2, <1>4
<1>5. ASSUME NEW p \in Peer, NEW m \in net[p], Input(p, m)
      PROVE  snd_una'[s] >= snd_una[s]
  <2>1. Acknowledged(p, m)
    BY <1>1, <1>5, AcknowledgeEffect DEF Input, InputAck, InputWask, InputWins, InputPush
  <2>2. CASE p # s
    BY <1>4, <2>1, <2>2 DEF Acknowledged
  <2>3. CASE p = s
    <3>1. snd_una'[s] \in DOMAIN snd_buf[s] \cup {snd_nxt[s]}
      BY <2>1, <2>3 DEF Acknowledged, Unacked, IsFirstSn
    <3>2. /\ snd_una[s] <= snd_nxt[s]
          /\ \A sn \in DOMAIN snd_buf[s] : snd_una[s] <= sn
      BY <1>1 DEF SendInv
    <3> QED BY <1>2, <3>1, <3>2
  <2> QED BY <2>2, <2>3
<1>6. ASSUME NEW p \in Peer, Send(p) \/ Flush(p) \/ Recv(p)
      PROVE  snd_una'[s] >= snd_una[s]
  BY <1>4, <1>6 DEF Send, Flush, FlushWith, Recv, sndVars
<1>7. CASE UNCHANGED vars
  BY <1>3, <1>4, <1>7 DEF vars, sndVars
<1> QED BY <1>3, <1>5, <1>6, <1>7 DEF Next

\* No step, whatever late datagram it handles, moves snd_una or rcv_nxt back.
THEOREM AckPointsNeverGoBack == Spec => AckPointsAdvance
<1>1. IInv /\ [Next]_vars => [NeverBack]_vars
  BY StepNeverBack
<1> QED BY Invariance, <1>1, PTL DEF Spec, AckPointsAdvance

-----------------------------------------------------------------------------
(* The engine implements the reliable channel *)

LEMMA RecvDelivers ==
    ASSUME IInv, NEW p \in Peer, Recv(p)
    PROVE  Channel!Deliver(p)
<1> DEFINE s == Other(p)
           q == rcv_queue[p]
           hist == sent[s]
           ld == Len(delivered[p])
           lq == Len(q)
           ls == Len(hist)
<1>1. s \in Peer /\ TypeOK /\ DataInv(s) /\ Other(s) = p
  BY IInvOf
<1>2. PICK j \in 1..lq, n \in Nat : Received(p, j, n)
  BY <1>1, RecvEffect
<1>3. /\ EndsFirstMessage(q, j)
      /\ ld + lq <= ls
      /\ \A i \in 1..lq : q[i] = hist[ld + i]
  BY <1>2, ReceivesMessage
<1>4. /\ delivered[p] \in Seq(Segment)
      /\ hist \in Seq(Segment)
      /\ ld \in Nat /\ lq \in Nat /\ ls \in Nat
      /\ DOMAIN delivered = Peer
  <2>1. DOMAIN delivered = Peer
    BY <1>1 DEF TypeOK
  <2> QED BY <1>1, <2>1, Sequences
<1>5. /\ delivered' \in [Peer -> Seq(Segment)]
      /\ \A x \in Peer \ {p} : delivered'[x] = delivered[x]
      /\ Len(delivered'[p]) = ld + j
      /\ \A i \in 1..ld : delivered'[p][i] = delivered[p][i]
      /\ \A i \in 1..j : delivered'[p][ld + i] = q[i]
  BY <1>2 DEF Received
<1>6. \A i \in 1..ld : delivered[p][i] = hist[i]
  BY <1>1 DEF DataInv
<1>7. q[j].frg = 0 /\ \A i \in 1..(j - 1) : q[i].frg # 0
  BY <1>3 DEF EndsFirstMessage
<1> DEFINE prefix == SubSeq(hist, 1, ld + j)
<1> HIDE DEF ld, lq, hist, q
<1>8. ld + j \in 1..ls /\ ld + j > ld
  BY <1>3, <1>4
<1>9. /\ prefix \in Seq(Segment)
      /\ Len(prefix) = ld + j
      /\ \A i \in 1..(ld + j) : prefix[i] = hist[i]
  BY <1>4, <1>8
<1> HIDE DEF ls, prefix
<1>10. delivered'[p] = prefix
  <2>1. ASSUME NEW i \in 1..(ld + j) PROVE delivered'[p][i] = prefix[i]
    <3>1. CASE i \in 1..ld
      BY <1>5, <1>6, <1>9, <3>1
    <3>2. CASE i \notin 1..ld
      <4> DEFINE x == i - ld
      <4>1. x \in 1..j /\ x \in 1..lq /\ ld + x = i
        BY <1>4, <3>2
      <4> HIDE DEF x
      <4> QED BY <1>3, <1>5, <1>9, <4>1
    <3> QED BY <3>1, <3>2
  <2>2. delivered'[p] \in Seq(Segment)
    BY <1>5
  <2> QED BY <1>5, <1>9, <2>1, <2>2, SeqEqual
<1>11. hist[ld + j].frg = 0
  BY <1>3, <1>7
<1>12. ASSUME NEW i \in (ld + 1)..(ld + j - 1) PROVE hist[i].frg # 0
  <2> DEFINE x == i - ld
  <2>1. x \in 1..(j - 1) /\ x \in 1..lq /\ ld + x = i
    BY <1>4
  <2> HIDE DEF x
  <2> QED BY <1>3, <1>7, <2>1
<1>13. delivered' = [delivered EXCEPT ![p] = prefix]
  BY <1>4, <1>5, <1>10
<1>14. sent' = sent
  BY DEF Recv
<1> DEFINE k == ld + j
<1>15. /\ k \in 1..ls
       /\ k > ld
       /\ hist[k].frg = 0
       /\ \A i \in (ld + 1)..(k - 1) : hist[i].frg # 0
  BY <1>4, <1>8, <1>11, <1>12
<1>16. delivered' = [delivered EXCEPT ![p] = SubSeq(hist, 1, k)]
  BY <1>13, Zenon DEF prefix, k
<1> HIDE DEF k
<1>17. Channel!Other(p) = s
  BY DEF Channel!Other, Other
<1> QED BY <1>14, <1>15, <1>16, <1>17 DEF Channel!Deliver, ls, hist, ld

\* The engine implements the reliable channel: a call of ikcp_send is a Send, a
\* call of ikcp_recv a Deliver of the next whole message, and no other step
\* can be seen by the applications.
THEOREM ImplementsChannel == Spec => ChannelSpec
<1>1. Init => Channel!Init
  BY DEF Init, Channel!Init, Peer, Channel!Peer
<1>2. IInv /\ [Next]_vars => [Channel!Next]_(Channel!chanVars)
  <2> SUFFICES ASSUME IInv, [Next]_vars
               PROVE  Channel!Next \/ UNCHANGED <<sent, delivered>>
    BY DEF Channel!chanVars
  <2>1. ASSUME NEW p \in Peer, Send(p) PROVE Channel!Next
    <3>1. Channel!Send(p)
      BY <2>1 DEF Send, SendAccepts, Fragments,
                   Channel!Send, Channel!SendAccepts, Channel!Fragments
    <3> QED BY <3>1 DEF Peer, Channel!Peer, Channel!Next
  <2>2. ASSUME NEW p \in Peer, Flush(p) PROVE UNCHANGED <<sent, delivered>>
    BY <2>2 DEF Flush, FlushWith
  <2>3. ASSUME NEW p \in Peer, NEW m \in net[p], Input(p, m)
        PROVE  UNCHANGED <<sent, delivered>>
    BY <2>3 DEF Input
  <2>4. ASSUME NEW p \in Peer, Recv(p) PROVE Channel!Next
    BY <2>4, RecvDelivers DEF Peer, Channel!Peer, Channel!Next
  <2>5. CASE UNCHANGED vars
    BY <2>5 DEF vars
  <2> QED BY <2>1, <2>2, <2>3, <2>4, <2>5 DEF Next
<1> QED BY <1>1, <1>2, Invariance, PTL DEF Spec, ChannelSpec, Channel!Spec
=============================================================================
