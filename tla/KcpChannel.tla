----------------------------- MODULE KcpChannel -----------------------------
(***************************************************************************)
(* What a KCP conversation promises to the two applications that use it in *)
(* message mode: a reliable, ordered channel in each direction.  A call of *)
(* send appends a whole message, a call of recv hands over the next whole  *)
(* message, and every message sent is handed over in the end.              *)
(***************************************************************************)
EXTENDS KcpSegments

CONSTANT MaxSent      \* bound: segments each peer sends in a behaviour

VARIABLES sent,       \* sent[p]: segments of the messages p has sent
          delivered   \* delivered[p]: segments of the messages p has received

chanVars == <<sent, delivered>>

Init == /\ sent = [p \in Peer |-> <<>>]
        /\ delivered = [p \in Peer |-> <<>>]

Send(p) ==
    \E d \in Data, n \in 1..MaxSent[p] :
        /\ SendAccepts(n)
        /\ sent' = [sent EXCEPT ![p] = @ \o Fragments(d, n)]
        /\ UNCHANGED delivered

\* The application of p receives the next message of the other peer, whole.
Deliver(p) ==
    \E k \in 1..Len(sent[Other(p)]) :
        /\ k > Len(delivered[p])
        /\ sent[Other(p)][k].frg = 0
        /\ \A j \in (Len(delivered[p]) + 1)..(k - 1) : sent[Other(p)][j].frg # 0
        /\ delivered' = [delivered EXCEPT ![p] = SubSeq(sent[Other(p)], 1, k)]
        /\ UNCHANGED sent

Next == \E p \in Peer : Send(p) \/ Deliver(p)

Spec == Init /\ [][Next]_chanVars

\* Everything a peer has sent is delivered to the other one in the end.
EventualDelivery ==
    \A p \in Peer : \A n \in 1..MaxSent[Other(p)] :
        Len(sent[Other(p)]) >= n ~> Len(delivered[p]) >= n
=============================================================================
