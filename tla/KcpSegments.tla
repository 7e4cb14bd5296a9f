---------------------------- MODULE KcpSegments ----------------------------
(***************************************************************************)
(* What both the abstract channel and the ARQ engine say about data: the   *)
(* two ends of one KCP conversation, the segments a message is cut into    *)
(* (ikcp_send) and where a message ends in a sequence of segments.         *)
(*                                                                         *)
(* A payload is abstract: a message is some d \in Data carried by each of  *)
(* its n fragments.  The fragment number frg counts down to 0, as in the   *)
(* wire format, so the n segments of one message are all different.        *)
(***************************************************************************)
EXTENDS Integers, Sequences

CONSTANTS Data,       \* payloads an application may send
          WndRcv      \* IKCP_WND_RCV: a message has fewer fragments than this

Peer == {"client", "server"}

Other(p) == IF p = "client" THEN "server" ELSE "client"

Segment == [frg : Nat, data : Data]

\* Mutant: the fragment numbers end below 0.
Fragments_OffByOne(d, n) == [i \in 1..n |-> [frg |-> n - i - 1, data |-> d]]

Fragments(d, n) == [i \in 1..n |-> [frg |-> n - i, data |-> d]]

\* Mutant: no limit on the number of fragments.
SendAccepts_Unlimited(n) == n > 0

SendAccepts(n) == n < WndRcv

\* k is the position of the last fragment of the first message of q.
EndsFirstMessage(q, k) ==
    /\ k \in 1..Len(q)
    /\ q[k].frg = 0
    /\ \A j \in 1..(k - 1) : q[j].frg # 0
=============================================================================
