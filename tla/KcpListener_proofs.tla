------------------------ MODULE KcpListener_proofs -------------------------
(***************************************************************************)
(* Proofs about KcpListener, for any clients, capacities, cleanup size and *)
(* bounds: its types, that a client has one live session at most, that no  *)
(* ghost of a session appears within the TTL, and that a live session is   *)
(* given every packet of its client.                                       *)
(*                                                                         *)
(* OneLiveSession needs that a session is made once (MadeInv: its number   *)
(* is fresh, because packets of one client reach the socket in order), and *)
(* that what waits for accept waits there once (AcceptInv).  For           *)
(* NoGhostWithinTtl a key that rests must still be in closed_sessions,     *)
(* which is what the retain of the cleanup is for (RestInv).               *)
(*                                                                         *)
(* For NoneSkipped the packets of a session are followed from the socket   *)
(* through the hand of the task and the channel (Run): each step of one of *)
(* them moves the next number to the next place.                           *)
(***************************************************************************)
EXTENDS KcpListener, SequenceTheorems, TLAPS

\* Packets of a client are numbered as they come, and a session takes a number
\* below those of the packets to come.
MadeInv ==
    /\ \A i \in DOMAIN socket : socket[i] # Short =>
           made[socket[i].key] < socket[i].n /\ socket[i].n <= arrived[socket[i].key]
    /\ \A i, j \in DOMAIN socket :
           i < j /\ socket[i] # Short /\ socket[j] # Short /\ socket[i].key = socket[j].key
               => socket[i].n < socket[j].n
    /\ \A k \in Key : made[k] <= arrived[k]

\* What is not made is not there.
FreshInv == \A s \in Session : s.n > made[s.key] => stream[s] = "none"

\* The task waits for a session that is routed to.
RouteInv == task.at = "routing" => task.packet.key \in DOMAIN sessions

\* What waits for accept is queued, once.
AcceptInv ==
    /\ \A i \in DOMAIN incoming : stream[incoming[i]] = "queued"
    /\ \A i, j \in DOMAIN incoming : i # j => incoming[i] # incoming[j]
    /\ task.at = "handing" =>
           /\ stream[task.session] = "queued"
           /\ \A i \in DOMAIN incoming : incoming[i] # task.session

\* A key that rests is found in closed_sessions.
RestInv ==
    /\ task # Ended => resting \subseteq closed
    /\ task = Ended => DOMAIN sessions = {}


Inv ==
    /\ TypeOK /\ MadeInv /\ FreshInv /\ RouteInv /\ AcceptInv /\ RestInv
    /\ OneLiveSession /\ NoGhostWithinTtl

-----------------------------------------------------------------------------
(* Types *)

Tasks ==
    {Receiving, Ended} \cup {Routing(p) : p \in Packet} \cup {Handing(s) : s \in Session}

\* What of the types a step of the background task is about.
RoutesOK ==
    /\ task \in Tasks
    /\ DOMAIN sessions \subseteq Key
    /\ \A k \in DOMAIN sessions : sessions[k] \in Session /\ sessions[k].key = k
    /\ closed \subseteq Key /\ resting \subseteq Key

StreamsOK ==
    /\ channel \in [Session -> Seq(Packet)]
    /\ \A s \in Session : Len(channel[s]) <= ChanCap
    /\ stream \in [Session -> {"none", "queued", "open", "closed", "dropped"}]
    /\ incoming \in Seq(Session) /\ Len(incoming) <= AcceptCap

LEMMA TypesSplit ==
    TypeOK <=>
        /\ RoutesOK /\ StreamsOK
        /\ socket \in Seq(Packet \cup {Short})
        /\ arrived \in [Key -> 0..MaxPackets]
        /\ made \in [Key -> 0..MaxPackets]
        /\ listening \in BOOLEAN /\ async \in Readings
        /\ read \in [Session -> Seq(Packet)]
BY DEF TypeOK, RoutesOK, StreamsOK, Tasks

LEMMA PacketIsLong == \A p \in Packet : p # Short
BY ListenerAssumption DEF Packet

LEMMA TaskPlaces ==
    ASSUME task \in Tasks
    PROVE  /\ task.at \in {"recv", "ended", "routing", "handing"}
           /\ task.at = "recv" <=> task = Receiving
           /\ task.at = "ended" <=> task = Ended
           /\ task.at = "routing" => task.packet \in Packet /\ task = Routing(task.packet)
           /\ task.at = "handing" => task.session \in Session /\ task = Handing(task.session)
BY DEF Tasks, Receiving, Ended, Routing, Handing

\* The next packet in the socket, and what is left.
LEMMA SocketHead ==
    ASSUME TypeOK, socket # <<>>
    PROVE  /\ Tail(socket) \in Seq(Packet \cup {Short})
           /\ Head(socket) = socket[1]
           /\ Head(socket) \in Packet \cup {Short}
           /\ 1 \in DOMAIN socket
           /\ \A i \in DOMAIN Tail(socket) :
                  i + 1 \in DOMAIN socket /\ Tail(socket)[i] = socket[i + 1]
           /\ \A i \in DOMAIN Tail(socket) : i \in Nat \ {0}
BY HeadTailProperties DEF TypeOK

LEMMA RoutedTypes ==
    ASSUME TypeOK, NEW p \in Packet, p.key \in DOMAIN sessions,
           Forward(p) \/ Forget(p) \/ AwaitRoom(p)
    PROVE  RoutesOK' /\ StreamsOK' /\ made' = made
<1>1. CASE Forward(p)
  <2>1. sessions[p.key] \in Session
    BY DEF TypeOK
  <2>2. Append(channel[sessions[p.key]], p) \in Seq(Packet)
        /\ Len(Append(channel[sessions[p.key]], p)) = Len(channel[sessions[p.key]]) + 1
    BY <2>1, AppendProperties DEF TypeOK
  <2>3. Len(channel[sessions[p.key]]) + 1 <= ChanCap
    BY <1>1, <2>1, LenProperties, ListenerAssumption DEF Forward, TypeOK
  <2>4. StreamsOK'
    BY <1>1, <2>1, <2>2, <2>3 DEF Forward, TypeOK, StreamsOK
  <2> QED BY <1>1, <2>4 DEF Forward, TypeOK, RoutesOK, Tasks
<1>2. CASE Forget(p)
  BY <1>2 DEF Forget, TypeOK, RoutesOK, StreamsOK, Tasks, Packet, Restrict
<1>3. CASE AwaitRoom(p)
  BY <1>3 DEF AwaitRoom, TypeOK, RoutesOK, StreamsOK, Tasks
<1> QED BY <1>1, <1>2, <1>3

\* The number of a new session is fresh.
LEMMA NewIsFresh ==
    ASSUME TypeOK, MadeInv, socket # <<>>, Head(socket) # Short
    PROVE  /\ made[Head(socket).key] + 1 \in 1..MaxPackets
           /\ Head(socket) \in Packet
           /\ [key |-> Head(socket).key, n |-> made[Head(socket).key] + 1] \in Session
<1>1. Head(socket) \in Packet /\ Head(socket) = socket[1] /\ 1 \in DOMAIN socket
  BY SocketHead
<1>2. made[Head(socket).key] < Head(socket).n
  BY <1>1 DEF MadeInv
<1>3. made[Head(socket).key] \in Nat /\ Head(socket).n \in 1..MaxPackets
      /\ Head(socket).key \in Key
  BY <1>1 DEF TypeOK, Packet
<1> QED BY <1>1, <1>2, <1>3, ListenerAssumption DEF Session

LEMMA NewTypes ==
    ASSUME TypeOK, MadeInv, socket # <<>>, Head(socket) # Short, NewSession(Head(socket))
    PROVE  RoutesOK' /\ StreamsOK' /\ made' \in [Key -> 0..MaxPackets]
<1> DEFINE p == Head(socket)
           s == [key |-> p.key, n |-> made[p.key] + 1]
<1>1. p \in Packet /\ p.key \in Key /\ s \in Session /\ made[p.key] + 1 \in 0..MaxPackets
  BY NewIsFresh DEF Packet
<1>2. s.key = p.key
  OBVIOUS
<1>3. made' \in [Key -> 0..MaxPackets]
  BY <1>1 DEF NewSession, TypeOK
<1>4. <<p>> \in Seq(Packet) /\ Len(<<p>>) = 1 /\ <<>> \in Seq(Packet) /\ Len(<<>>) = 0
  BY <1>1
<1>5. channel' = [channel EXCEPT ![s] = IF listening THEN <<p>> ELSE <<>>]
  BY DEF NewSession
<1>6. channel' \in [Session -> Seq(Packet)] /\ \A t \in Session : Len(channel'[t]) <= ChanCap
  BY <1>1, <1>4, <1>5, ListenerAssumption DEF TypeOK
<1>7. HandOver(s)
  BY DEF NewSession
<1>8. stream' \in [Session -> {"none", "queued", "open", "closed", "dropped"}]
  BY <1>7 DEF HandOver, TypeOK
<1>9. incoming' \in Seq(Session) /\ Len(incoming') <= AcceptCap
  <2>1. \/ incoming' = incoming
        \/ incoming' = Append(incoming, s) /\ Len(incoming) < AcceptCap
    BY <1>7 DEF HandOver
  <2>2. Append(incoming, s) \in Seq(Session) /\ Len(Append(incoming, s)) = Len(incoming) + 1
    BY <1>1, AppendProperties DEF TypeOK
  <2>3. Len(incoming) \in Nat /\ incoming \in Seq(Session) /\ Len(incoming) <= AcceptCap
    BY LenProperties DEF TypeOK
  <2>4. CASE incoming' = incoming
    BY <2>3, <2>4
  <2>5. CASE incoming' = Append(incoming, s) /\ Len(incoming) < AcceptCap
    <3>1. Len(incoming') = Len(incoming) + 1 /\ incoming' \in Seq(Session)
      BY <2>2, <2>5
    <3> QED BY <2>3, <2>5, <3>1, ListenerAssumption
  <2> QED BY <2>1, <2>4, <2>5
<1>10. task' \in Tasks
  BY <1>1, <1>7 DEF HandOver, Tasks
<1>11. closed' \subseteq Key /\ resting' = resting
  BY DEF NewSession, Cleaned, TypeOK
<1>12. DOMAIN sessions' \subseteq Key
       /\ \A k \in DOMAIN sessions' : sessions'[k] \in Session /\ sessions'[k].key = k
  <2>1. CASE listening
    <3>1. sessions' = [k \in DOMAIN sessions \cup {p.key} |->
                          IF k = p.key THEN s ELSE sessions[k]]
      BY <2>1 DEF NewSession
    <3> QED BY <3>1, <1>1, <1>2 DEF TypeOK
  <2>2. CASE ~listening
    BY <2>2 DEF NewSession, Restrict
  <2> QED BY <2>1, <2>2
<1> QED BY <1>3, <1>6, <1>8, <1>9, <1>10, <1>11, <1>12 DEF RoutesOK, StreamsOK, TypeOK

LEMMA TypeInit == Init => TypeOK
<1> SUFFICES ASSUME Init PROVE TypeOK
  OBVIOUS
<1>1. <<>> \in Seq(Packet) /\ <<>> \in Seq(Session) /\ <<>> \in Seq(Packet \cup {Short})
      /\ Len(<<>>) = 0
  OBVIOUS
<1> QED BY <1>1, ListenerAssumption DEF Init, TypeOK

LEMMA RecvFromTypes ==
    ASSUME TypeOK, MadeInv, RecvFrom
    PROVE  TypeOK'
<1>1. socket # <<>> /\ socket' = Tail(socket) /\ UNCHANGED <<arrived, listening, async, read>>
  BY DEF RecvFrom
<1>2. socket' \in Seq(Packet \cup {Short}) /\ Head(socket) \in Packet \cup {Short}
  BY <1>1, SocketHead
<1>3. RoutesOK' /\ StreamsOK' /\ made' \in [Key -> 0..MaxPackets]
  <2>1. CASE UNCHANGED <<taskVars, channel, stream, incoming>>
    BY <2>1, TypesSplit DEF taskVars, RoutesOK, StreamsOK
  <2>2. CASE Head(socket) # Short /\ Head(socket).key \in DOMAIN sessions
             /\ (Forward(Head(socket)) \/ Forget(Head(socket)) \/ AwaitRoom(Head(socket)))
    BY <2>2, <1>2, RoutedTypes, TypesSplit
  <2>3. CASE Head(socket) # Short /\ NewSession(Head(socket))
    BY <2>3, <1>1, NewTypes
  <2> QED BY <2>1, <2>2, <2>3 DEF RecvFrom
<1> QED BY <1>1, <1>2, <1>3, TypesSplit DEF TypeOK, RoutesOK, StreamsOK, Tasks

LEMMA HandLaterTypes ==
    ASSUME TypeOK, HandLater
    PROVE  TypeOK'
<1>1. task.session \in Session
  BY TaskPlaces, TypesSplit DEF HandLater, RoutesOK
<1>2. Append(incoming, task.session) \in Seq(Session)
      /\ Len(Append(incoming, task.session)) = Len(incoming) + 1 /\ Len(incoming) \in Nat
  BY <1>1, AppendProperties, LenProperties DEF TypeOK
<1>3. <<>> \in Seq(Packet) /\ Len(<<>>) = 0 /\ 0 <= ChanCap
  BY ListenerAssumption
<1>4. CASE listening
  <2>1. incoming' \in Seq(Session) /\ Len(incoming') <= AcceptCap
    BY <1>2, <1>4, ListenerAssumption DEF HandLater
  <2> QED BY <1>4, <2>1 DEF HandLater, TypeOK
<1>5. CASE ~listening
  <2>1. channel' \in [Session -> Seq(Packet)] /\ \A t \in Session : Len(channel'[t]) <= ChanCap
    <3>1. channel' = [channel EXCEPT ![task.session] = <<>>]
      BY <1>5 DEF HandLater
    <3> QED BY <1>1, <1>3, <3>1 DEF TypeOK
  <2>2. DOMAIN sessions' = {} /\ closed' = {} /\ resting' = resting /\ task' = Ended
    BY <1>5 DEF HandLater, Restrict
  <2>3. stream' \in [Session -> {"none", "queued", "open", "closed", "dropped"}]
    BY <1>1, <1>5 DEF HandLater, TypeOK
  <2> QED BY <1>5, <2>1, <2>2, <2>3 DEF HandLater, TypeOK
<1> QED BY <1>4, <1>5

\* The steps that are not the task's.
Outside ==
    \/ \E k \in Key : Arrive(k) \/ Expire(k)
    \/ ArriveShort \/ Accept \/ DropListener
    \/ \E s \in Session : Read(s) \/ ReadNone(s) \/ PollRead(s) \/ DropStream(s)

LEMMA OtherTypes ==
    ASSUME TypeOK, Outside
    PROVE  TypeOK'
<1>1. <<>> \in Seq(Packet) /\ <<>> \in Seq(Session) /\ Len(<<>>) = 0
      /\ 0 <= ChanCap /\ 0 <= AcceptCap
  BY ListenerAssumption
<1>2. ASSUME NEW k \in Key, Arrive(k) PROVE TypeOK'
  <2>1. [key |-> k, n |-> arrived[k] + 1] \in Packet /\ arrived[k] + 1 \in 0..MaxPackets
    BY <1>2, ListenerAssumption DEF Arrive, TypeOK, Packet
  <2>2. socket' \in Seq(Packet \cup {Short})
    BY <1>2, <2>1, AppendProperties DEF Arrive, TypeOK
  <2> QED BY <1>2, <2>1, <2>2 DEF Arrive, TypeOK, taskVars
<1>3. ASSUME NEW k \in Key, Expire(k) PROVE TypeOK'
  BY <1>3 DEF Expire, TypeOK
<1>4. CASE ArriveShort
  <2>1. socket' \in Seq(Packet \cup {Short})
    BY <1>4, AppendProperties DEF ArriveShort, TypeOK
  <2> QED BY <1>4, <2>1 DEF ArriveShort, TypeOK, taskVars
<1>5. CASE Accept
  <2>1. Tail(incoming) \in Seq(Session) /\ Len(Tail(incoming)) = Len(incoming) - 1
        /\ Len(incoming) \in Nat
    BY <1>5, HeadTailProperties, LenProperties DEF Accept, TypeOK
  <2>2. incoming' \in Seq(Session) /\ Len(incoming') <= AcceptCap
    BY <1>5, <2>1, ListenerAssumption DEF Accept, TypeOK
  <2> QED BY <1>5, <2>2 DEF Accept, TypeOK, taskVars
<1>6. ASSUME NEW s \in Session, Read(s) PROVE TypeOK'
  <2>1. Head(channel[s]) \in Packet /\ Tail(channel[s]) \in Seq(Packet)
        /\ Len(Tail(channel[s])) = Len(channel[s]) - 1 /\ Len(channel[s]) \in Nat
    BY <1>6, HeadTailProperties, LenProperties DEF Read, TypeOK
  <2>2. Append(read[s], Head(channel[s])) \in Seq(Packet)
    BY <2>1, AppendProperties DEF TypeOK
  <2>3. channel' \in [Session -> Seq(Packet)] /\ \A t \in Session : Len(channel'[t]) <= ChanCap
    BY <1>6, <2>1, ListenerAssumption DEF Read, TypeOK
  <2>4. read' \in [Session -> Seq(Packet)]
    BY <1>6, <2>2 DEF Read, TypeOK
  <2> QED BY <1>6, <2>3, <2>4 DEF Read, TypeOK, taskVars
<1>7. ASSUME NEW s \in Session, ReadNone(s) PROVE TypeOK'
  BY <1>7 DEF ReadNone, TypeOK, taskVars
<1>8. ASSUME NEW s \in Session, PollRead(s) PROVE TypeOK'
  <2>1. Tail(socket) \in Seq(Packet \cup {Short}) /\ Head(socket) \in Packet \cup {Short}
    BY <1>8, SocketHead DEF PollRead
  <2>2. Head(socket) # Short => Append(read[s], Head(socket)) \in Seq(Packet)
    BY <2>1, AppendProperties DEF TypeOK
  <2>3. read' \in [Session -> Seq(Packet)]
    BY <1>8, <2>2 DEF PollRead, TypeOK
  <2> QED BY <1>8, <2>1, <2>3 DEF PollRead, TypeOK, taskVars
<1>9. ASSUME NEW s \in Session, DropStream(s) PROVE TypeOK'
  BY <1>1, <1>9 DEF DropStream, TypeOK, taskVars
<1>10. CASE DropListener
  BY <1>1, <1>10 DEF DropListener, TypeOK, taskVars
<1> QED BY <1>2, <1>3, <1>4, <1>5, <1>6, <1>7, <1>8, <1>9, <1>10 DEF Outside

LEMMA RouteLaterTypes ==
    ASSUME TypeOK, RouteInv, RouteLater
    PROVE  TypeOK'
<1>1. task.packet \in Packet /\ task.packet.key \in DOMAIN sessions
  BY TaskPlaces, TypesSplit DEF RouteLater, RouteInv, RoutesOK
<1>2. RoutesOK' /\ StreamsOK' /\ made' = made
  BY <1>1, RoutedTypes DEF RouteLater
<1> QED BY <1>2, TypesSplit DEF RouteLater, TypeOK, RoutesOK, StreamsOK, Tasks

LEMMA TypeStep ==
    ASSUME TypeOK, MadeInv, RouteInv, [Next]_vars
    PROVE  TypeOK'
<1>1. CASE RecvFrom
  BY <1>1, RecvFromTypes
<1>2. CASE RouteLater
  BY <1>2, RouteLaterTypes
<1>3. CASE HandLater
  BY <1>3, HandLaterTypes
<1>4. CASE Outside
  BY <1>4, OtherTypes
<1>5. CASE UNCHANGED vars
  BY <1>5 DEF vars, taskVars, TypeOK
<1> QED BY <1>1, <1>2, <1>3, <1>4, <1>5 DEF Next, Outside

-----------------------------------------------------------------------------
(* Packets and the sessions made for them *)

\* What a step of the task does to a packet it has in hand.
Routed(p) ==
    p \in Packet /\ p.key \in DOMAIN sessions /\ (Forward(p) \/ Forget(p) \/ AwaitRoom(p))

\* The ways of the task.
LEMMA TaskSteps ==
    ASSUME TypeOK, RouteInv, RecvFrom \/ RouteLater \/ HandLater
    PROVE  \/ task = Receiving /\ UNCHANGED <<taskVars, channel, stream, incoming>>
           \/ task = Receiving /\ Routed(Head(socket))
           \/ /\ task = Receiving /\ socket # <<>> /\ Head(socket) # Short
              /\ Head(socket).key \notin DOMAIN sessions /\ NewSession(Head(socket))
           \/ task.at = "routing" /\ Routed(task.packet)
           \/ task.at = "handing" /\ HandLater
<1>1. CASE RecvFrom
  BY <1>1, SocketHead DEF RecvFrom, Routed
<1>2. CASE RouteLater
  BY <1>2, TaskPlaces, TypesSplit DEF RouteLater, RouteInv, RoutesOK, Routed
<1>3. CASE HandLater
  BY <1>3 DEF HandLater
<1> QED BY <1>1, <1>2, <1>3

LEMMA MadeTake ==
    ASSUME TypeOK, MadeInv, socket # <<>>, socket' = Tail(socket), arrived' = arrived,
           \/ made' = made
           \/ /\ Head(socket) # Short
              /\ made' = [made EXCEPT ![Head(socket).key] = @ + 1]
    PROVE  MadeInv'
<1> DEFINE p == Head(socket)
<1>1. /\ p = socket[1] /\ 1 \in DOMAIN socket /\ p \in Packet \cup {Short}
      /\ \A i \in DOMAIN socket' : i + 1 \in DOMAIN socket /\ socket'[i] = socket[i + 1]
                                   /\ i \in Nat \ {0}
  BY SocketHead
<1>2. \A i \in DOMAIN socket : socket[i] \in Packet \cup {Short} /\ i \in Nat
  BY ElementOfSeq DEF TypeOK
<1>3. \A k \in Key : made[k] \in Nat /\ arrived[k] \in Nat
  BY DEF TypeOK
<1>4. \A q \in Packet : q.key \in Key /\ q.n \in Nat
  BY DEF Packet
<1>5. \A i \in DOMAIN socket' : socket'[i] # Short /\ p # Short /\ socket'[i].key = p.key
          => p.n < socket'[i].n
  BY <1>1, <1>2 DEF MadeInv
<1>6. \A i, j \in DOMAIN socket' :
          i < j /\ socket'[i] # Short /\ socket'[j] # Short /\ socket'[i].key = socket'[j].key
              => socket'[i].n < socket'[j].n
  BY <1>1, <1>2 DEF MadeInv
<1>7. \A i \in DOMAIN socket' : socket'[i] # Short =>
          made[socket'[i].key] < socket'[i].n /\ socket'[i].n <= arrived[socket'[i].key]
  BY <1>1 DEF MadeInv
<1>8. CASE made' = made
  BY <1>6, <1>7, <1>8 DEF MadeInv
<1>9. CASE p # Short /\ made' = [made EXCEPT ![p.key] = @ + 1]
  <2>1. p \in Packet /\ p.key \in Key /\ made[p.key] < p.n /\ p.n <= arrived[p.key]
    BY <1>1, <1>4, <1>9 DEF MadeInv
  <2>2. \A k \in Key : made'[k] = IF k = p.key THEN made[k] + 1 ELSE made[k]
    BY <1>9 DEF TypeOK
  <2>3. \A i \in DOMAIN socket' : socket'[i] # Short => socket'[i] \in Packet
    BY <1>1, <1>2
  <2>4. \A i \in DOMAIN socket' : socket'[i] # Short =>
            made'[socket'[i].key] < socket'[i].n /\ socket'[i].n <= arrived[socket'[i].key]
    BY <1>3, <1>4, <1>5, <1>7, <1>9, <2>1, <2>2, <2>3
  <2>5. \A k \in Key : made'[k] <= arrived[k]
    BY <1>3, <1>4, <2>1, <2>2 DEF MadeInv
  <2> QED BY <1>6, <2>4, <2>5 DEF MadeInv
<1> QED BY <1>8, <1>9

LEMMA MadeStep ==
    ASSUME TypeOK, MadeInv, RouteInv, [Next]_vars
    PROVE  MadeInv'
<1>1. ASSUME UNCHANGED <<socket, arrived, made>> PROVE MadeInv'
  BY <1>1 DEF MadeInv
<1>2. CASE RecvFrom
  <2>1. socket # <<>> /\ socket' = Tail(socket) /\ arrived' = arrived
    BY <1>2 DEF RecvFrom
  <2>2. \/ made' = made
        \/ Head(socket) # Short /\ made' = [made EXCEPT ![Head(socket).key] = @ + 1]
    BY <1>2 DEF RecvFrom, Forward, Forget, AwaitRoom, NewSession, taskVars
  <2> QED BY <2>1, <2>2, MadeTake
<1>3. ASSUME NEW s \in Session, PollRead(s) PROVE MadeInv'
  BY <1>3, MadeTake DEF PollRead, taskVars
<1>4. ASSUME NEW k \in Key, Arrive(k) PROVE MadeInv'
  <2> DEFINE p == [key |-> k, n |-> arrived[k] + 1]
  <2>1. /\ Len(socket') = Len(socket) + 1 /\ socket'[Len(socket) + 1] = p
        /\ \A i \in DOMAIN socket : socket'[i] = socket[i]
        /\ DOMAIN socket' = 1..(Len(socket) + 1) /\ DOMAIN socket = 1..Len(socket)
        /\ Len(socket) \in Nat
    BY <1>4, AppendProperties, LenProperties DEF Arrive, TypeOK
  <2>2. made' = made /\ \A j \in Key : arrived'[j] = IF j = k THEN arrived[k] + 1 ELSE arrived[j]
    BY <1>4 DEF Arrive, TypeOK, taskVars
  <2>3. \A j \in Key : made[j] \in Nat /\ arrived[j] \in Nat /\ made[j] <= arrived[j]
    BY DEF TypeOK, MadeInv
  <2>4. \A i \in DOMAIN socket : socket[i] # Short =>
            /\ socket[i].key \in Key /\ socket[i].n \in Nat
            /\ made[socket[i].key] < socket[i].n /\ socket[i].n <= arrived[socket[i].key]
    BY ElementOfSeq DEF TypeOK, MadeInv, Packet
  <2>5. \A i \in DOMAIN socket' : socket'[i] # Short =>
            made'[socket'[i].key] < socket'[i].n /\ socket'[i].n <= arrived'[socket'[i].key]
    <3> SUFFICES ASSUME NEW i \in DOMAIN socket', socket'[i] # Short
                 PROVE  /\ made'[socket'[i].key] < socket'[i].n
                        /\ socket'[i].n <= arrived'[socket'[i].key]
      OBVIOUS
    <3>1. CASE i \in DOMAIN socket
      BY <2>1, <2>2, <2>3, <2>4, <3>1
    <3>2. CASE i \notin DOMAIN socket
      <4>1. i = Len(socket) + 1
        BY <2>1, <3>2
      <4> QED BY <2>1, <2>2, <2>3, <4>1
    <3> QED BY <3>1, <3>2
  <2>6. \A i, j \in DOMAIN socket' :
            i < j /\ socket'[i] # Short /\ socket'[j] # Short /\ socket'[i].key = socket'[j].key
                => socket'[i].n < socket'[j].n
    <3>1. TAKE i, j \in DOMAIN socket'
    <3>2. HAVE i < j /\ socket'[i] # Short /\ socket'[j] # Short
               /\ socket'[i].key = socket'[j].key
    <3>3. i \in DOMAIN socket
      BY <2>1, <3>2
    <3>4. CASE j \in DOMAIN socket
      BY <2>1, <3>2, <3>3, <3>4 DEF MadeInv
    <3>5. CASE j = Len(socket) + 1
      BY <2>1, <2>3, <2>4, <3>2, <3>3, <3>5
    <3> QED BY <2>1, <3>4, <3>5
  <2>7. \A j \in Key : made'[j] <= arrived'[j]
    BY <2>2, <2>3
  <2> QED BY <2>5, <2>6, <2>7 DEF MadeInv
<1>5. CASE ArriveShort
  <2>1. /\ socket' = Append(socket, Short) /\ made' = made /\ arrived' = arrived
        /\ DOMAIN socket' = 1..(Len(socket) + 1) /\ socket'[Len(socket) + 1] = Short
        /\ DOMAIN socket = 1..Len(socket) /\ \A i \in DOMAIN socket : socket'[i] = socket[i]
        /\ Len(socket) \in Nat
    BY <1>5, AppendProperties, LenProperties DEF ArriveShort, TypeOK, taskVars
  <2> QED BY <2>1 DEF MadeInv
<1>6. CASE RouteLater \/ HandLater \/ Accept \/ DropListener
  BY <1>1, <1>6 DEF RouteLater, Forward, Forget, HandLater, Accept, DropListener, taskVars
<1>7. ASSUME NEW k \in Key, Expire(k) PROVE MadeInv'
  BY <1>1, <1>7 DEF Expire
<1>8. ASSUME NEW s \in Session, Read(s) \/ ReadNone(s) \/ DropStream(s) PROVE MadeInv'
  BY <1>1, <1>8 DEF Read, ReadNone, DropStream, taskVars
<1>9. CASE UNCHANGED vars
  BY <1>1, <1>9 DEF vars, taskVars
<1> QED BY <1>2, <1>3, <1>4, <1>5, <1>6, <1>7, <1>8, <1>9 DEF Next

-----------------------------------------------------------------------------
(* Streams *)


\* A routed packet touches no stream and hands nothing over.
LEMMA RoutedKeeps ==
    ASSUME NEW p, Routed(p)
    PROVE  /\ UNCHANGED <<made, stream, incoming>>
           /\ task' \in {Receiving, task, Routing(p)}
           /\ resting' # resting => Forget(p)
           /\ sessions' # sessions => Forget(p)
BY DEF Routed, Forward, Forget, AwaitRoom

\* What a new session does to streams and to accept.
LEMMA NewEffect ==
    ASSUME TypeOK, MadeInv, FreshInv, socket # <<>>, Head(socket) # Short,
           NewSession(Head(socket)),
           NEW s, s = [key |-> Head(socket).key, n |-> made[Head(socket).key] + 1]
    PROVE  /\ s \in Session /\ s.key = Head(socket).key /\ s.n = made[s.key] + 1
           /\ s.key \in Key /\ stream[s] = "none"
           /\ \A k \in Key : made'[k] = IF k = s.key THEN made[k] + 1 ELSE made[k]
           /\ \A t \in Session : t # s => stream'[t] = stream[t]
           /\ stream'[s] \in {"queued", "dropped"}
           /\ \/ /\ listening /\ stream'[s] = "queued"
                 /\ \/ incoming' = Append(incoming, s) /\ task' = Receiving
                    \/ incoming' = incoming /\ task' = Handing(s)
                 /\ sessions' = [k \in DOMAIN sessions \cup {s.key} |->
                                    IF k = s.key THEN s ELSE sessions[k]]
              \/ ~listening /\ task' = Ended /\ incoming' = incoming /\ DOMAIN sessions' = {}
<1>1. s \in Session /\ Head(socket) \in Packet /\ Head(socket).key \in Key
  BY NewIsFresh DEF Packet
<1>2. s.key = Head(socket).key /\ s.n = made[s.key] + 1 /\ s.n > made[s.key]
  BY <1>1 DEF TypeOK
<1>3. stream[s] = "none"
  BY <1>1, <1>2 DEF FreshInv
<1>4. HandOver(s)
  BY DEF NewSession
<1>5. \A k \in Key : made'[k] = IF k = s.key THEN made[k] + 1 ELSE made[k]
  BY <1>1, <1>2 DEF NewSession, TypeOK
<1>6. CASE listening
  <2>1. /\ \A t \in Session : t # s => stream'[t] = stream[t]
        /\ stream'[s] = "queued"
    BY <1>1, <1>4, <1>6 DEF HandOver, TypeOK
  <2>2. \/ incoming' = Append(incoming, s) /\ task' = Receiving
        \/ incoming' = incoming /\ task' = Handing(s)
    BY <1>4, <1>6 DEF HandOver
  <2>3. sessions' = [k \in DOMAIN sessions \cup {s.key} |->
                        IF k = s.key THEN s ELSE sessions[k]]
    BY <1>2, <1>6 DEF NewSession
  <2> QED BY <1>1, <1>2, <1>3, <1>5, <1>6, <2>1, <2>2, <2>3
<1>7. CASE ~listening
  <2>1. /\ \A t \in Session : t # s => stream'[t] = stream[t]
        /\ stream'[s] = "dropped"
    BY <1>1, <1>4, <1>7 DEF HandOver, TypeOK
  <2>2. task' = Ended /\ incoming' = incoming
    BY <1>4, <1>7 DEF HandOver
  <2>3. DOMAIN sessions' = {}
    BY <1>7 DEF NewSession, Restrict
  <2> QED BY <1>1, <1>2, <1>3, <1>5, <1>7, <2>1, <2>2, <2>3
<1> QED BY <1>6, <1>7

\* The session handed over is one that is routed to, and accept gets it once.
LEMMA HandingSession ==
    ASSUME Inv, task.at = "handing"
    PROVE  task.session \in Session /\ stream[task.session] = "queued"
BY TaskPlaces, TypesSplit DEF Inv, AcceptInv, RoutesOK

LEMMA WaitingSession ==
    ASSUME Inv, NEW i \in DOMAIN incoming
    PROVE  incoming[i] \in Session /\ stream[incoming[i]] = "queued"
BY ElementOfSeq DEF Inv, AcceptInv, TypeOK

LEMMA IncomingHead ==
    ASSUME Inv, incoming # <<>>
    PROVE  /\ Head(incoming) = incoming[1] /\ 1 \in DOMAIN incoming
           /\ Head(incoming) \in Session /\ stream[Head(incoming)] = "queued"
           /\ \A i \in DOMAIN Tail(incoming) :
                  /\ i + 1 \in DOMAIN incoming /\ Tail(incoming)[i] = incoming[i + 1]
                  /\ i \in Nat \ {0}
<1>1. 1 \in DOMAIN incoming /\ Head(incoming) = incoming[1]
      /\ \A i \in DOMAIN Tail(incoming) :
             i + 1 \in DOMAIN incoming /\ Tail(incoming)[i] = incoming[i + 1]
             /\ i \in Nat \ {0}
  BY HeadTailProperties DEF Inv, TypeOK
<1> QED BY <1>1, WaitingSession

\* A step changes a stream that was there, or makes that of a new session.
LEMMA FreshStep ==
    ASSUME Inv, [Next]_vars
    PROVE  FreshInv'
<1>0. TypeOK /\ MadeInv /\ RouteInv /\ FreshInv
  BY DEF Inv
<1>1. ASSUME UNCHANGED made,
             \A s \in Session : stream[s] = "none" => stream'[s] = "none"
      PROVE  FreshInv'
  BY <1>0, <1>1 DEF FreshInv
<1>2. CASE RecvFrom \/ RouteLater \/ HandLater
  <2>1. CASE UNCHANGED <<taskVars, channel, stream, incoming>>
    BY <1>1, <2>1 DEF taskVars
  <2>2. ASSUME NEW p, Routed(p) PROVE FreshInv'
    BY <1>1, <2>2, RoutedKeeps
  <2>3. CASE socket # <<>> /\ Head(socket) # Short /\ NewSession(Head(socket))
    <3> DEFINE s == [key |-> Head(socket).key, n |-> made[Head(socket).key] + 1]
    <3>1. /\ s \in Session /\ s.n = made[s.key] + 1 /\ s.key \in Key
          /\ \A k \in Key : made'[k] = IF k = s.key THEN made[k] + 1 ELSE made[k]
          /\ \A t \in Session : t # s => stream'[t] = stream[t]
      BY <1>0, <2>3, NewEffect
    <3>2. \A t \in Session : t.key \in Key /\ t.n \in Nat
      BY DEF Session
    <3>3. \A k \in Key : made[k] \in Nat
      BY <1>0 DEF TypeOK
    <3> HIDE DEF s
    <3> SUFFICES ASSUME NEW t \in Session, t.n > made'[t.key] PROVE stream'[t] = "none"
      BY DEF FreshInv
    <3>4. t # s
      BY <3>1, <3>2, <3>3
    <3>5. t.n > made[t.key]
      BY <3>1, <3>2, <3>3
    <3> QED BY <1>0, <3>1, <3>4, <3>5 DEF FreshInv
  <2>4. CASE task.at = "handing" /\ HandLater
    BY <1>0, <1>1, <2>4, HandingSession DEF HandLater, TypeOK
  <2> QED BY <1>0, <1>2, <2>1, <2>2, <2>3, <2>4, TaskSteps DEF RecvFrom
<1>3. CASE Accept
  BY <1>0, <1>1, <1>3, IncomingHead DEF Accept, taskVars, TypeOK
<1>4. CASE DropListener
  <2>1. \A s \in Session : s \in {incoming[i] : i \in DOMAIN incoming} => stream[s] = "queued"
    BY WaitingSession
  <2> QED BY <1>0, <1>1, <1>4, <2>1 DEF DropListener, taskVars, TypeOK
<1>5. ASSUME NEW s \in Session, Read(s) \/ ReadNone(s) \/ PollRead(s) \/ DropStream(s)
      PROVE  FreshInv'
  BY <1>0, <1>1, <1>5 DEF Read, ReadNone, PollRead, DropStream, taskVars, TypeOK
<1>6. ASSUME NEW k \in Key, Arrive(k) \/ Expire(k) PROVE FreshInv'
  BY <1>1, <1>6 DEF Arrive, Expire, taskVars
<1>7. CASE ArriveShort \/ UNCHANGED vars
  BY <1>1, <1>7 DEF ArriveShort, vars, taskVars
<1> QED BY <1>2, <1>3, <1>4, <1>5, <1>6, <1>7 DEF Next

LEMMA PlacesDiffer ==
    /\ Receiving.at = "recv" /\ Ended.at = "ended"
    /\ \A p : Routing(p).at = "routing" /\ Routing(p).packet = p
    /\ \A s : Handing(s).at = "handing" /\ Handing(s).session = s
BY DEF Receiving, Ended, Routing, Handing

LEMMA RouteStep ==
    ASSUME Inv, [Next]_vars
    PROVE  RouteInv'
<1>0. TypeOK /\ MadeInv /\ RouteInv /\ FreshInv
  BY DEF Inv
<1>1. ASSUME UNCHANGED <<task, sessions>> PROVE RouteInv'
  BY <1>0, <1>1 DEF RouteInv
<1>2. CASE RecvFrom \/ RouteLater \/ HandLater
  <2>1. CASE UNCHANGED <<taskVars, channel, stream, incoming>>
    BY <1>1, <2>1 DEF taskVars
  <2>2. ASSUME NEW p, Routed(p), task = Receiving \/ task.packet = p PROVE RouteInv'
    <3>1. CASE Forward(p) \/ Forget(p)
      BY <3>1, PlacesDiffer DEF Forward, Forget, RouteInv
    <3>2. CASE AwaitRoom(p)
      BY <2>2, <3>2, PlacesDiffer DEF AwaitRoom, RouteInv, Routed
    <3> QED BY <2>2, <3>1, <3>2 DEF Routed
  <2>3. CASE socket # <<>> /\ Head(socket) # Short /\ NewSession(Head(socket))
    BY <1>0, <2>3, NewEffect, PlacesDiffer DEF RouteInv
  <2>4. CASE task.at = "handing" /\ HandLater
    BY <2>4, PlacesDiffer DEF HandLater, RouteInv
  <2> QED BY <1>0, <1>2, <2>1, <2>2, <2>3, <2>4, TaskSteps
<1>3. CASE Outside
  BY <1>1, <1>3 DEF Outside, Arrive, Expire, ArriveShort, Accept, DropListener, Read,
                    ReadNone, PollRead, DropStream, taskVars
<1>4. CASE UNCHANGED vars
  BY <1>1, <1>4 DEF vars, taskVars
<1> QED BY <1>2, <1>3, <1>4 DEF Next, Outside

\* A session that is appended to incoming was not in it.
LEMMA AcceptAppend ==
    ASSUME Inv, NEW s \in Session, incoming' = Append(incoming, s),
           stream'[s] = "queued", task'.at # "handing",
           \A i \in DOMAIN incoming : incoming[i] # s,
           \A t \in Session : t # s => stream'[t] = stream[t]
    PROVE  AcceptInv'
<1>1. /\ DOMAIN incoming' = 1..(Len(incoming) + 1) /\ incoming'[Len(incoming) + 1] = s
      /\ DOMAIN incoming = 1..Len(incoming) /\ Len(incoming) \in Nat
      /\ \A i \in DOMAIN incoming : incoming'[i] = incoming[i]
  BY AppendProperties, LenProperties DEF Inv, TypeOK
<1>2. \A i \in DOMAIN incoming : stream'[incoming[i]] = "queued"
  BY WaitingSession
<1>3. \A i \in DOMAIN incoming' : stream'[incoming'[i]] = "queued"
  BY <1>1, <1>2
<1>4. \A i, j \in DOMAIN incoming' : i # j => incoming'[i] # incoming'[j]
  BY <1>1 DEF Inv, AcceptInv
<1> QED BY <1>3, <1>4 DEF AcceptInv

LEMMA AcceptStep ==
    ASSUME Inv, [Next]_vars
    PROVE  AcceptInv'
<1>0. TypeOK /\ MadeInv /\ RouteInv /\ FreshInv /\ AcceptInv
  BY DEF Inv
<1>1. ASSUME UNCHANGED incoming, task' = task \/ task'.at # "handing",
             \A s \in Session : stream[s] = "queued" => stream'[s] = "queued"
      PROVE  AcceptInv'
  <2>1. \A i \in DOMAIN incoming : stream'[incoming[i]] = "queued"
    BY <1>1, WaitingSession
  <2>2. task.at = "handing" => stream'[task.session] = "queued"
    BY <1>1, HandingSession
  <2> QED BY <1>0, <1>1, <2>1, <2>2 DEF AcceptInv
<1>2. CASE RecvFrom \/ RouteLater \/ HandLater
  <2>1. CASE UNCHANGED <<taskVars, channel, stream, incoming>>
    BY <1>1, <2>1 DEF taskVars
  <2>2. ASSUME NEW p, Routed(p) PROVE AcceptInv'
    BY <1>1, <2>2, RoutedKeeps, PlacesDiffer
  <2>3. CASE socket # <<>> /\ Head(socket) # Short /\ NewSession(Head(socket))
             /\ task = Receiving
    <3> DEFINE s == [key |-> Head(socket).key, n |-> made[Head(socket).key] + 1]
    <3>1. /\ s \in Session /\ stream[s] = "none"
          /\ \A t \in Session : t # s => stream'[t] = stream[t]
          /\ \/ /\ stream'[s] = "queued"
                /\ \/ incoming' = Append(incoming, s) /\ task' = Receiving
                   \/ incoming' = incoming /\ task' = Handing(s)
             \/ task' = Ended /\ incoming' = incoming
      BY <1>0, <2>3, NewEffect
    <3> HIDE DEF s
    <3>2. \A i \in DOMAIN incoming : incoming[i] # s
      BY <3>1, WaitingSession
    <3>3. CASE incoming' = Append(incoming, s) /\ stream'[s] = "queued" /\ task' = Receiving
      BY <3>1, <3>2, <3>3, AcceptAppend, PlacesDiffer
    <3>4. CASE incoming' = incoming /\ stream'[s] = "queued" /\ task' = Handing(s)
      <4>1. \A i \in DOMAIN incoming : stream'[incoming[i]] = "queued"
        BY <3>1, <3>2, WaitingSession
      <4> QED BY <1>0, <3>2, <3>4, <4>1, PlacesDiffer DEF AcceptInv
    <3>5. CASE task' = Ended /\ incoming' = incoming
      BY <1>1, <3>1, <3>5, PlacesDiffer
    <3> QED BY <3>1, <3>3, <3>4, <3>5
  <2>4. CASE task.at = "handing" /\ HandLater
    <3>1. /\ task.session \in Session /\ stream[task.session] = "queued"
          /\ \A i \in DOMAIN incoming : incoming[i] # task.session
      BY <1>0, <2>4, HandingSession DEF AcceptInv
    <3>2. CASE listening
      BY <2>4, <3>1, <3>2, AcceptAppend, PlacesDiffer DEF HandLater
    <3>3. CASE ~listening
      <4>1. \A i \in DOMAIN incoming : stream'[incoming[i]] = "queued"
        BY <1>0, <2>4, <3>1, <3>3, WaitingSession DEF HandLater, TypeOK
      <4> QED BY <1>0, <2>4, <3>3, <4>1, PlacesDiffer DEF HandLater, AcceptInv
    <3> QED BY <3>2, <3>3
  <2> QED BY <1>0, <1>2, <2>1, <2>2, <2>3, <2>4, TaskSteps
<1>3. CASE Accept
  <2>1. /\ incoming' = Tail(incoming) /\ task' = task /\ incoming # <<>>
        /\ stream' = [stream EXCEPT ![Head(incoming)] = "open"]
    BY <1>3 DEF Accept, taskVars
  <2>2. /\ Head(incoming) = incoming[1] /\ 1 \in DOMAIN incoming
        /\ \A i \in DOMAIN incoming' :
               /\ i + 1 \in DOMAIN incoming /\ incoming'[i] = incoming[i + 1]
               /\ i \in Nat \ {0}
    BY <2>1, IncomingHead
  <2>3. \A i \in DOMAIN incoming' :
            incoming'[i] # Head(incoming) /\ incoming'[i] \in Session
            /\ stream[incoming'[i]] = "queued"
    BY <1>0, <2>2, WaitingSession DEF AcceptInv
  <2>4. \A i \in DOMAIN incoming' : stream'[incoming'[i]] = "queued"
    BY <1>0, <2>1, <2>3 DEF TypeOK
  <2>5. \A i, j \in DOMAIN incoming' : i # j => incoming'[i] # incoming'[j]
    BY <1>0, <2>2 DEF AcceptInv
  <2>6. task.at = "handing" =>
            /\ stream'[task.session] = "queued"
            /\ \A i \in DOMAIN incoming' : incoming'[i] # task.session
    BY <1>0, <2>1, <2>2, HandingSession DEF AcceptInv, TypeOK
  <2> QED BY <2>1, <2>4, <2>5, <2>6 DEF AcceptInv
<1>4. CASE DropListener
  <2>1. /\ incoming' = <<>> /\ task' = task
        /\ stream' = [s \in Session |->
                         IF s \in {incoming[i] : i \in DOMAIN incoming} THEN "dropped"
                         ELSE stream[s]]
    BY <1>4 DEF DropListener, taskVars
  <2>2. task.at = "handing" => stream'[task.session] = "queued"
    BY <1>0, <2>1, HandingSession DEF AcceptInv
  <2>3. DOMAIN incoming' = {}
    BY <2>1
  <2> QED BY <2>1, <2>2, <2>3 DEF AcceptInv
<1>5. ASSUME NEW s \in Session, Read(s) \/ ReadNone(s) \/ PollRead(s) \/ DropStream(s)
      PROVE  AcceptInv'
  BY <1>0, <1>1, <1>5 DEF Read, ReadNone, PollRead, DropStream, taskVars, TypeOK
<1>6. ASSUME NEW k \in Key, Arrive(k) \/ Expire(k) PROVE AcceptInv'
  BY <1>1, <1>6 DEF Arrive, Expire, taskVars
<1>7. CASE ArriveShort \/ UNCHANGED vars
  BY <1>1, <1>7 DEF ArriveShort, vars, taskVars
<1> QED BY <1>2, <1>3, <1>4, <1>5, <1>6, <1>7 DEF Next

-----------------------------------------------------------------------------
(* Routes *)

LEMMA RestStep ==
    ASSUME Inv, [Next]_vars
    PROVE  RestInv' /\ NoGhostWithinTtl'
<1>0. TypeOK /\ MadeInv /\ RouteInv /\ FreshInv /\ RestInv /\ NoGhostWithinTtl
  BY DEF Inv
<1>1. ASSUME UNCHANGED <<sessions, closed, resting>>,
             task' = task \/ (task # Ended /\ task' # Ended)
      PROVE  RestInv' /\ NoGhostWithinTtl'
  BY <1>0, <1>1 DEF RestInv, NoGhostWithinTtl
<1>2. CASE RecvFrom \/ RouteLater \/ HandLater
  <2>0. task # Ended
    BY <1>2, PlacesDiffer DEF RecvFrom, RouteLater, HandLater
  <2>1. CASE UNCHANGED <<taskVars, channel, stream, incoming>>
    BY <1>1, <2>1 DEF taskVars
  <2>2. ASSUME NEW p, Routed(p) PROVE RestInv' /\ NoGhostWithinTtl'
    <3>1. CASE Forward(p) \/ AwaitRoom(p)
      BY <1>1, <2>0, <3>1, PlacesDiffer DEF Forward, AwaitRoom
    <3>2. CASE Forget(p)
      BY <1>0, <2>0, <3>2, PlacesDiffer DEF Forget, RestInv, NoGhostWithinTtl, Restrict
    <3> QED BY <2>2, <3>1, <3>2 DEF Routed
  <2>3. CASE socket # <<>> /\ Head(socket) # Short /\ NewSession(Head(socket))
    <3> DEFINE k == Head(socket).key
    <3>1. k \notin resting /\ resting \subseteq closed /\ resting' = resting
      BY <1>0, <2>0, <2>3 DEF NewSession, RestInv
    <3>2. CASE listening
      <4>1. DOMAIN sessions' = DOMAIN sessions \cup {k} /\ closed' = Cleaned(closed \ {k})
        BY <2>3, <3>2 DEF NewSession
      <4>2. task' # Ended
        <5>1. PICK t : HandOver(t)
          BY <2>3 DEF NewSession
        <5> QED BY <3>2, <5>1, PlacesDiffer DEF HandOver
      <4>3. resting \subseteq Cleaned(closed \ {k})
        BY <3>1 DEF Cleaned
      <4> QED BY <1>0, <3>1, <4>1, <4>2, <4>3 DEF RestInv, NoGhostWithinTtl
    <3>3. CASE ~listening
      <4>1. task' = Ended /\ DOMAIN sessions' = {}
        BY <1>0, <2>3, <3>3, NewEffect
      <4> QED BY <4>1 DEF RestInv, NoGhostWithinTtl
    <3> QED BY <3>2, <3>3
  <2>4. CASE task.at = "handing" /\ HandLater
    <3>1. CASE listening
      BY <1>1, <2>0, <2>4, <3>1, PlacesDiffer DEF HandLater
    <3>2. CASE ~listening
      BY <2>4, <3>2 DEF HandLater, RestInv, NoGhostWithinTtl, Restrict
    <3> QED BY <3>1, <3>2
  <2> QED BY <1>0, <1>2, <2>1, <2>2, <2>3, <2>4, TaskSteps
<1>3. ASSUME NEW k \in Key, Expire(k) PROVE RestInv' /\ NoGhostWithinTtl'
  BY <1>0, <1>3 DEF Expire, RestInv, NoGhostWithinTtl
<1>4. ASSUME NEW k \in Key, Arrive(k) PROVE RestInv' /\ NoGhostWithinTtl'
  BY <1>1, <1>4 DEF Arrive, taskVars
<1>5. CASE ArriveShort \/ Accept \/ DropListener \/ UNCHANGED vars
  BY <1>1, <1>5 DEF ArriveShort, Accept, DropListener, vars, taskVars
<1>6. ASSUME NEW s \in Session, Read(s) \/ ReadNone(s) \/ PollRead(s) \/ DropStream(s)
      PROVE  RestInv' /\ NoGhostWithinTtl'
  BY <1>1, <1>6 DEF Read, ReadNone, PollRead, DropStream, taskVars
<1> QED BY <1>2, <1>3, <1>4, <1>5, <1>6 DEF Next

LEMMA OneLiveStep ==
    ASSUME Inv, [Next]_vars
    PROVE  OneLiveSession'
<1>0. TypeOK /\ MadeInv /\ RouteInv /\ FreshInv /\ RestInv /\ OneLiveSession
  BY DEF Inv
<1>1. ASSUME UNCHANGED sessions, task' = Ended \/ task # Ended,
             \A s \in Session : Live(s)' => Live(s)
      PROVE  OneLiveSession'
  BY <1>0, <1>1 DEF OneLiveSession
<1>2. CASE RecvFrom \/ RouteLater \/ HandLater
  <2>0. task # Ended
    BY <1>2, PlacesDiffer DEF RecvFrom, RouteLater, HandLater
  <2>1. CASE UNCHANGED <<taskVars, channel, stream, incoming>>
    BY <1>1, <2>0, <2>1 DEF taskVars, Live
  <2>2. ASSUME NEW p, Routed(p) PROVE OneLiveSession'
    <3>1. CASE Forward(p) \/ AwaitRoom(p)
      BY <1>1, <2>0, <3>1 DEF Forward, AwaitRoom, Live
    <3>2. CASE Forget(p)
      <4>1. /\ sessions' = [k \in DOMAIN sessions \ {p.key} |-> sessions[k]]
            /\ stream' = stream /\ stream[sessions[p.key]] = "dropped"
        BY <3>2 DEF Forget, Gone, Restrict
      <4>2. \A s \in Session : Live(s) => s.key \in DOMAIN sessions /\ sessions[s.key] = s
        BY <1>0, <2>0 DEF OneLiveSession
      <4>3. \A s \in Session : Live(s) => s.key # p.key
        BY <4>1, <4>2 DEF Live
      <4> QED BY <4>1, <4>2, <4>3 DEF OneLiveSession, Live
    <3> QED BY <2>2, <3>1, <3>2 DEF Routed
  <2>3. CASE /\ socket # <<>> /\ Head(socket) # Short /\ NewSession(Head(socket))
             /\ Head(socket).key \notin DOMAIN sessions
    <3> DEFINE s == [key |-> Head(socket).key, n |-> made[Head(socket).key] + 1]
    <3>1. /\ s \in Session /\ s.key \notin DOMAIN sessions
          /\ \A t \in Session : t # s => stream'[t] = stream[t]
          /\ \/ sessions' = [k \in DOMAIN sessions \cup {s.key} |->
                                IF k = s.key THEN s ELSE sessions[k]]
             \/ task' = Ended
      BY <1>0, <2>3, NewEffect
    <3> HIDE DEF s
    <3>2. \A t \in Session : Live(t) => t.key \in DOMAIN sessions /\ sessions[t.key] = t
      BY <1>0, <2>0 DEF OneLiveSession
    <3>3. \A t \in Session : t # s /\ Live(t)' => Live(t)
      BY <3>1 DEF Live
    <3> QED BY <3>1, <3>2, <3>3 DEF OneLiveSession
  <2>4. CASE task.at = "handing" /\ HandLater
    BY <1>1, <2>0, <2>4 DEF HandLater, Live, OneLiveSession
  <2> QED BY <1>0, <1>2, <2>1, <2>2, <2>3, <2>4, TaskSteps
<1>3. ASSUME task = Ended, task' = task PROVE OneLiveSession'
  BY <1>3 DEF OneLiveSession
<1>4. CASE Accept
  <2>1. stream[Head(incoming)] = "queued" /\ Head(incoming) \in Session
    BY <1>4, IncomingHead DEF Accept
  <2> QED BY <1>0, <1>1, <1>3, <1>4, <2>1 DEF Accept, taskVars, Live, TypeOK
<1>5. CASE DropListener
  BY <1>0, <1>1, <1>3, <1>5 DEF DropListener, taskVars, Live
<1>6. ASSUME NEW s \in Session, Read(s) \/ ReadNone(s) \/ PollRead(s) \/ DropStream(s)
      PROVE  OneLiveSession'
  BY <1>0, <1>1, <1>3, <1>6 DEF Read, ReadNone, PollRead, DropStream, taskVars, Live, TypeOK
<1>7. ASSUME NEW k \in Key, Arrive(k) \/ Expire(k) PROVE OneLiveSession'
  BY <1>1, <1>3, <1>7 DEF Arrive, Expire, taskVars, Live
<1>8. CASE ArriveShort \/ UNCHANGED vars
  BY <1>1, <1>3, <1>8 DEF ArriveShort, vars, taskVars, Live
<1> QED BY <1>2, <1>4, <1>5, <1>6, <1>7, <1>8 DEF Next

-----------------------------------------------------------------------------
(* The packets of a session *)

\* The packets of q are numbered from a + 1 on.
Numbered(q, a) == \A i \in DOMAIN q : q[i].n = a + i

\* A session took in r, c is in its channel, the task holds h, and the numbers in
\* are those still in the socket, of the n that came: all from a + 1 on.
RunFrom(r, c, h, in, n, a) ==
    \E b \in Nat, d \in Nat, e \in 0..n :
        /\ b = a + Len(r) /\ d = b + Len(c) /\ e = d + Len(h)
        /\ Numbered(r, a) /\ Numbered(c, b) /\ Numbered(h, d)
        /\ in = (e + 1)..n

Run(r, c, h, in, n) == \E a \in Nat : RunFrom(r, c, h, in, n, a)

\* What the socket has of a client is the last of what came.
LastIn(in, n) == \E m \in 0..n : in = (m + 1)..n

\* The parts of Run.
Parts(r, c, h) == r \in Seq(Packet) /\ c \in Seq(Packet) /\ h \in Seq(Packet)

LEMMA NumberedAppend ==
    ASSUME NEW q \in Seq(Packet), NEW p \in Packet, NEW a \in Nat, Numbered(q, a),
           p.n = a + Len(q) + 1
    PROVE  Numbered(Append(q, p), a)
<1>1. /\ DOMAIN q = 1..Len(q) /\ Len(q) \in Nat
      /\ DOMAIN Append(q, p) = 1..(Len(q) + 1)
      /\ \A i \in 1..Len(q) : Append(q, p)[i] = q[i]
      /\ Append(q, p)[Len(q) + 1] = p
  BY AppendProperties, LenProperties
<1> SUFFICES ASSUME NEW i \in 1..(Len(q) + 1) PROVE Append(q, p)[i].n = a + i
  BY <1>1 DEF Numbered
<1>2. CASE i = Len(q) + 1
  BY <1>1, <1>2
<1>3. CASE i \in 1..Len(q)
  BY <1>1, <1>3 DEF Numbered
<1> QED BY <1>1, <1>2, <1>3

LEMMA NumberedTail ==
    ASSUME NEW q \in Seq(Packet), q # <<>>, NEW a \in Nat, Numbered(q, a)
    PROVE  /\ Head(q) \in Packet /\ Head(q).n = a + 1
           /\ Tail(q) \in Seq(Packet) /\ Len(q) = Len(Tail(q)) + 1 /\ Len(Tail(q)) \in Nat
           /\ Numbered(Tail(q), a + 1)
<1>1. /\ Head(q) = q[1] /\ 1 \in DOMAIN q /\ Head(q) \in Packet
      /\ Tail(q) \in Seq(Packet) /\ Len(q) = Len(Tail(q)) + 1 /\ Len(Tail(q)) \in Nat
      /\ \A i \in DOMAIN Tail(q) : /\ i + 1 \in DOMAIN q /\ Tail(q)[i] = q[i + 1]
                                   /\ i \in Nat
  BY HeadTailProperties, LenProperties
<1> QED BY <1>1 DEF Numbered

\* The task takes the next packet of the client from the socket.
LEMMA RunTake ==
    ASSUME NEW r, NEW c, NEW in, NEW n \in Nat, NEW p \in Packet, Parts(r, c, <<>>),
           Run(r, c, <<>>, in, n), p.n \in in, \A x \in in : p.n <= x
    PROVE  Run(r, c, <<p>>, in \ {p.n}, n)
<1>1. PICK a \in Nat : RunFrom(r, c, <<>>, in, n, a)
  BY DEF Run
<1>2. PICK b \in Nat, d \in Nat, e \in 0..n :
          /\ b = a + Len(r) /\ d = b + Len(c) /\ e = d
          /\ Numbered(r, a) /\ Numbered(c, b) /\ in = (e + 1)..n
  BY <1>1 DEF RunFrom
<1>3. p.n = e + 1 /\ e + 1 \in 0..n
  <2>1. e + 1 \in in /\ p.n \in (e + 1)..n
    BY <1>2
  <2> QED BY <1>2, <2>1
<1>4. in \ {p.n} = ((e + 1) + 1)..n
  BY <1>2, <1>3
<1>5. Numbered(<<p>>, d) /\ Len(<<p>>) = 1
  BY <1>2, <1>3 DEF Numbered
<1>6. RunFrom(r, c, <<p>>, in \ {p.n}, n, a)
  <2> HIDE DEF Numbered
  <2>1. e + 1 = d + Len(<<p>>)
    BY <1>2, <1>5
  <2> QED BY <1>2, <1>3, <1>4, <1>5, <2>1 DEF RunFrom
<1> QED BY <1>6 DEF Run

\* The packet it holds goes to the channel.
LEMMA RunForward ==
    ASSUME NEW r, NEW c, NEW in, NEW n \in Nat, NEW p \in Packet, Parts(r, c, <<p>>),
           Run(r, c, <<p>>, in, n)
    PROVE  Run(r, Append(c, p), <<>>, in, n)
<1>1. PICK a \in Nat : RunFrom(r, c, <<p>>, in, n, a)
  BY DEF Run
<1>2. PICK b \in Nat, d \in Nat, e \in 0..n :
          /\ b = a + Len(r) /\ d = b + Len(c) /\ e = d + 1
          /\ Numbered(r, a) /\ Numbered(c, b) /\ Numbered(<<p>>, d) /\ in = (e + 1)..n
  BY <1>1 DEF RunFrom
<1>3. p.n = d + 1
  BY <1>2 DEF Numbered
<1>4. Len(c) \in Nat /\ Len(Append(c, p)) = Len(c) + 1
  BY AppendProperties, LenProperties DEF Parts
<1>5. Numbered(Append(c, p), b)
  BY <1>2, <1>3, <1>4, NumberedAppend DEF Parts
<1>6. Numbered(<<>>, e)
  BY DEF Numbered
<1>7. e \in Nat /\ e = b + Len(Append(c, p)) /\ e = e + Len(<<>>)
  BY <1>2, <1>4
<1> HIDE DEF Numbered
<1>8. RunFrom(r, Append(c, p), <<>>, in, n, a)
  BY <1>2, <1>5, <1>6, <1>7 DEF RunFrom
<1> QED BY <1>8 DEF Run

\* The session reads from its channel.
LEMMA RunRead ==
    ASSUME NEW r, NEW c, NEW h, NEW in, NEW n \in Nat, Parts(r, c, h), c # <<>>,
           Run(r, c, h, in, n)
    PROVE  Run(Append(r, Head(c)), Tail(c), h, in, n)
<1>1. PICK a \in Nat : RunFrom(r, c, h, in, n, a)
  BY DEF Run
<1>2. PICK b \in Nat, d \in Nat, e \in 0..n :
          /\ b = a + Len(r) /\ d = b + Len(c) /\ e = d + Len(h)
          /\ Numbered(r, a) /\ Numbered(c, b) /\ Numbered(h, d) /\ in = (e + 1)..n
  BY <1>1 DEF RunFrom
<1>3. /\ Head(c) \in Packet /\ Head(c).n = b + 1 /\ Tail(c) \in Seq(Packet)
      /\ Len(c) = Len(Tail(c)) + 1 /\ Len(Tail(c)) \in Nat /\ Numbered(Tail(c), b + 1)
  BY <1>2, NumberedTail DEF Parts
<1>4. Len(r) \in Nat /\ Len(Append(r, Head(c))) = Len(r) + 1
  BY <1>3, AppendProperties, LenProperties DEF Parts
<1>5. Numbered(Append(r, Head(c)), a)
  BY <1>2, <1>3, <1>4, NumberedAppend DEF Parts
<1>6. b + 1 \in Nat /\ b + 1 = a + Len(Append(r, Head(c))) /\ d = (b + 1) + Len(Tail(c))
  BY <1>2, <1>3, <1>4
<1> HIDE DEF Numbered
<1>7. RunFrom(Append(r, Head(c)), Tail(c), h, in, n, a)
  BY <1>2, <1>3, <1>5, <1>6 DEF RunFrom
<1> QED BY <1>7 DEF Run

\* Another packet comes.
LEMMA RunArrive ==
    ASSUME NEW r, NEW c, NEW h, NEW in, NEW n \in Nat, Run(r, c, h, in, n)
    PROVE  Run(r, c, h, in \cup {n + 1}, n + 1)
<1>1. PICK a \in Nat : RunFrom(r, c, h, in, n, a)
  BY DEF Run
<1>2. PICK b \in Nat, d \in Nat, e \in 0..n :
          /\ b = a + Len(r) /\ d = b + Len(c) /\ e = d + Len(h)
          /\ Numbered(r, a) /\ Numbered(c, b) /\ Numbered(h, d) /\ in = (e + 1)..n
  BY <1>1 DEF RunFrom
<1>3. e \in 0..(n + 1) /\ in \cup {n + 1} = (e + 1)..(n + 1)
  BY <1>2
<1> HIDE DEF Numbered
<1>4. RunFrom(r, c, h, in \cup {n + 1}, n + 1, a)
  BY <1>2, <1>3 DEF RunFrom
<1> QED BY <1>4 DEF Run

\* A session begins with the first packet in the socket.
LEMMA RunBegin ==
    ASSUME NEW in, NEW n \in Nat, NEW p \in Packet, LastIn(in, n),
           p.n \in in, \A x \in in : p.n <= x
    PROVE  Run(<<>>, <<p>>, <<>>, in \ {p.n}, n)
<1>1. PICK m \in 0..n : in = (m + 1)..n
  BY DEF LastIn
<1>2. p.n = m + 1 /\ m + 1 \in 0..n
  BY <1>1
<1>3. in \ {p.n} = ((m + 1) + 1)..n
  BY <1>1, <1>2
<1>4. Numbered(<<>>, m) /\ Numbered(<<p>>, m) /\ Numbered(<<>>, m + 1)
  BY <1>2 DEF Numbered
<1>5. m \in Nat /\ m + 1 \in Nat /\ Len(<<>>) = 0 /\ Len(<<p>>) = 1
  OBVIOUS
<1> HIDE DEF Numbered
<1>6. RunFrom(<<>>, <<p>>, <<>>, in \ {p.n}, n, m)
  BY <1>2, <1>3, <1>4, <1>5 DEF RunFrom
<1> QED BY <1>5, <1>6 DEF Run

\* A number less is left in the socket when the first is taken.
LEMMA LastTake ==
    ASSUME NEW in, NEW n \in Nat, NEW x, LastIn(in, n), x \in in, \A y \in in : x <= y
    PROVE  LastIn(in \ {x}, n)
<1>1. PICK m \in 0..n : in = (m + 1)..n
  BY DEF LastIn
<1>2. x = m + 1 /\ m + 1 \in 0..n
  BY <1>1
<1>3. in \ {x} = ((m + 1) + 1)..n
  BY <1>1, <1>2
<1> QED BY <1>2, <1>3 DEF LastIn

LEMMA LastArrive ==
    ASSUME NEW in, NEW n \in Nat, LastIn(in, n)
    PROVE  LastIn(in \cup {n + 1}, n + 1)
<1>1. PICK m \in 0..n : in = (m + 1)..n
  BY DEF LastIn
<1>2. m \in 0..(n + 1) /\ in \cup {n + 1} = (m + 1)..(n + 1)
  BY <1>1
<1> QED BY <1>2 DEF LastIn

\* The packets of q are those before the ones in the socket.
Before(q, in, n) ==
    \E last \in 0..n : /\ \A i \in 1..Len(q) : q[i].n = last - Len(q) + i
                       /\ in = (last + 1)..n

\* What Run says of the three parts together.
LEMMA RunIs ==
    ASSUME NEW r, NEW c, NEW h, NEW in, NEW n \in Nat, Parts(r, c, h), Run(r, c, h, in, n),
           NEW q, q = r \o c \o h
    PROVE  Before(q, in, n)
<1>1. PICK a \in Nat : RunFrom(r, c, h, in, n, a)
  BY DEF Run
<1>2. PICK b \in Nat, d \in Nat, e \in 0..n :
          /\ b = a + Len(r) /\ d = b + Len(c) /\ e = d + Len(h)
          /\ Numbered(r, a) /\ Numbered(c, b) /\ Numbered(h, d) /\ in = (e + 1)..n
  BY <1>1 DEF RunFrom
<1>3. /\ Len(r) \in Nat /\ Len(c) \in Nat /\ Len(h) \in Nat
      /\ DOMAIN r = 1..Len(r) /\ DOMAIN c = 1..Len(c) /\ DOMAIN h = 1..Len(h)
  BY LenProperties DEF Parts
<1> DEFINE u == r \o c
<1>4. /\ u \in Seq(Packet) /\ Len(u) = Len(r) + Len(c)
      /\ \A i \in 1..Len(u) : u[i] = IF i <= Len(r) THEN r[i] ELSE c[i - Len(r)]
  BY ConcatProperties DEF Parts
<1>5. /\ Len(q) = Len(u) + Len(h)
      /\ \A i \in 1..Len(q) : q[i] = IF i <= Len(u) THEN u[i] ELSE h[i - Len(u)]
  <2> HIDE DEF u
  <2> QED BY <1>4, ConcatProperties DEF Parts, u
<1> HIDE DEF u
<1>6. ASSUME NEW i \in 1..Len(q) PROVE q[i].n = a + i
  <2>1. CASE i <= Len(r)
    <3>1. i \in DOMAIN r /\ q[i] = r[i]
      BY <1>3, <1>4, <1>5, <2>1
    <3> QED BY <1>2, <3>1 DEF Numbered
  <2>2. CASE i > Len(r) /\ i <= Len(u)
    <3>1. i - Len(r) \in DOMAIN c /\ q[i] = c[i - Len(r)]
      BY <1>3, <1>4, <1>5, <2>2
    <3>2. q[i].n = b + (i - Len(r))
      BY <1>2, <3>1 DEF Numbered
    <3> QED BY <1>2, <1>3, <3>2
  <2>3. CASE i > Len(u)
    <3>1. i - Len(u) \in DOMAIN h /\ q[i] = h[i - Len(u)]
      BY <1>3, <1>4, <1>5, <2>3
    <3>2. q[i].n = d + (i - Len(u))
      BY <1>2, <3>1 DEF Numbered
    <3> QED BY <1>2, <1>3, <1>4, <3>2
  <2> QED BY <1>3, <1>4, <2>1, <2>2, <2>3
<1>7. \A i \in 1..Len(q) : q[i].n = e - Len(q) + i
  <2>1. e - Len(q) = a
    BY <1>2, <1>3, <1>4, <1>5
  <2> QED BY <1>6, <2>1
<1> QED BY <1>2, <1>7 DEF Before

\* The packets of a live session, wherever they are.
RunOf(k) == Run(read[sessions[k]], channel[sessions[k]], Held(k), InSocket(k), arrived[k])

SocketInv == \A k \in Key : LastIn(InSocket(k), arrived[k])
UnreadInv == \A s \in Session : stream[s] = "none" => read[s] = <<>>
RunInv == async = {} => \A k \in DOMAIN sessions : Live(sessions[k]) => RunOf(k)

SkipInv == SocketInv /\ UnreadInv /\ RunInv

LEMMA InSocketTake ==
    ASSUME TypeOK, MadeInv, socket # <<>>, socket' = Tail(socket), NEW k \in Key,
           NEW p, p = Head(socket)
    PROVE  /\ p = Short \/ p.key # k => InSocket(k)' = InSocket(k)
           /\ p # Short /\ p.key = k =>
                  /\ p \in Packet /\ p.n \in InSocket(k) /\ \A x \in InSocket(k) : p.n <= x
                  /\ InSocket(k)' = InSocket(k) \ {p.n}
<1>1. /\ p = socket[1] /\ 1 \in DOMAIN socket /\ p \in Packet \cup {Short}
      /\ \A i \in DOMAIN socket' : i + 1 \in DOMAIN socket /\ socket'[i] = socket[i + 1]
                                   /\ i \in Nat \ {0}
  BY SocketHead
<1>2. \A i \in DOMAIN socket : i # 1 => i - 1 \in DOMAIN socket' /\ socket'[i - 1] = socket[i]
  <2>1. /\ DOMAIN socket = 1..Len(socket) /\ Len(socket) \in Nat
        /\ DOMAIN socket' = 1..(Len(socket) - 1)
    BY HeadTailProperties, LenProperties DEF TypeOK
  <2>2. \A i \in DOMAIN socket : i # 1 => i - 1 \in DOMAIN socket' /\ (i - 1) + 1 = i
    BY <2>1
  <2> QED BY <1>1, <2>2
<1>3. \A x : x \in InSocket(k) <=>
          \E i \in DOMAIN socket : socket[i] # Short /\ socket[i].key = k /\ x = socket[i].n
  BY DEF InSocket
<1>4. \A x : x \in InSocket(k)' <=>
          \E i \in DOMAIN socket' : socket'[i] # Short /\ socket'[i].key = k /\ x = socket'[i].n
  BY DEF InSocket
<1>5. \A x : x \in InSocket(k)' =>
          \E i \in DOMAIN socket : /\ 1 < i /\ socket[i] # Short /\ socket[i].key = k
                                   /\ x = socket[i].n
  <2> SUFFICES ASSUME NEW x \in InSocket(k)'
               PROVE  \E i \in DOMAIN socket : /\ 1 < i /\ socket[i] # Short /\ socket[i].key = k
                                               /\ x = socket[i].n
    OBVIOUS
  <2>1. PICK i \in DOMAIN socket' : socket'[i] # Short /\ socket'[i].key = k /\ x = socket'[i].n
    BY <1>4
  <2>2. i + 1 \in DOMAIN socket /\ 1 < i + 1
    BY <1>1
  <2> QED BY <1>1, <2>1, <2>2
<1>6. \A x : (\E i \in DOMAIN socket : /\ i # 1 /\ socket[i] # Short /\ socket[i].key = k
                                       /\ x = socket[i].n) => x \in InSocket(k)'
  <2> SUFFICES ASSUME NEW x, NEW i \in DOMAIN socket,
                      i # 1, socket[i] # Short, socket[i].key = k, x = socket[i].n
               PROVE  x \in InSocket(k)'
    OBVIOUS
  <2> DEFINE j == i - 1
  <2>1. j \in DOMAIN socket' /\ socket'[j] = socket[i]
    BY <1>2
  <2> HIDE DEF j
  <2> QED BY <1>4, <2>1
<1>7. CASE p = Short \/ p.key # k
  <2>1. \A i \in DOMAIN socket : socket[i] # Short /\ socket[i].key = k => i # 1
    BY <1>1, <1>7
  <2>2. \A x : x \in InSocket(k)' <=> x \in InSocket(k)
    BY <1>3, <1>5, <1>6, <2>1
  <2> QED BY <1>7, <2>2
<1>8. CASE p # Short /\ p.key = k
  <2>1. p \in Packet /\ p.n \in Nat /\ p.n \in InSocket(k)
    BY <1>1, <1>3, <1>8 DEF Packet
  <2>2. \A i \in DOMAIN socket : 1 < i /\ socket[i] # Short /\ socket[i].key = k
            => p.n < socket[i].n
    BY <1>1, <1>8 DEF MadeInv
  <2>3. \A i \in DOMAIN socket : i = 1 \/ 1 < i
    BY LenProperties DEF TypeOK
  <2>4. \A i \in DOMAIN socket : socket[i] # Short => socket[i].n \in Nat
    BY ElementOfSeq DEF TypeOK, Packet
  <2>5. \A x \in InSocket(k) : p.n <= x
    BY <1>1, <1>3, <2>1, <2>2, <2>3, <2>4
  <2>6. p.n \notin InSocket(k)'
    BY <1>5, <2>1, <2>2, <2>4
  <2>7. \A x : x \in InSocket(k)' <=> x \in InSocket(k) /\ x # p.n
    BY <1>1, <1>3, <1>5, <1>6, <2>6
  <2> QED BY <1>8, <2>1, <2>5, <2>7
<1> QED BY <1>7, <1>8

LEMMA InSocketArrive ==
    ASSUME TypeOK, NEW j, socket' = Append(socket, j), NEW k \in Key
    PROVE  /\ j = Short \/ j.key # k => InSocket(k)' = InSocket(k)
           /\ j # Short /\ j.key = k => InSocket(k)' = InSocket(k) \cup {j.n}
<1>1. /\ DOMAIN socket' = 1..(Len(socket) + 1) /\ DOMAIN socket = 1..Len(socket)
      /\ Len(socket) \in Nat /\ socket'[Len(socket) + 1] = j
      /\ \A i \in DOMAIN socket : socket'[i] = socket[i]
  BY AppendProperties, LenProperties DEF TypeOK
<1>2. \A i : i \in DOMAIN socket' <=> i \in DOMAIN socket \/ i = Len(socket) + 1
  BY <1>1
<1>3. \A x : x \in InSocket(k) <=>
          \E i \in DOMAIN socket : socket[i] # Short /\ socket[i].key = k /\ x = socket[i].n
  BY DEF InSocket
<1>4. \A x : x \in InSocket(k)' <=>
          \E i \in DOMAIN socket' : socket'[i] # Short /\ socket'[i].key = k /\ x = socket'[i].n
  BY DEF InSocket
<1>5. \A x : x \in InSocket(k)' <=> x \in InSocket(k) \/ (j # Short /\ j.key = k /\ x = j.n)
  BY <1>1, <1>2, <1>3, <1>4
<1> QED BY <1>5

\* What of a live session its packets are.
LEMMA RoutedSession ==
    ASSUME TypeOK, NEW k \in DOMAIN sessions
    PROVE  /\ k \in Key /\ sessions[k] \in Session /\ sessions[k].key = k
           /\ Parts(read[sessions[k]], channel[sessions[k]], Held(k))
           /\ arrived[k] \in Nat
<1>1. task.at = "routing" => task.packet \in Packet
  BY TaskPlaces, TypesSplit DEF RoutesOK
<1>2. Held(k) \in Seq(Packet)
  BY <1>1 DEF Held
<1> QED BY <1>2 DEF TypeOK, Parts

LEMMA SocketStep ==
    ASSUME Inv, SocketInv, [Next]_vars
    PROVE  SocketInv'
<1>0. TypeOK /\ MadeInv
  BY DEF Inv
<1>1. ASSUME UNCHANGED <<socket, arrived>> PROVE SocketInv'
  BY <1>1 DEF SocketInv, InSocket
<1>2. ASSUME socket # <<>>, socket' = Tail(socket), arrived' = arrived PROVE SocketInv'
  <2> SUFFICES ASSUME NEW k \in Key PROVE LastIn(InSocket(k)', arrived[k])
    BY <1>2 DEF SocketInv
  <2>1. LastIn(InSocket(k), arrived[k]) /\ arrived[k] \in Nat
    BY <1>0 DEF SocketInv, TypeOK
  <2> DEFINE p == Head(socket)
  <2>2. CASE p = Short \/ p.key # k
    BY <1>0, <1>2, <2>1, <2>2, InSocketTake
  <2>3. CASE p # Short /\ p.key = k
    <3>1. /\ p.n \in InSocket(k) /\ \A x \in InSocket(k) : p.n <= x
          /\ InSocket(k)' = InSocket(k) \ {p.n}
      BY <1>0, <1>2, <2>3, InSocketTake
    <3> QED BY <2>1, <3>1, LastTake
  <2> QED BY <2>2, <2>3
<1>3. ASSUME NEW k \in Key, Arrive(k) PROVE SocketInv'
  <2> DEFINE p == [key |-> k, n |-> arrived[k] + 1]
  <2>1. /\ socket' = Append(socket, p) /\ p.key = k /\ p.n = arrived[k] + 1 /\ p # Short
        /\ \A j \in Key : arrived'[j] = IF j = k THEN arrived[k] + 1 ELSE arrived[j]
    <3>1. p \in Packet
      BY <1>0, <1>3, ListenerAssumption DEF Arrive, TypeOK, Packet
    <3> QED BY <1>0, <1>3, <3>1, PacketIsLong DEF Arrive, TypeOK
  <2> HIDE DEF p
  <2> SUFFICES ASSUME NEW j \in Key PROVE LastIn(InSocket(j)', arrived'[j])
    BY DEF SocketInv
  <2>2. LastIn(InSocket(j), arrived[j]) /\ arrived[j] \in Nat
    BY <1>0 DEF SocketInv, TypeOK
  <2>3. CASE j = k
    BY <1>0, <2>1, <2>2, <2>3, InSocketArrive, LastArrive
  <2>4. CASE j # k
    BY <1>0, <2>1, <2>2, <2>4, InSocketArrive
  <2> QED BY <2>3, <2>4
<1>4. CASE ArriveShort
  <2>1. \A k \in Key : InSocket(k)' = InSocket(k)
    BY <1>0, <1>4, InSocketArrive DEF ArriveShort
  <2> QED BY <1>4, <2>1 DEF ArriveShort, SocketInv
<1>5. CASE RecvFrom
  BY <1>2, <1>5 DEF RecvFrom
<1>6. CASE RouteLater \/ HandLater \/ Accept \/ DropListener \/ UNCHANGED vars
  BY <1>1, <1>6 DEF RouteLater, HandLater, Accept, DropListener, vars
<1>7. ASSUME NEW s \in Session, Read(s) \/ ReadNone(s) \/ DropStream(s) PROVE SocketInv'
  BY <1>1, <1>7 DEF Read, ReadNone, DropStream
<1>8. ASSUME NEW s \in Session, PollRead(s) PROVE SocketInv'
  BY <1>2, <1>8 DEF PollRead
<1>9. ASSUME NEW k \in Key, Expire(k) PROVE SocketInv'
  BY <1>1, <1>9 DEF Expire
<1> QED BY <1>3, <1>4, <1>5, <1>6, <1>7, <1>8, <1>9 DEF Next

\* A stream that was there is not undone.
LEMMA UnreadStep ==
    ASSUME Inv, UnreadInv, [Next]_vars
    PROVE  UnreadInv'
<1>0. TypeOK /\ MadeInv /\ RouteInv /\ FreshInv
  BY DEF Inv
<1>1. ASSUME UNCHANGED read, \A s \in Session : stream'[s] = "none" => stream[s] = "none"
      PROVE  UnreadInv'
  BY <1>1 DEF UnreadInv
<1>2. CASE RecvFrom \/ RouteLater \/ HandLater
  <2>0. UNCHANGED read
    BY <1>2 DEF RecvFrom, RouteLater, HandLater
  <2>1. CASE UNCHANGED <<taskVars, channel, stream, incoming>>
    BY <1>1, <2>0, <2>1
  <2>2. ASSUME NEW p, Routed(p) PROVE UnreadInv'
    BY <1>1, <2>0, <2>2, RoutedKeeps
  <2>3. CASE socket # <<>> /\ Head(socket) # Short /\ NewSession(Head(socket))
    <3> DEFINE s == [key |-> Head(socket).key, n |-> made[Head(socket).key] + 1]
    <3>1. stream'[s] # "none" /\ \A t \in Session : t # s => stream'[t] = stream[t]
      BY <1>0, <2>3, NewEffect
    <3> HIDE DEF s
    <3> QED BY <1>1, <2>0, <3>1
  <2>4. CASE task.at = "handing" /\ HandLater
    BY <1>0, <1>1, <2>0, <2>4, HandingSession DEF HandLater, TypeOK
  <2> QED BY <1>0, <1>2, <2>1, <2>2, <2>3, <2>4, TaskSteps DEF RecvFrom
<1>3. CASE Accept
  BY <1>0, <1>1, <1>3, IncomingHead DEF Accept, TypeOK
<1>4. CASE DropListener
  BY <1>0, <1>1, <1>4 DEF DropListener, TypeOK
<1>5. ASSUME NEW s \in Session, ReadNone(s) \/ DropStream(s) PROVE UnreadInv'
  BY <1>0, <1>1, <1>5 DEF ReadNone, DropStream, TypeOK
<1>6. ASSUME NEW s \in Session, Read(s) \/ PollRead(s) PROVE UnreadInv'
  <2>1. stream' = stream /\ stream[s] = "open"
        /\ \A t \in Session : t # s => read'[t] = read[t]
    BY <1>0, <1>6 DEF Read, PollRead, TypeOK
  <2> QED BY <2>1 DEF UnreadInv
<1>7. ASSUME NEW k \in Key, Arrive(k) \/ Expire(k) PROVE UnreadInv'
  BY <1>1, <1>7 DEF Arrive, Expire
<1>8. CASE ArriveShort \/ UNCHANGED vars
  BY <1>1, <1>8 DEF ArriveShort, vars
<1> QED BY <1>2, <1>3, <1>4, <1>5, <1>6, <1>7, <1>8 DEF Next

\* The session that is routed to after a step is live then.
LiveThen(k) == stream'[sessions'[k]] \in {"queued", "open"}

\* The task takes the packet p of the client k of a live session from the socket.
LEMMA RunHolds ==
    ASSUME Inv, NEW k \in DOMAIN sessions, RunOf(k), task = Receiving,
           socket # <<>>, socket' = Tail(socket), Head(socket) # Short, Head(socket).key = k,
           NEW s, s = sessions[k]
    PROVE  Run(read[s], channel[s], <<Head(socket)>>, InSocket(k)', arrived[k])
<1>1. /\ k \in Key /\ Parts(read[s], channel[s], Held(k)) /\ arrived[k] \in Nat
  BY RoutedSession DEF Inv
<1>2. Held(k) = <<>>
  BY PlacesDiffer DEF Held
<1> DEFINE p == Head(socket)
<1>3. /\ p \in Packet /\ p.n \in InSocket(k) /\ \A x \in InSocket(k) : p.n <= x
      /\ InSocket(k)' = InSocket(k) \ {p.n}
  BY <1>1, InSocketTake DEF Inv
<1> HIDE DEF p
<1>4. Run(read[s], channel[s], <<p>>, InSocket(k) \ {p.n}, arrived[k])
  <2> DEFINE in == InSocket(k)
             n == arrived[k]
             r == read[s]
             c == channel[s]
  <2>1. Parts(r, c, <<>>) /\ Run(r, c, <<>>, in, n) /\ n \in Nat
    BY <1>1, <1>2 DEF RunOf
  <2>2. p \in Packet /\ p.n \in in /\ \A x \in in : p.n <= x
    BY <1>3
  <2> HIDE DEF in, n, r, c
  <2>3. Run(r, c, <<p>>, in \ {p.n}, n)
    BY <2>1, <2>2, RunTake
  <2> QED BY <2>3 DEF in, n, r, c
<1> QED BY <1>3, <1>4 DEF p

\* What the task does with a packet in its hand: h is what it holds of client k.
LEMMA RunRouted ==
    ASSUME Inv, NEW p, Routed(p), read' = read, arrived' = arrived,
           NEW k \in DOMAIN sessions', k \in DOMAIN sessions, NEW s, s = sessions[k],
           NEW h, h = IF p.key = k THEN <<p>> ELSE <<>>,
           Run(read[s], channel[s], h, InSocket(k)', arrived[k])
    PROVE  RunOf(k)'
<1>1. /\ k \in Key /\ s \in Session /\ s.key = k /\ arrived[k] \in Nat
      /\ Parts(read[s], channel[s], Held(k))
  BY RoutedSession DEF Inv
<1>2. p \in Packet /\ p.key \in DOMAIN sessions
  BY DEF Routed
<1>3. CASE Forward(p)
  <2>1. /\ sessions' = sessions /\ task' = Receiving
        /\ channel' = [channel EXCEPT ![sessions[p.key]] = Append(@, p)]
    BY <1>3 DEF Forward
  <2>2. Held(k)' = <<>>
    BY <2>1, PlacesDiffer DEF Held
  <2>3. CASE p.key = k
    <3>1. channel'[s] = Append(channel[s], p)
      BY <1>1, <2>1, <2>3 DEF Inv, TypeOK
    <3>2. Run(read[s], Append(channel[s], p), <<>>, InSocket(k)', arrived[k])
      <4> DEFINE in == InSocket(k)'
                 n == arrived[k]
                 r == read[s]
                 c == channel[s]
      <4>1. Parts(r, c, <<p>>) /\ Run(r, c, <<p>>, in, n) /\ n \in Nat
        BY <1>1, <1>2, <2>3 DEF Parts
      <4> HIDE DEF in, n, r, c
      <4>2. Run(r, Append(c, p), <<>>, in, n)
        BY <1>2, <4>1, RunForward
      <4> QED BY <4>2 DEF in, n, r, c
    <3> QED BY <2>1, <2>2, <3>1, <3>2 DEF RunOf
  <2>4. CASE p.key # k
    <3>1. sessions[p.key].key = p.key
      BY <1>2, RoutedSession DEF Inv
    <3>2. channel'[s] = channel[s]
      BY <1>1, <2>1, <2>4, <3>1 DEF Inv, TypeOK
    <3> QED BY <2>1, <2>2, <2>4, <3>2 DEF RunOf
  <2> QED BY <2>3, <2>4
<1>4. CASE Forget(p)
  <2>1. /\ sessions' = [j \in DOMAIN sessions \ {p.key} |-> sessions[j]]
        /\ task' = Receiving /\ channel' = channel
    BY <1>4 DEF Forget, Restrict
  <2>2. Held(k)' = <<>>
    BY <2>1, PlacesDiffer DEF Held
  <2>3. k # p.key /\ sessions'[k] = s
    BY <2>1
  <2> QED BY <2>1, <2>2, <2>3 DEF RunOf
<1>5. CASE AwaitRoom(p)
  <2>1. sessions' = sessions /\ task' = Routing(p) /\ channel' = channel
    BY <1>5 DEF AwaitRoom
  <2>2. Held(k)' = h
    BY <2>1, PlacesDiffer DEF Held
  <2> QED BY <2>1, <2>2 DEF RunOf
<1> QED BY <1>3, <1>4, <1>5 DEF Routed

\* What becomes of the router's map with the new session s.
Routes(s) ==
    \/ /\ listening
       /\ task' \in {Receiving, Handing(s)}
       /\ DOMAIN sessions' = DOMAIN sessions \cup {s.key}
       /\ sessions'[s.key] = s
       /\ \A k \in DOMAIN sessions : k # s.key => sessions'[k] = sessions[k]
    \/ DOMAIN sessions' = {}

LEMMA NewRoutes ==
    ASSUME TypeOK, MadeInv, FreshInv, socket # <<>>, Head(socket) # Short,
           NewSession(Head(socket)),
           NEW s, s = [key |-> Head(socket).key, n |-> made[Head(socket).key] + 1]
    PROVE  Routes(s)
<1>1. HandOver(s) /\ s.key = Head(socket).key
  BY DEF NewSession
<1>2. CASE listening
  BY <1>1, <1>2 DEF HandOver, NewSession, Routes
<1>3. CASE ~listening
  BY <1>1, <1>3 DEF HandOver, NewSession, Routes, Restrict
<1> QED BY <1>2, <1>3

\* The new session begins with the packet; the others are as they were.
LEMMA RunNew ==
    ASSUME Inv, SkipInv, async = {}, task = Receiving, socket # <<>>, socket' = Tail(socket),
           Head(socket) # Short, Head(socket).key \notin DOMAIN sessions,
           NewSession(Head(socket)), read' = read, arrived' = arrived,
           NEW k \in DOMAIN sessions', LiveThen(k)
    PROVE  RunOf(k)'
<1> DEFINE p == Head(socket)
           s == [key |-> p.key, n |-> made[p.key] + 1]
<1>0. TypeOK /\ MadeInv /\ FreshInv
  BY DEF Inv
<1>a. s = [key |-> Head(socket).key, n |-> made[Head(socket).key] + 1]
  OBVIOUS
<1> HIDE DEF s
<1>1. /\ s \in Session /\ s.key = p.key /\ p.key \in Key /\ stream[s] = "none"
      /\ \A t \in Session : t # s => stream'[t] = stream[t]
      /\ Routes(s)
  <2> HIDE DEF p
  <2>1. s \in Session /\ s.key = Head(socket).key /\ s.key \in Key /\ stream[s] = "none"
    BY <1>0, <1>a, NewEffect
  <2>2. \A t \in Session : t # s => stream'[t] = stream[t]
    BY <1>0, <1>a, NewEffect
  <2>3. Routes(s)
    BY <1>0, <1>a, NewRoutes
  <2>4. p = Head(socket)
    BY DEF p
  <2> QED BY <2>1, <2>2, <2>3, <2>4
<1>b. /\ listening /\ task' \in {Receiving, Handing(s)}
      /\ sessions'[p.key] = s
      /\ k # p.key => k \in DOMAIN sessions /\ sessions'[k] = sessions[k]
  <2> HIDE DEF p
  <2> QED BY <1>1 DEF Routes
<1>2. listening
  BY <1>b
<1>3. channel' = [channel EXCEPT ![s] = <<p>>]
  BY <1>2, <1>a DEF NewSession
<1> HIDE DEF p
<1>4. Held(k)' = <<>>
  BY <1>b, PlacesDiffer DEF Held
<1>5. CASE k = p.key
  <2>1. sessions'[k] = s /\ channel'[s] = <<p>> /\ read[s] = <<>>
    BY <1>0, <1>1, <1>b, <1>3, <1>5 DEF TypeOK, SkipInv, UnreadInv
  <2>2. /\ p \in Packet /\ p.n \in InSocket(k) /\ \A x \in InSocket(k) : p.n <= x
        /\ InSocket(k)' = InSocket(k) \ {p.n}
    BY <1>0, <1>1, <1>5, InSocketTake DEF p
  <2>3. LastIn(InSocket(k), arrived[k]) /\ arrived[k] \in Nat
    BY <1>0, <1>1, <1>5 DEF TypeOK, SkipInv, SocketInv
  <2>4. Run(<<>>, <<p>>, <<>>, InSocket(k) \ {p.n}, arrived[k])
    <3> DEFINE in == InSocket(k)
               n == arrived[k]
    <3>1. /\ p \in Packet /\ LastIn(in, n) /\ n \in Nat /\ p.n \in in
          /\ \A x \in in : p.n <= x
      BY <2>2, <2>3
    <3> HIDE DEF in, n
    <3>2. Run(<<>>, <<p>>, <<>>, in \ {p.n}, n)
      BY <3>1, RunBegin
    <3> QED BY <3>2 DEF in, n
  <2> QED BY <1>4, <2>1, <2>2, <2>4 DEF RunOf
<1>6. CASE k # p.key
  <2>1. k \in DOMAIN sessions /\ sessions'[k] = sessions[k]
    BY <1>b, <1>6
  <2>2. k \in Key /\ sessions[k] \in Session /\ sessions[k] # s
    BY <1>0, <1>1, <1>6, <2>1, RoutedSession
  <2>3. Live(sessions[k]) /\ channel'[sessions[k]] = channel[sessions[k]]
    BY <1>0, <1>1, <1>3, <2>1, <2>2 DEF Live, LiveThen, TypeOK
  <2>4. InSocket(k)' = InSocket(k)
    BY <1>0, <1>6, <2>2, InSocketTake DEF p
  <2>5. RunOf(k) /\ Held(k) = <<>>
    BY <2>1, <2>3, PlacesDiffer DEF SkipInv, RunInv, Held
  <2> QED BY <1>4, <2>1, <2>3, <2>4, <2>5 DEF RunOf
<1> QED BY <1>5, <1>6

LEMMA RunTask ==
    ASSUME Inv, SkipInv, async = {}, RecvFrom \/ RouteLater \/ HandLater,
           NEW k \in DOMAIN sessions', LiveThen(k)
    PROVE  RunOf(k)'
<1>0. /\ TypeOK /\ MadeInv /\ RouteInv /\ FreshInv
      /\ \A j \in DOMAIN sessions : Live(sessions[j]) => RunOf(j)
  BY DEF Inv, SkipInv, RunInv
<1>1. CASE RecvFrom
  <2> DEFINE p == Head(socket)
  <2>1. /\ task = Receiving /\ socket # <<>> /\ socket' = Tail(socket)
        /\ read' = read /\ arrived' = arrived
    BY <1>1 DEF RecvFrom
  <2>2. CASE /\ p = Short \/ p.key \notin DOMAIN sessions
             /\ UNCHANGED <<taskVars, channel, stream, incoming>>
    <3>1. k \in DOMAIN sessions /\ sessions' = sessions /\ Live(sessions[k]) /\ k \in Key
      BY <1>0, <2>2, RoutedSession DEF taskVars, Live, LiveThen
    <3>2. InSocket(k)' = InSocket(k) /\ Held(k)' = Held(k)
      BY <1>0, <2>1, <2>2, <3>1, InSocketTake DEF taskVars, Held
    <3> QED BY <1>0, <2>1, <2>2, <3>1, <3>2 DEF taskVars, RunOf
  <2>3. CASE p # Short /\ Routed(p)
    <3>1. k \in DOMAIN sessions /\ sessions'[k] = sessions[k] /\ Live(sessions[k])
      BY <2>3 DEF Routed, Forward, Forget, AwaitRoom, Live, LiveThen, Restrict
    <3>2. k \in Key /\ RunOf(k)
      BY <1>0, <3>1, RoutedSession
    <3>3. CASE p.key = k
      <4>1. Run(read[sessions[k]], channel[sessions[k]], <<p>>, InSocket(k)', arrived[k])
        BY <2>1, <2>3, <3>1, <3>2, <3>3, RunHolds
      <4> QED BY <2>1, <2>3, <3>1, <3>3, <4>1, RunRouted
    <3>4. CASE p.key # k
      <4>1. InSocket(k)' = InSocket(k) /\ Held(k) = <<>>
        BY <1>0, <2>1, <3>2, <3>4, InSocketTake, PlacesDiffer DEF Held
      <4>2. Run(read[sessions[k]], channel[sessions[k]], <<>>, InSocket(k)', arrived[k])
        BY <3>2, <4>1 DEF RunOf
      <4> QED BY <2>1, <2>3, <3>1, <3>4, <4>2, RunRouted
    <3> QED BY <3>3, <3>4
  <2>4. CASE p # Short /\ p.key \notin DOMAIN sessions /\ NewSession(p)
    BY <2>1, <2>4, RunNew
  <2> QED BY <1>0, <1>1, <2>2, <2>3, <2>4, SocketHead DEF RecvFrom, Routed
<1>2. CASE RouteLater
  <2> DEFINE p == task.packet
  <2>1. /\ Routed(p) /\ task.at = "routing" /\ socket' = socket
        /\ read' = read /\ arrived' = arrived
    BY <1>0, <1>2, TaskPlaces, TypesSplit DEF RouteLater, RouteInv, RoutesOK, Routed
  <2>2. k \in DOMAIN sessions /\ sessions'[k] = sessions[k] /\ Live(sessions[k])
    BY <2>1 DEF Routed, Forward, Forget, AwaitRoom, Live, LiveThen, Restrict
  <2>3. RunOf(k) /\ Held(k) = (IF p.key = k THEN <<p>> ELSE <<>>) /\ InSocket(k)' = InSocket(k)
    BY <1>0, <2>1, <2>2 DEF Held, InSocket
  <2>4. Run(read[sessions[k]], channel[sessions[k]], Held(k), InSocket(k)', arrived[k])
    BY <2>3 DEF RunOf
  <2> HIDE DEF p
  <2> QED BY <2>1, <2>2, <2>3, <2>4, RunRouted
<1>3. CASE HandLater
  <2>1. /\ sessions' = sessions /\ channel' = channel /\ read' = read
        /\ arrived' = arrived /\ socket' = socket /\ stream' = stream
        /\ task.at = "handing" /\ task' = Receiving
    BY <1>3 DEF HandLater, Restrict
  <2>2. Held(k)' = <<>> /\ Held(k) = <<>> /\ InSocket(k)' = InSocket(k)
    BY <2>1, PlacesDiffer DEF Held, InSocket
  <2>3. RunOf(k)
    BY <1>0, <2>1 DEF Live, LiveThen
  <2> QED BY <2>1, <2>2, <2>3 DEF RunOf
<1> QED BY <1>1, <1>2, <1>3

LEMMA RunOutside ==
    ASSUME Inv, SkipInv, async = {}, Outside,
           NEW k \in DOMAIN sessions', LiveThen(k)
    PROVE  RunOf(k)'
<1>0. /\ TypeOK /\ \A j \in DOMAIN sessions : Live(sessions[j]) => RunOf(j)
  BY DEF Inv, SkipInv, RunInv
<1>1. sessions' = sessions /\ task' = task
  BY DEF Outside, Arrive, Expire, ArriveShort, Accept, DropListener, Read, ReadNone,
         PollRead, DropStream, taskVars
<1> DEFINE s == sessions[k]
<1>2. /\ k \in DOMAIN sessions /\ k \in Key /\ s \in Session /\ s.key = k
      /\ arrived[k] \in Nat /\ Parts(read[s], channel[s], Held(k))
  BY <1>0, <1>1, RoutedSession
<1>3. Held(k)' = Held(k)
  BY <1>1 DEF Held
<1>4. ASSUME Live(s), UNCHANGED <<socket, arrived>>,
             read'[s] = read[s], channel'[s] = channel[s]
      PROVE  RunOf(k)'
  <2>1. InSocket(k)' = InSocket(k)
    BY <1>4 DEF InSocket
  <2> QED BY <1>0, <1>1, <1>2, <1>3, <1>4, <2>1 DEF RunOf
<1>5. ASSUME NEW j \in Key, Arrive(j) PROVE RunOf(k)'
  <2> DEFINE p == [key |-> j, n |-> arrived[j] + 1]
  <2>1. /\ socket' = Append(socket, p) /\ p.key = j /\ p.n = arrived[j] + 1 /\ p # Short
        /\ arrived'[k] = IF k = j THEN arrived[j] + 1 ELSE arrived[k]
        /\ read' = read /\ channel' = channel /\ stream' = stream
    <3>1. p \in Packet
      BY <1>0, <1>5, ListenerAssumption DEF Arrive, TypeOK, Packet
    <3> QED BY <1>0, <1>2, <1>5, <3>1, PacketIsLong DEF Arrive, TypeOK
  <2> HIDE DEF p
  <2>2. RunOf(k)
    BY <1>0, <1>1, <1>2, <2>1 DEF Live, LiveThen
  <2>3. CASE j = k
    <3>1. InSocket(k)' = InSocket(k) \cup {arrived[k] + 1}
      BY <1>0, <1>2, <2>1, <2>3, InSocketArrive
    <3>2. Run(read[s], channel[s], Held(k), InSocket(k) \cup {arrived[k] + 1}, arrived[k] + 1)
      <4> DEFINE in == InSocket(k)
                 n == arrived[k]
                 r == read[s]
                 c == channel[s]
                 h == Held(k)
      <4>1. n \in Nat /\ Run(r, c, h, in, n)
        BY <1>2, <2>2 DEF RunOf
      <4> HIDE DEF in, n, r, c, h
      <4>2. Run(r, c, h, in \cup {n + 1}, n + 1)
        BY <4>1, RunArrive
      <4> QED BY <4>2 DEF in, n, r, c, h
    <3> QED BY <1>1, <1>3, <2>1, <2>3, <3>1, <3>2 DEF RunOf
  <2>4. CASE j # k
    <3>1. InSocket(k)' = InSocket(k)
      BY <1>0, <1>2, <2>1, <2>4, InSocketArrive
    <3> QED BY <1>1, <1>3, <2>1, <2>2, <2>4, <3>1 DEF RunOf
  <2> QED BY <2>3, <2>4
<1>6. CASE ArriveShort
  <2>1. InSocket(k)' = InSocket(k)
    BY <1>0, <1>2, <1>6, InSocketArrive DEF ArriveShort
  <2>2. RunOf(k)
    BY <1>0, <1>1, <1>2, <1>6 DEF ArriveShort, Live, LiveThen
  <2> QED BY <1>1, <1>3, <1>6, <2>1, <2>2 DEF ArriveShort, RunOf
<1>7. ASSUME NEW t \in Session, Read(t) PROVE RunOf(k)'
  <2>1. stream' = stream /\ UNCHANGED <<socket, arrived>>
    BY <1>7 DEF Read
  <2>2. Live(s) /\ RunOf(k)
    BY <1>0, <1>1, <1>2, <2>1 DEF Live, LiveThen
  <2>3. CASE t # s
    BY <1>0, <1>2, <1>4, <1>7, <2>1, <2>2, <2>3 DEF Read, TypeOK
  <2>4. CASE t = s
    <3>1. /\ channel[s] # <<>>
          /\ read'[s] = Append(read[s], Head(channel[s]))
          /\ channel'[s] = Tail(channel[s])
      BY <1>0, <1>2, <1>7, <2>4 DEF Read, TypeOK
    <3>2. Run(Append(read[s], Head(channel[s])), Tail(channel[s]), Held(k), InSocket(k), arrived[k])
      <4> DEFINE in == InSocket(k)
                 n == arrived[k]
                 r == read[s]
                 c == channel[s]
                 h == Held(k)
      <4>1. n \in Nat /\ Run(r, c, h, in, n) /\ Parts(r, c, h) /\ c # <<>>
        BY <1>2, <2>2, <3>1 DEF RunOf
      <4> HIDE DEF in, n, r, c, h
      <4>2. Run(Append(r, Head(c)), Tail(c), h, in, n)
        BY <4>1, RunRead
      <4> QED BY <4>2 DEF in, n, r, c, h
    <3>3. InSocket(k)' = InSocket(k)
      BY <2>1 DEF InSocket
    <3> QED BY <1>1, <1>3, <2>1, <3>1, <3>2, <3>3 DEF RunOf
  <2> QED BY <2>3, <2>4
<1>8. ASSUME NEW t \in Session, PollRead(t) PROVE RunOf(k)'
  BY <1>8 DEF PollRead
<1>9. ASSUME NEW t \in Session, ReadNone(t) \/ DropStream(t) PROVE RunOf(k)'
  <2>1. t # s
    BY <1>0, <1>1, <1>2, <1>9 DEF ReadNone, DropStream, Live, LiveThen, TypeOK
  <2>2. Live(s)
    BY <1>0, <1>1, <1>2, <1>9, <2>1 DEF ReadNone, DropStream, Live, LiveThen, TypeOK
  <2>3. UNCHANGED <<socket, arrived>> /\ read'[s] = read[s] /\ channel'[s] = channel[s]
    BY <1>0, <1>2, <1>9, <2>1 DEF ReadNone, DropStream, TypeOK
  <2> QED BY <1>4, <2>2, <2>3
<1>10. CASE Accept
  <2>1. Live(s)
    <3>1. Head(incoming) \in Session /\ stream[Head(incoming)] = "queued"
      BY <1>10, IncomingHead DEF Accept
    <3>2. s = Head(incoming) \/ stream'[s] = stream[s]
      BY <1>0, <1>2, <1>10, <3>1 DEF Accept, TypeOK
    <3> QED BY <1>1, <3>1, <3>2 DEF Live, LiveThen
  <2> QED BY <1>4, <1>10, <2>1 DEF Accept
<1>11. CASE DropListener
  <2>1. s \notin {incoming[i] : i \in DOMAIN incoming}
    BY <1>1, <1>2, <1>11 DEF DropListener, Live, LiveThen
  <2>2. /\ Live(s) /\ UNCHANGED <<socket, arrived>>
        /\ read'[s] = read[s] /\ channel'[s] = channel[s]
    BY <1>1, <1>2, <1>11, <2>1 DEF DropListener, Live, LiveThen
  <2> QED BY <1>4, <2>2
<1>12. ASSUME NEW j \in Key, Expire(j) PROVE RunOf(k)'
  <2>1. Live(s) /\ UNCHANGED <<socket, arrived, read, channel>>
    BY <1>1, <1>12 DEF Expire, Live, LiveThen
  <2> QED BY <1>4, <2>1
<1> QED BY <1>5, <1>6, <1>7, <1>8, <1>9, <1>10, <1>11, <1>12 DEF Outside

LEMMA SkipStep ==
    ASSUME Inv, SkipInv, [Next]_vars
    PROVE  SkipInv'
<1>1. SocketInv' /\ UnreadInv'
  BY SocketStep, UnreadStep DEF SkipInv
<1>2. async' = async
  BY DEF Next, Arrive, Expire, ArriveShort, RecvFrom, RouteLater, HandLater, Accept,
         DropListener, Read, ReadNone, PollRead, DropStream, vars
<1>3. RunInv'
  <2> SUFFICES ASSUME async = {}, NEW k \in DOMAIN sessions', LiveThen(k)
               PROVE  RunOf(k)'
    BY <1>2 DEF RunInv, Live, LiveThen
  <2>1. CASE RecvFrom \/ RouteLater \/ HandLater
    BY <2>1, RunTask
  <2>2. CASE Outside
    BY <2>2, RunOutside
  <2>3. CASE UNCHANGED vars
    BY <2>3 DEF vars, taskVars, SkipInv, RunInv, RunOf, Live, LiveThen, Held, InSocket
  <2> QED BY <2>1, <2>2, <2>3 DEF Next, Outside
<1> QED BY <1>1, <1>3 DEF SkipInv

-----------------------------------------------------------------------------
(* The theorems *)

LEMMA InvInit == Init => Inv
<1> SUFFICES ASSUME Init PROVE Inv
  OBVIOUS
<1>1. TypeOK
  BY TypeInit
<1>2. DOMAIN socket = {} /\ DOMAIN incoming = {} /\ DOMAIN sessions = {} /\ task = Receiving
  BY DEF Init
<1>3. MadeInv
  BY <1>2 DEF Init, MadeInv
<1>4. FreshInv /\ OneLiveSession
  BY DEF Init, FreshInv, OneLiveSession, Live
<1>5. RouteInv /\ AcceptInv
  BY <1>2, PlacesDiffer DEF RouteInv, AcceptInv
<1>6. RestInv /\ NoGhostWithinTtl
  BY <1>2, PlacesDiffer DEF Init, RestInv, NoGhostWithinTtl
<1> QED BY <1>1, <1>3, <1>4, <1>5, <1>6 DEF Inv

\* Inv is inductive: it holds in every state of accept_loop and its sessions.
THEOREM Invariance == Spec => []Inv
<1>1. Init => Inv
  BY InvInit
<1>2. Inv /\ [Next]_vars => Inv'
  <2> SUFFICES ASSUME Inv, [Next]_vars PROVE Inv'
    OBVIOUS
  <2>1. TypeOK' /\ MadeInv'
    BY TypeStep, MadeStep DEF Inv
  <2> QED BY <2>1, FreshStep, RouteStep, AcceptStep, RestStep, OneLiveStep DEF Inv
<1> QED BY <1>1, <1>2, PTL DEF Spec

\* Both kinds of channel keep to their capacity, whatever the capacities are.
THEOREM TypeCorrect == Spec => []TypeOK
BY Invariance, PTL DEF Inv

\* While accept_loop runs, a client never has two live sessions, and the live one
\* is routed to, however streams, waits and cleanups interleave.
THEOREM OneSessionLives == Spec => []OneLiveSession
BY Invariance, PTL DEF Inv

\* As long as accept_loop alone reads the socket, a live session gets every packet of
\* its client from its first one on, in order and once, whatever waits, drops and
\* sessions of other clients come between (accept_loop, wait_for_data).
THEOREM NoPacketIsSkipped == Spec => []NoneSkipped
<1>1. Init => SkipInv
  <2> SUFFICES ASSUME Init PROVE SkipInv
    OBVIOUS
  <2>1. \A k \in Key : InSocket(k) = {} /\ arrived[k] = 0
    BY DEF Init, InSocket
  <2>2. LastIn({}, 0)
    <3>1. {} = (0 + 1)..0 /\ 0 \in 0..0
      OBVIOUS
    <3> QED BY <3>1 DEF LastIn
  <2>3. SocketInv
    BY <2>1, <2>2 DEF SocketInv
  <2> QED BY <2>3 DEF Init, SkipInv, UnreadInv, RunInv
<1>2. Inv /\ SkipInv /\ [Next]_vars => SkipInv'
  BY SkipStep
<1>3. Inv /\ SkipInv => NoneSkipped
  <2> SUFFICES ASSUME Inv, SkipInv, async = {}, NEW k \in DOMAIN sessions, Live(sessions[k]),
                      NEW q, q = read[sessions[k]] \o channel[sessions[k]] \o Held(k)
               PROVE  \E last \in 0..arrived[k] :
                          /\ \A i \in 1..Len(q) : q[i].n = last - Len(q) + i
                          /\ InSocket(k) = (last + 1)..arrived[k]
    BY DEF NoneSkipped, NoneSkippedEver
  <2> DEFINE r == read[sessions[k]]
             c == channel[sessions[k]]
             h == Held(k)
             in == InSocket(k)
             n == arrived[k]
  <2>1. Run(r, c, h, in, n) /\ Parts(r, c, h) /\ n \in Nat /\ q = r \o c \o h
    BY RoutedSession DEF Inv, SkipInv, RunInv, RunOf
  <2> HIDE DEF r, c, h, in, n
  <2>2. Before(q, in, n)
    BY <2>1, RunIs
  <2> QED BY <2>2 DEF Before, in, n
<1> QED BY <1>1, <1>2, <1>3, Invariance, PTL DEF Spec

\* No ghost of a session within the TTL, whenever the cleanup of closed_sessions
\* runs and whatever its size is.
THEOREM NoGhosts == Spec => []NoGhostWithinTtl
BY Invariance, PTL DEF Inv
=============================================================================
