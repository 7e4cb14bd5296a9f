----------------------------- MODULE KcpListener -----------------------------
(***************************************************************************)
(* KcpListener (src/src/tokio_rt/listener.rs) and the server sessions it   *)
(* creates: one background task reads the shared UDP socket and routes     *)
(* each packet by (SocketAddr, conv) to the bounded channel of a session,  *)
(* while applications accept, read and drop streams.                       *)
(*                                                                         *)
(* An .await on a full channel is a state of the task: what happens to the *)
(* sessions and to the listener while it waits there is the point.         *)
(* A key stands for a client's address and conv; two keys have different   *)
(* addresses.  A packet is its key and its place among the packets of that *)
(* client that reached the socket.  Errors of recv_from, after which the   *)
(* loop just continues, are left out.                                      *)
(***************************************************************************)
EXTENDS Naturals, Sequences, FiniteSets, Functions

CONSTANTS Key,           \* the clients: (SocketAddr, conv)
          Short,         \* a datagram shorter than IKCP_OVERHEAD
          Readings,      \* sets of clients whose sessions may be read with AsyncRead
          ChanCap,       \* packets a session's channel holds (256)
          AcceptCap,     \* streams the accept channel holds (64)
          CleanupAt,     \* size of closed_sessions that starts a cleanup (100)
          SocketCap,     \* bound: datagrams in the socket buffer
          MaxPackets     \* bound: packets a client sends

ASSUME ListenerAssumption ==
    /\ Short \notin [key : Key, n : Nat]
    /\ Readings \subseteq SUBSET Key
    /\ ChanCap \in Nat \ {0}
    /\ AcceptCap \in Nat \ {0}
    /\ {CleanupAt, SocketCap, MaxPackets} \subseteq Nat

VARIABLES
    socket,      \* datagrams in the buffer of the shared socket
    arrived,     \* arrived[k]: packets of k that reached the socket
    task,        \* where the background task is
    sessions,    \* key |-> the session its packets are routed to
    closed,      \* keys of closed_sessions
    resting,     \* keys noted as closed less than closed_session_ttl ago
    made,        \* made[k]: sessions made for k
    channel,     \* channel[s]: packets waiting for session s
    stream,      \* stream[s]: what has become of the stream of s
    incoming,    \* sessions waiting for accept
    listening,   \* does the KcpListener exist?
    async,       \* clients whose sessions are read with AsyncRead
    read         \* history: read[s], the packets session s took in

taskVars == <<task, sessions, closed, resting, made>>
vars == <<socket, arrived, taskVars, channel, stream, incoming, listening, async, read>>

Packet == [key : Key, n : 1..MaxPackets]
Session == [key : Key, n : 1..MaxPackets]

Receiving == [at |-> "recv"]
Routing(p) == [at |-> "routing", packet |-> p]
Handing(s) == [at |-> "handing", session |-> s]
Ended == [at |-> "ended"]

Init ==
    /\ socket = <<>>
    /\ arrived = [k \in Key |-> 0]
    /\ task = Receiving
    /\ sessions = [k \in {} |-> 0]
    /\ closed = {}
    /\ resting = {}
    /\ made = [k \in Key |-> 0]
    /\ channel = [s \in Session |-> <<>>]
    /\ stream = [s \in Session |-> "none"]
    /\ incoming = <<>>
    /\ listening = TRUE
    /\ async \in Readings
    /\ read = [s \in Session |-> <<>>]

-----------------------------------------------------------------------------
(* The network *)

Arrive(k) ==
    /\ Len(socket) < SocketCap
    /\ arrived[k] < MaxPackets
    /\ arrived' = [arrived EXCEPT ![k] = @ + 1]
    /\ socket' = Append(socket, [key |-> k, n |-> arrived[k] + 1])
    /\ UNCHANGED <<taskVars, channel, stream, incoming, listening, async, read>>

ArriveShort ==
    /\ Len(socket) < SocketCap
    /\ socket' = Append(socket, Short)
    /\ UNCHANGED <<arrived, taskVars, channel, stream, incoming, listening, async, read>>

-----------------------------------------------------------------------------
(* The background task *)

\* Has the receiver of the channel of s been dropped?
Gone(s) == stream[s] = "dropped"

\* tx.send(packet) when the channel has room.
Forward(p) ==
    LET s == sessions[p.key]
    IN  /\ ~Gone(s)
        /\ Len(channel[s]) < ChanCap
        /\ channel' = [channel EXCEPT ![s] = Append(@, p)]
        /\ task' = Receiving
        /\ UNCHANGED <<sessions, closed, resting, made, stream, incoming>>

\* tx.send(packet) fails: the receiver is gone.
Forget(p) ==
    /\ Gone(sessions[p.key])
    /\ sessions' = Restrict(sessions, DOMAIN sessions \ {p.key})
    /\ closed' = closed \cup {p.key}
    /\ resting' = resting \cup {p.key}
    /\ task' = Receiving
    /\ UNCHANGED <<made, channel, stream, incoming>>

\* Mutant: try_send instead of send, its error taken for a closed session.
AwaitRoom_Forgets(p) ==
    /\ ~Gone(sessions[p.key])
    /\ Len(channel[sessions[p.key]]) >= ChanCap
    /\ sessions' = Restrict(sessions, DOMAIN sessions \ {p.key})
    /\ closed' = closed \cup {p.key}
    /\ resting' = resting \cup {p.key}
    /\ UNCHANGED <<task, made, channel, stream, incoming>>

\* Mutant: a packet for a full channel is dropped.
AwaitRoom_Drops(p) ==
    /\ ~Gone(sessions[p.key])
    /\ Len(channel[sessions[p.key]]) >= ChanCap
    /\ UNCHANGED <<taskVars, channel, stream, incoming>>

\* tx.send(packet) when the channel is full: the task waits.
AwaitRoom(p) ==
    /\ ~Gone(sessions[p.key])
    /\ Len(channel[sessions[p.key]]) >= ChanCap
    /\ task' = Routing(p)
    /\ UNCHANGED <<sessions, closed, resting, made, channel, stream, incoming>>

\* Mutant: the cleanup empties the map.
Cleaned_Empties(keys) == IF Cardinality(keys) > CleanupAt THEN {} ELSE keys

\* The cleanup of closed_sessions.
Cleaned(keys) == IF Cardinality(keys) > CleanupAt THEN keys \cap resting ELSE keys

\* incoming_tx.send: s goes to accept, or waits for room, or the listener is
\* gone, which ends the task and drops all it holds.
HandOver(s) ==
    \/ /\ listening
       /\ IF Len(incoming) < AcceptCap
          THEN incoming' = Append(incoming, s) /\ task' = Receiving
          ELSE incoming' = incoming /\ task' = Handing(s)
       /\ stream' = [stream EXCEPT ![s] = "queued"]
    \/ /\ ~listening
       /\ task' = Ended
       /\ stream' = [stream EXCEPT ![s] = "dropped"]
       /\ UNCHANGED incoming

\* A packet of an unknown client makes a session and is its first packet.
NewSession(p) ==
    LET s == [key |-> p.key, n |-> made[p.key] + 1]
    IN  /\ p.key \notin closed \cap resting
        /\ made' = [made EXCEPT ![p.key] = @ + 1]
        /\ HandOver(s)
        /\ sessions' = IF listening
                       THEN [k \in DOMAIN sessions \cup {p.key} |->
                                IF k = p.key THEN s ELSE sessions[k]]
                       ELSE Restrict(sessions, {})
        /\ closed' = IF listening THEN Cleaned(closed \ {p.key}) ELSE {}
        /\ channel' = [channel EXCEPT ![s] = IF listening THEN <<p>> ELSE <<>>]
        /\ UNCHANGED resting

\* One packet from the socket to where it belongs.
RecvFrom ==
    /\ task = Receiving
    /\ socket # <<>>
    /\ socket' = Tail(socket)
    /\ LET p == Head(socket)
       IN  \/ p = Short /\ UNCHANGED <<taskVars, channel, stream, incoming>>
           \/ /\ p # Short
              /\ p.key \in DOMAIN sessions
              /\ Forward(p) \/ Forget(p) \/ AwaitRoom(p)
           \/ /\ p # Short
              /\ p.key \notin DOMAIN sessions
              /\ p.key \in closed \cap resting
              /\ UNCHANGED <<taskVars, channel, stream, incoming>>
           \/ p # Short /\ p.key \notin DOMAIN sessions /\ NewSession(p)
    /\ UNCHANGED <<arrived, listening, async, read>>


\* The task that waited for room in a session's channel goes on.
RouteLater ==
    /\ task.at = "routing"
    /\ Forward(task.packet) \/ Forget(task.packet)
    /\ UNCHANGED <<socket, arrived, listening, async, read>>

\* Mutant: the end of the listener does not wake the task that waits for it.
HandLater_OnlyRoom ==
    /\ task.at = "handing"
    /\ listening
    /\ Len(incoming) < AcceptCap
    /\ incoming' = Append(incoming, task.session)
    /\ task' = Receiving
    /\ UNCHANGED <<socket, arrived, sessions, closed, resting, made, channel, stream,
                   listening, async, read>>

\* The task that waited for room in the accept channel goes on.
HandLater ==
    /\ task.at = "handing"
    /\ LET s == task.session
       IN  \/ /\ listening
              /\ Len(incoming) < AcceptCap
              /\ incoming' = Append(incoming, s)
              /\ task' = Receiving
              /\ UNCHANGED <<sessions, closed, channel, stream>>
           \/ /\ ~listening
              /\ task' = Ended
              /\ stream' = [stream EXCEPT ![s] = "dropped"]
              /\ channel' = [channel EXCEPT ![s] = <<>>]
              /\ sessions' = Restrict(sessions, {})
              /\ closed' = {}
              /\ UNCHANGED incoming
    /\ UNCHANGED <<socket, arrived, resting, made, listening, async, read>>

\* closed_session_ttl has passed since k was noted as closed.
Expire(k) ==
    /\ k \in resting
    /\ resting' = resting \ {k}
    /\ UNCHANGED <<socket, arrived, task, sessions, closed, made, channel, stream,
                   incoming, listening, async, read>>

-----------------------------------------------------------------------------
(* The applications *)

Accept ==
    /\ listening
    /\ incoming # <<>>
    /\ incoming' = Tail(incoming)
    /\ stream' = [stream EXCEPT ![Head(incoming)] = "open"]
    /\ UNCHANGED <<socket, arrived, taskVars, channel, listening, async, read>>

\* recv_kcp: rx.recv() in wait_for_data gives the next packet.
Read(s) ==
    /\ stream[s] = "open"
    /\ s.key \notin async
    /\ channel[s] # <<>>
    /\ read' = [read EXCEPT ![s] = Append(@, Head(channel[s]))]
    /\ channel' = [channel EXCEPT ![s] = Tail(@)]
    /\ UNCHANGED <<socket, arrived, taskVars, stream, incoming, listening, async>>

\* recv_kcp: rx.recv() gives None once the task is gone and the channel empty.
ReadNone(s) ==
    /\ stream[s] = "open"
    /\ s.key \notin async
    /\ channel[s] = <<>>
    /\ task = Ended
    /\ stream' = [stream EXCEPT ![s] = "closed"]
    /\ UNCHANGED <<socket, arrived, taskVars, channel, incoming, listening, async, read>>

\* AsyncRead: poll_read takes a datagram from the shared socket itself, and
\* drops it when it comes from another address.
PollRead(s) ==
    /\ stream[s] = "open"
    /\ s.key \in async
    /\ socket # <<>>
    /\ socket' = Tail(socket)
    /\ read' = IF Head(socket) # Short /\ Head(socket).key = s.key
               THEN [read EXCEPT ![s] = Append(@, Head(socket))]
               ELSE read
    /\ UNCHANGED <<arrived, taskVars, channel, stream, incoming, listening, async>>

DropStream(s) ==
    /\ stream[s] \in {"open", "closed"}
    /\ stream' = [stream EXCEPT ![s] = "dropped"]
    /\ channel' = [channel EXCEPT ![s] = <<>>]
    /\ UNCHANGED <<socket, arrived, taskVars, incoming, listening, async, read>>

\* The application drops the KcpListener, and with it the streams not accepted.
DropListener ==
    /\ listening
    /\ listening' = FALSE
    /\ incoming' = <<>>
    /\ LET dropped == {incoming[i] : i \in DOMAIN incoming}
       IN  /\ stream' = [s \in Session |-> IF s \in dropped THEN "dropped" ELSE stream[s]]
           /\ channel' = [s \in Session |-> IF s \in dropped THEN <<>> ELSE channel[s]]
    /\ UNCHANGED <<socket, arrived, taskVars, async, read>>

Next ==
    \/ \E k \in Key : Arrive(k) \/ Expire(k)
    \/ ArriveShort
    \/ RecvFrom
    \/ RouteLater
    \/ HandLater
    \/ Accept
    \/ \E s \in Session : Read(s) \/ ReadNone(s) \/ PollRead(s) \/ DropStream(s)
    \/ DropListener

Spec == Init /\ [][Next]_vars

\* The runtime polls the background task when it can go on, the server's main
\* loop accepts, and each application reads the streams it keeps.  Nobody has
\* to send, to drop anything, or to wait for a TTL.
Fairness ==
    /\ WF_vars(RecvFrom) /\ WF_vars(RouteLater) /\ WF_vars(HandLater)
    /\ WF_vars(Accept)
    /\ \A s \in Session : WF_vars(Read(s) \/ ReadNone(s) \/ PollRead(s))

FairSpec == Spec /\ Fairness

-----------------------------------------------------------------------------
(* Properties *)

\* Everything has its type, and both kinds of channel keep to their capacity.
TypeOK ==
    /\ socket \in Seq(Packet \cup {Short})
    /\ arrived \in [Key -> 0..MaxPackets]
    /\ task \in {Receiving, Ended} \cup {Routing(p) : p \in Packet}
                \cup {Handing(s) : s \in Session}
    /\ DOMAIN sessions \subseteq Key
    /\ \A k \in DOMAIN sessions : sessions[k] \in Session /\ sessions[k].key = k
    /\ closed \subseteq Key
    /\ resting \subseteq Key
    /\ made \in [Key -> 0..MaxPackets]
    /\ channel \in [Session -> Seq(Packet)]
    /\ \A s \in Session : Len(channel[s]) <= ChanCap
    /\ stream \in [Session -> {"none", "queued", "open", "closed", "dropped"}]
    /\ incoming \in Seq(Session)
    /\ Len(incoming) <= AcceptCap
    /\ listening \in BOOLEAN
    /\ async \in Readings
    /\ read \in [Session -> Seq(Packet)]

Live(s) == stream[s] \in {"queued", "open"}

\* While the task runs, a client has one live session at most, and its packets
\* are routed to that one: two sessions never share a conversation.
OneLiveSession ==
    task # Ended =>
        \A s \in Session :
            Live(s) => s.key \in DOMAIN sessions /\ sessions[s.key] = s

\* A client whose session was found closed gets no new one before the TTL is
\* over, whatever other sessions come, go and make the task clean up
\* (CHANGELOG: "no longer create phantom sessions").
NoGhostWithinTtl == \A k \in resting : k \notin DOMAIN sessions

\* The packet the task holds while it waits.
Held(k) == IF task.at = "routing" /\ task.packet.key = k THEN <<task.packet>> ELSE <<>>

\* The numbers of the packets of k that wait in the socket.
InSocket(k) == {socket[i].n : i \in {j \in DOMAIN socket : socket[j] # Short /\ socket[j].key = k}}

\* A live session gets every packet of its client that reached the socket from
\* its first one on, in order and once, and what it lacks is still in the socket:
\* a full channel delays, but no packet is dropped, not even while the task waits
\* (accept_loop, wait_for_data).
NoneSkippedEver ==
    \A k \in DOMAIN sessions :
        LET s == sessions[k]
            run == read[s] \o channel[s] \o Held(k)
        IN  Live(s) =>
            \E last \in 0..arrived[k] :
                /\ \A i \in 1..Len(run) : run[i].n = last - Len(run) + i
                /\ InSocket(k) = (last + 1)..arrived[k]

\* So it is as long as the task is the only one that reads the socket.
NoneSkipped == async = {} => NoneSkippedEver

Waiting == task.at \in {"routing", "handing"}

\* The background task never waits for ever: neither for a session that reads or
\* was dropped while the task waited for it, nor for an accept that will not come
\* because the listener was dropped meanwhile.
RouterReturnsEver == Waiting ~> task \in {Receiving, Ended}

\* So it is as long as the applications take from the channels what it puts there.
RouterReturns == async = {} /\ Waiting ~> task \in {Receiving, Ended}

=============================================================================
