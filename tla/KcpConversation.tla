--------------------------- MODULE KcpConversation ---------------------------
(***************************************************************************)
(* A client's stream (src/src/tokio_rt/stream.rs), the network and the     *)
(* server's listener and sessions (src/src/tokio_rt/listener.rs,           *)
(* session.rs) together, over the life of a conversation: connecting,      *)
(* sending, the end of either side, the timeouts, the cache of closed      *)
(* sessions with its TTL, and connecting again.                            *)
(*                                                                         *)
(* KCP has no handshake at either end, so each side finds out for itself   *)
(* that the other is gone, and late packets of a conversation may meet a   *)
(* server that has forgotten it.  Times are ages, in a unit of which a     *)
(* datagram lives MaxDelay at most.  The engines are reduced to which      *)
(* segments came and which are acknowledged (KcpArq has the details), the  *)
(* router's waits to none (KcpListener has them).  The client sends, the   *)
(* server acknowledges.                                                    *)
(***************************************************************************)
EXTENDS Integers, Sequences, FiniteSets

CONSTANTS Conn,       \* the client's connections, one after the other: 1..n
          KeyOf,      \* KeyOf[c]: its (SocketAddr, conv)
          Reading,    \* is a connection being read, so that it may time out?
          NoTimeout,  \* a timeout of None
          Timeout,    \* KcpSessionConfig::timeout of both sides
          Ttl,        \* closed_session_ttl
          MaxDelay,   \* bound: the longest a datagram is under way
          MaxWrites,  \* bound: segments a connection sends
          MaxNet,     \* bound: datagrams under way
          MaxSessions \* bound: sessions the listener makes

ASSUME ConversationAssumption ==
    /\ Conn \subseteq Nat \ {0}
    /\ Reading \in BOOLEAN
    /\ NoTimeout \notin Nat
    /\ Timeout \in Nat \cup {NoTimeout}
    /\ {Ttl, MaxDelay, MaxWrites, MaxNet, MaxSessions} \subseteq Nat

VARIABLES
    client,    \* client[c]: connection c
    net,       \* datagrams under way
    sessions,  \* the sessions the listener made, the oldest first
    route,     \* route[k]: the session in the map for k, 0 if none
    closedFor  \* closedFor[k]: how long k is in closed_sessions; Ttl: not at all

vars == <<client, net, sessions, route, closedFor>>

Key == {KeyOf[c] : c \in Conn}
Sn == 0..(MaxWrites - 1)
Oldest == IF Timeout = NoTimeout THEN 0 ELSE Timeout + 1

\* A segment on its way to the server, an ACK on its way to the client.
Push(c, sn) == [to |-> "server", key |-> KeyOf[c], conn |-> c, sn |-> sn, una |-> 0, age |-> 0]
Ack(k, sn, una) == [to |-> "client", key |-> k, conn |-> 0, sn |-> sn, una |-> una, age |-> 0]

Init ==
    /\ client = [c \in Conn |->
                    [state |-> "none", written |-> 0, acked |-> {}, quiet |-> 0]]
    /\ net = {}
    /\ sessions = <<>>
    /\ route = [k \in Key |-> 0]
    /\ closedFor = [k \in Key |-> Ttl]

Sends(rest, m) ==
    /\ Cardinality(rest \cup {m}) <= MaxNet
    /\ net' = rest \cup {m}

-----------------------------------------------------------------------------
(* The client *)

\* KcpStream::connect and its variants: a connection opens when the one before
\* it has ended; nothing is sent.
Connect(c) ==
    /\ client[c].state = "none"
    /\ \A d \in Conn : d < c => client[d].state = "ended"
    /\ client' = [client EXCEPT ![c].state = "open"]
    /\ UNCHANGED <<net, sessions, route, closedFor>>

Write(c) ==
    /\ client[c].state = "open"
    /\ client[c].written < MaxWrites
    /\ client' = [client EXCEPT ![c].written = @ + 1]
    /\ UNCHANGED <<net, sessions, route, closedFor>>

\* The engine transmits a segment, for the first time or, as dead_link is not
\* looked at, for the n-th.
Transmit(c, sn) ==
    /\ client[c].state = "open"
    /\ sn < client[c].written
    /\ sn \notin client[c].acked
    /\ Sends(net, Push(c, sn))
    /\ UNCHANGED <<client, sessions, route, closedFor>>

\* wait_for_data takes an ACK: a sign of life.  The ACK names a conversation, not
\* a connection.
ClientReceives(m) ==
    /\ m \in net
    /\ m.to = "client"
    /\ net' = net \ {m}
    /\ client' = [c \in Conn |->
           IF client[c].state = "open" /\ KeyOf[c] = m.key
           THEN [client[c] EXCEPT !.acked = @ \cup {sn \in 0..(client[c].written - 1) :
                                                       sn = m.sn \/ sn < m.una},
                                  !.quiet = 0]
           ELSE client[c]]
    /\ UNCHANGED <<sessions, route, closedFor>>

\* Mutant: no call finds the timeout.
TimedOut_Never(quiet) == FALSE

\* is_timed_out
TimedOut(quiet) == Timeout # NoTimeout /\ quiet > Timeout

\* The reader finds the timeout, or the application closes or drops the stream.
ClientEnds(c) ==
    /\ client[c].state = "open"
    /\ client' = [client EXCEPT ![c].state = "ended"]
    /\ UNCHANGED <<net, sessions, route, closedFor>>

ClientTimesOut(c) == Reading /\ TimedOut(client[c].quiet) /\ ClientEnds(c)

-----------------------------------------------------------------------------
(* The server *)

\* Mutant: the ACK covers one segment too many.
RcvNxt_Past(got) == Cardinality(got) + 1

\* The segment that a session needs next: rcv_nxt.
RcvNxt(got) == CHOOSE n \in 0..MaxWrites :
                   /\ \A sn \in 0..(n - 1) : \E p \in got : p.sn = sn
                   /\ n < MaxWrites => ~\E p \in got : p.sn = n

\* What session s has with the segment of m; one that it has stays.
Taken(s, m) ==
    IF \E p \in s.got : p.sn = m.sn THEN s.got
    ELSE s.got \cup {[conn |-> m.conn, sn |-> m.sn]}

\* The datagram goes to the session in the map; wait_for_data inputs it and the
\* engine acknowledges it, also when the segment came before.
SessionReceives(m) ==
    LET s == route[m.key]
        got == Taken(sessions[s], m)
    IN  /\ s # 0
        /\ sessions[s].state = "open"
        /\ sessions' = [sessions EXCEPT ![s].got = got, ![s].quiet = 0]
        /\ Sends(net \ {m}, Ack(m.key, m.sn, RcvNxt(got)))
        /\ UNCHANGED <<client, route, closedFor>>

\* Mutant: the session is removed, but not remembered as closed.
Forget_NoCache(m) ==
    /\ route[m.key] # 0
    /\ sessions[route[m.key]].state = "dropped"
    /\ net' = net \ {m}
    /\ route' = [route EXCEPT ![m.key] = 0]
    /\ UNCHANGED <<client, sessions, closedFor>>

\* The session in the map is gone: it is removed and remembered as closed.
Forget(m) ==
    /\ route[m.key] # 0
    /\ sessions[route[m.key]].state = "dropped"
    /\ net' = net \ {m}
    /\ route' = [route EXCEPT ![m.key] = 0]
    /\ closedFor' = [closedFor EXCEPT ![m.key] = 0]
    /\ UNCHANGED <<client, sessions>>

\* A stale retransmission, within the TTL.
Skip(m) ==
    /\ route[m.key] = 0
    /\ closedFor[m.key] < Ttl
    /\ net' = net \ {m}
    /\ UNCHANGED <<client, sessions, route, closedFor>>

\* A new session, whose first packet this is.
NewSession(m) ==
    LET got == {[conn |-> m.conn, sn |-> m.sn]}
    IN  /\ route[m.key] = 0
        /\ closedFor[m.key] = Ttl
        /\ Len(sessions) < MaxSessions
        /\ sessions' = Append(sessions, [key |-> m.key, state |-> "open", quiet |-> 0,
                                         maker |-> m.conn, got |-> got])
        /\ route' = [route EXCEPT ![m.key] = Len(sessions) + 1]
        /\ Sends(net \ {m}, Ack(m.key, m.sn, RcvNxt(got)))
        /\ UNCHANGED <<client, closedFor>>

\* accept_loop routes a datagram.
ServerReceives(m) ==
    /\ m \in net
    /\ m.to = "server"
    /\ SessionReceives(m) \/ Forget(m) \/ Skip(m) \/ NewSession(m)

\* The application drops the stream of session s.
SessionEnds(s) ==
    /\ sessions[s].state = "open"
    /\ sessions' = [sessions EXCEPT ![s].state = "dropped"]
    /\ UNCHANGED <<client, net, route, closedFor>>

\* recv of session s returns Timeout, and the application drops the stream.
SessionTimesOut(s) == TimedOut(sessions[s].quiet) /\ SessionEnds(s)

-----------------------------------------------------------------------------
(* The network and the clock *)

Lose(m) ==
    /\ m \in net
    /\ net' = net \ {m}
    /\ UNCHANGED <<client, sessions, route, closedFor>>

Older(age, oldest) == IF age < oldest THEN age + 1 ELSE age

\* A unit of time passes, unless a datagram would be under way for too long; a
\* reader looks at its timeout far more often than that.
Tick ==
    /\ \A m \in net : m.age < MaxDelay
    /\ \A c \in Conn : client[c].state = "open" /\ Reading => ~TimedOut(client[c].quiet)
    /\ \A s \in DOMAIN sessions : sessions[s].state = "open" => ~TimedOut(sessions[s].quiet)
    /\ net' = {[m EXCEPT !.age = @ + 1] : m \in net}
    /\ client' = [c \in Conn |-> IF client[c].state = "open"
                                 THEN [client[c] EXCEPT !.quiet = Older(@, Oldest)]
                                 ELSE client[c]]
    /\ sessions' = [s \in DOMAIN sessions |->
                        IF sessions[s].state = "open"
                        THEN [sessions[s] EXCEPT !.quiet = Older(@, Oldest)]
                        ELSE sessions[s]]
    /\ closedFor' = [k \in Key |-> Older(closedFor[k], Ttl)]
    /\ UNCHANGED route

Next ==
    \/ \E c \in Conn : Connect(c) \/ Write(c) \/ ClientEnds(c) \/ ClientTimesOut(c)
    \/ \E c \in Conn, sn \in Sn : Transmit(c, sn)
    \/ \E m \in net : ClientReceives(m) \/ ServerReceives(m) \/ Lose(m)
    \/ \E s \in DOMAIN sessions : SessionEnds(s) \/ SessionTimesOut(s)
    \/ Tick

Spec == Init /\ [][Next]_vars

\* Time passes, no datagram is under way for ever, and readers look at their
\* timeouts.  Nobody has to write, to end anything, or to answer.
Fairness ==
    /\ WF_vars(Tick)
    /\ WF_vars(\E m \in net : /\ m.age = MaxDelay
                              /\ ClientReceives(m) \/ ServerReceives(m) \/ Lose(m))
    /\ \A c \in Conn : WF_vars(ClientTimesOut(c))
    /\ \A s \in 1..MaxSessions : WF_vars(s \in DOMAIN sessions /\ SessionTimesOut(s))

FairSpec == Spec /\ Fairness

-----------------------------------------------------------------------------
(* Properties *)

\* Everything has its type, and the map holds only sessions of their keys.
TypeOK ==
    /\ client \in [Conn -> [state : {"none", "open", "ended"}, written : 0..MaxWrites,
                            acked : SUBSET Sn, quiet : 0..Oldest]]
    /\ \A m \in net : /\ m.to \in {"server", "client"} /\ m.key \in Key
                      /\ m.conn \in Conn \cup {0} /\ m.sn \in Sn
                      /\ m.una \in 0..MaxWrites /\ m.age \in 0..MaxDelay
    /\ \A s \in DOMAIN sessions :
           /\ sessions[s].key \in Key /\ sessions[s].maker \in Conn
           /\ sessions[s].state \in {"open", "dropped"} /\ sessions[s].quiet \in 0..Oldest
           /\ sessions[s].got \subseteq [conn : Conn, sn : Sn]
    /\ \A k \in Key : route[k] \in 0..Len(sessions)
                      /\ (route[k] # 0 => sessions[route[k]].key = k)
    /\ closedFor \in [Key -> 0..Ttl]

\* A connection never leads to two sessions: what it still sends when its session
\* has ended makes no ghost, however its retransmissions, its timeout and the TTL
\* fall together (listener.rs:134-135, "prevents stale packets from creating ghost
\* sessions"; CHANGELOG.md:130, "no longer create phantom sessions").
NoGhost ==
    \A i, j \in DOMAIN sessions : sessions[i].maker = sessions[j].maker => i = j

\* What a connection knows to be acknowledged, from its first segment on, a single
\* session of the server has taken in, all of it from that connection: no ACK comes
\* from a session that lacks the beginning or has it from somebody else.
AckedIsDelivered ==
    \A c \in Conn : \A n \in 1..MaxWrites :
        0..(n - 1) \subseteq client[c].acked =>
            \E s \in DOMAIN sessions :
                \A sn \in 0..(n - 1) : [conn |-> c, sn |-> sn] \in sessions[s].got

\* When the client has gone, in whatever way, the server's session finds out by its
\* timeout, and no late packet opens another for good; when the session has gone,
\* the client finds out by its own (stream.rs:262, "The remote peer will detect
\* the disconnection when its session times out").
PeerNoticesEnd ==
    /\ \A c \in Conn : client[c].state = "ended" ~>
           \A s \in DOMAIN sessions : sessions[s].maker = c => sessions[s].state = "dropped"
    /\ \A s \in 1..MaxSessions, c \in Conn :
           s \in DOMAIN sessions /\ sessions[s].maker = c /\ sessions[s].state = "dropped"
               ~> client[c].state = "ended"
=============================================================================
