----------------------- MODULE KcpConversation_proofs ------------------------
(***************************************************************************)
(* When no connection leads to two sessions, for any number of             *)
(* connections, segments, sessions and datagrams, and any times: if the    *)
(* client reads, so that its timeout can find it, if no two connections    *)
(* share address and conv, and if the timeout and two delays of a datagram *)
(* are shorter than the TTL of closed_sessions.                            *)
(*                                                                         *)
(* The argument follows the age of a key in closed_sessions.  An ACK that  *)
(* is still under way is older, so a client that hears nothing more has    *)
(* been quiet for nearly as long; it ends at its timeout, and what it sent *)
(* last is gone one delay later, before the TTL is.                        *)
(*                                                                         *)
(* From one session per connection it follows that all ACKs of a           *)
(* connection speak of the same engine, so what they cover it has.  Types  *)
(* need none of these conditions.                                          *)
(***************************************************************************)
EXTENDS KcpConversation, KcpLemmas, SequenceTheorems, TLAPS

\* The client times out, connections have keys of their own, and times fit.
Timely ==
    /\ Reading
    /\ Timeout \in Nat
    /\ Timeout + 1 + 2 * MaxDelay < Ttl
    /\ \A c, d \in Conn : KeyOf[c] = KeyOf[d] => c = d

\* Ages stay within their bounds, and everything belongs to a connection.
TimesOK ==
    /\ \A c \in Conn : /\ client[c].state \in {"none", "open", "ended"}
                       /\ client[c].quiet \in 0..(Timeout + 1)
    /\ DOMAIN client = Conn
    /\ \A m \in net : /\ m.to \in {"server", "client"} /\ m.age \in 0..MaxDelay
                      /\ m.key \in Key /\ m.sn \in Sn
                      /\ m.to = "server" =>
                             /\ m.conn \in Conn /\ m.key = KeyOf[m.conn]
                             /\ client[m.conn].state # "none"
    /\ closedFor \in [Key -> 0..Ttl]

SessionType == [key : Key, state : {"open", "dropped"}, quiet : Int, maker : Conn,
                got : SUBSET [conn : Conn, sn : Sn]]

\* Sessions have the key of the connection that made them, and no other has it.
SessionsOK ==
    /\ sessions \in Seq(SessionType)
    /\ \A i \in DOMAIN sessions :
           /\ sessions[i].key = KeyOf[sessions[i].maker]
           /\ client[sessions[i].maker].state # "none"
    /\ \A i, j \in DOMAIN sessions : sessions[i].key = sessions[j].key => i = j
    /\ route \in [Key -> Nat]
    /\ \A k \in Key : route[k] # 0 =>
           route[k] \in DOMAIN sessions /\ sessions[route[k]].key = k

\* The session of k came and was forgotten.
Forgotten(k) == route[k] = 0 /\ \E i \in DOMAIN sessions : sessions[i].key = k

\* How long ago that was, against what is left of the conversation.
AgesInv ==
    \A k \in Key : Forgotten(k) =>
        /\ \A m \in net : m.to = "client" /\ m.key = k => closedFor[k] <= m.age
        /\ \A c \in Conn : client[c].state = "open" /\ KeyOf[c] = k =>
               closedFor[k] <= client[c].quiet + MaxDelay
        /\ \A m \in net : m.to = "server" /\ m.key = k =>
               closedFor[k] <= Timeout + 1 + MaxDelay + m.age

Inv == TimesOK /\ SessionsOK /\ AgesInv

-----------------------------------------------------------------------------
(* Sessions and routes *)

\* The keys and makers of the sessions, and the routes, stay.
SessionsStay ==
    /\ sessions' \in Seq(SessionType) /\ DOMAIN sessions' = DOMAIN sessions
    /\ \A i \in DOMAIN sessions :
           sessions'[i].key = sessions[i].key /\ sessions'[i].maker = sessions[i].maker

\* No connection is as if it had never been.
ClientsStay == \A c \in Conn : client[c].state # "none" => client'[c].state # "none"

LEMMA SessionMaker ==
    ASSUME SessionsOK, NEW i \in DOMAIN sessions
    PROVE  sessions[i] \in SessionType /\ sessions[i].maker \in Conn
<1>1. sessions[i] \in SessionType
  BY ElementOfSeq, LenProperties DEF SessionsOK
<1> QED BY <1>1 DEF SessionType

LEMMA Input ==
    ASSUME NEW r \in SessionType, NEW g \in SUBSET [conn : Conn, sn : Sn]
    PROVE  /\ [r EXCEPT !.got = g, !.quiet = 0] \in SessionType
           /\ [r EXCEPT !.got = g, !.quiet = 0].key = r.key
           /\ [r EXCEPT !.got = g, !.quiet = 0].maker = r.maker
<1> DEFINE t == [r EXCEPT !.got = g]
           u == [t EXCEPT !.quiet = 0]
<1>1. t \in SessionType /\ t.key = r.key /\ t.maker = r.maker
  BY DEF SessionType
<1>2. u \in SessionType /\ u.key = t.key /\ u.maker = t.maker
  <2> HIDE DEF t
  <2> QED BY <1>1 DEF SessionType
<1>3. [r EXCEPT !.got = g, !.quiet = 0] = u
  OBVIOUS
<1> QED BY <1>1, <1>2, <1>3

LEMMA KeepSessions ==
    ASSUME SessionsOK, SessionsStay, ClientsStay,
           \/ route' = route
           \/ \E k \in Key : route' = [route EXCEPT ![k] = 0]
    PROVE  /\ SessionsOK'
           /\ \A k \in Key : Forgotten(k)' => Forgotten(k) \/ (route[k] # 0 /\ route'[k] = 0)
<1>1. \A i \in DOMAIN sessions : sessions[i].maker \in Conn
  BY SessionMaker
<1>2. /\ route' \in [Key -> Nat]
      /\ \A k \in Key : route'[k] = route[k] \/ route'[k] = 0
  BY DEF SessionsOK
<1>3. \A i \in DOMAIN sessions' :
          /\ sessions'[i].key = KeyOf[sessions'[i].maker]
          /\ client'[sessions'[i].maker].state # "none"
  BY <1>1 DEF SessionsOK, SessionsStay, ClientsStay
<1>4. \A i, j \in DOMAIN sessions' : sessions'[i].key = sessions'[j].key => i = j
  BY DEF SessionsOK, SessionsStay
<1>5. \A k \in Key : route'[k] # 0 => route'[k] \in DOMAIN sessions' /\ sessions'[route'[k]].key = k
  BY <1>2 DEF SessionsOK, SessionsStay
<1>6. SessionsOK'
  BY <1>2, <1>3, <1>4, <1>5 DEF SessionsOK, SessionsStay
<1>7. \A k \in Key : Forgotten(k)' => Forgotten(k) \/ (route[k] # 0 /\ route'[k] = 0)
  BY <1>2 DEF Forgotten, SessionsStay
<1> QED BY <1>6, <1>7

LEMMA SameSessions ==
    ASSUME SessionsOK, sessions' = sessions
    PROVE  SessionsStay
BY DEF SessionsOK, SessionsStay

LEMMA ChangedSession ==
    ASSUME SessionsOK, NEW s \in DOMAIN sessions, NEW t \in SessionType,
           t.key = sessions[s].key, t.maker = sessions[s].maker,
           sessions' = [sessions EXCEPT ![s] = t]
    PROVE  SessionsStay
<1>1. sessions' \in Seq(SessionType) /\ DOMAIN sessions' = DOMAIN sessions
      /\ \A i \in DOMAIN sessions : sessions'[i] = IF i = s THEN t ELSE sessions[i]
  BY ExceptSeq, LenProperties DEF SessionsOK
<1> QED BY <1>1 DEF SessionsStay

\* A new session for a key that has none.
LEMMA AddSession ==
    ASSUME Inv, NEW t \in SessionType, t.key = KeyOf[t.maker], client' = client,
           client[t.maker].state # "none",
           \A i \in DOMAIN sessions : sessions[i].key # t.key,
           sessions' = Append(sessions, t),
           route' = [route EXCEPT ![t.key] = Len(sessions) + 1]
    PROVE  SessionsOK' /\ \A k \in Key : Forgotten(k)' => Forgotten(k)
<1>1. /\ sessions' \in Seq(SessionType) /\ Len(sessions) \in Nat
      /\ DOMAIN sessions = 1..Len(sessions) /\ DOMAIN sessions' = 1..(Len(sessions) + 1)
      /\ sessions'[Len(sessions) + 1] = t
      /\ \A i \in DOMAIN sessions : sessions'[i] = sessions[i]
  BY AppendProperties, LenProperties DEF Inv, SessionsOK
<1>2. t.key \in Key
  BY DEF SessionType
<1>3. /\ route' \in [Key -> Nat]
      /\ \A k \in Key : route'[k] = IF k = t.key THEN Len(sessions) + 1 ELSE route[k]
  BY <1>1, <1>2 DEF Inv, SessionsOK
<1>4. \A i, j \in DOMAIN sessions' : sessions'[i].key = sessions'[j].key => i = j
  BY <1>1 DEF Inv, SessionsOK
<1>5. \A k \in Key : route'[k] # 0 => route'[k] \in DOMAIN sessions' /\ sessions'[route'[k]].key = k
  BY <1>1, <1>3 DEF Inv, SessionsOK
<1>6. \A i \in DOMAIN sessions' :
          /\ sessions'[i].key = KeyOf[sessions'[i].maker]
          /\ client'[sessions'[i].maker].state # "none"
  BY <1>1 DEF Inv, SessionsOK
<1>7. \A k \in Key : Forgotten(k)' => Forgotten(k)
  BY <1>1, <1>3 DEF Forgotten
<1> QED BY <1>1, <1>3, <1>4, <1>5, <1>6, <1>7 DEF SessionsOK

-----------------------------------------------------------------------------
(* Ages *)

\* A datagram that a step adds: an ACK of a session that is routed to, or a
\* segment of an open connection.
New(m) ==
    /\ m.age = 0 /\ m.key \in Key /\ m.sn \in Sn
    /\ \/ m.to = "client" /\ ~Forgotten(m.key)'
       \/ /\ m.to = "server" /\ m.conn \in Conn /\ m.key = KeyOf[m.conn]
          /\ client[m.conn].state = "open" /\ client'[m.conn].state = "open"

\* What a step in which no time passes does to an open connection: it opens it, lets
\* it be, or resets how long it is quiet because of an ACK.
OpenStep(c) ==
    \/ client'[c].quiet = client[c].quiet /\ client[c].state = "open"
    \/ client'[c].quiet = client[c].quiet /\ ~Forgotten(KeyOf[c])'
    \/ /\ client'[c].quiet = 0 /\ client[c].state = "open"
       /\ \E m \in net : m.to = "client" /\ m.key = KeyOf[c]

LEMMA AgesKept ==
    ASSUME Timely, ConversationAssumption, Inv,
           \A k \in Key : Forgotten(k)' =>
               (Forgotten(k) /\ closedFor'[k] = closedFor[k]) \/ closedFor'[k] = 0,
           \A m \in net' : m \in net \/ New(m),
           \A m \in net' : m.age \in Nat,
           \A c \in Conn : client'[c].quiet \in Nat,
           \A c \in Conn : client'[c].state = "open" => OpenStep(c)
    PROVE  AgesInv'
<1> SUFFICES ASSUME NEW k \in Key, Forgotten(k)', closedFor'[k] # 0
             PROVE  /\ \A m \in net' : m.to = "client" /\ m.key = k => closedFor'[k] <= m.age
                    /\ \A c \in Conn : client'[c].state = "open" /\ KeyOf[c] = k =>
                           closedFor'[k] <= client'[c].quiet + MaxDelay
                    /\ \A m \in net' : m.to = "server" /\ m.key = k =>
                           closedFor'[k] <= Timeout + 1 + MaxDelay + m.age
  BY DEF AgesInv, Timely, ConversationAssumption
<1>1. Forgotten(k) /\ closedFor'[k] = closedFor[k]
  OBVIOUS
<1>2. /\ MaxDelay \in Nat /\ Timeout \in Nat /\ closedFor[k] \in Nat
      /\ \A c \in Conn : client[c].quiet \in Nat /\ client[c].quiet <= Timeout + 1
      /\ \A m \in net : m.age \in Nat /\ m.age <= MaxDelay
  BY DEF Inv, TimesOK, Timely, ConversationAssumption
<1>3. /\ \A m \in net : m.to = "client" /\ m.key = k => closedFor[k] <= m.age
      /\ \A c \in Conn : client[c].state = "open" /\ KeyOf[c] = k =>
             closedFor[k] <= client[c].quiet + MaxDelay
      /\ \A m \in net : m.to = "server" /\ m.key = k =>
             closedFor[k] <= Timeout + 1 + MaxDelay + m.age
  BY <1>1 DEF Inv, AgesInv
<1>4. ASSUME NEW m \in net', m.to = "client", m.key = k PROVE closedFor'[k] <= m.age
  BY <1>1, <1>3, <1>4 DEF New
<1>5. ASSUME NEW c \in Conn, client'[c].state = "open", KeyOf[c] = k
      PROVE  closedFor'[k] <= client'[c].quiet + MaxDelay
  <2>1. CASE client'[c].quiet = client[c].quiet /\ client[c].state = "open"
    BY <1>1, <1>3, <1>5, <2>1
  <2>2. CASE \E m \in net : m.to = "client" /\ m.key = KeyOf[c]
    BY <1>1, <1>2, <1>3, <1>5, <2>2
  <2> QED BY <1>5, <2>1, <2>2 DEF OpenStep
<1>6. ASSUME NEW m \in net', m.to = "server", m.key = k
      PROVE  closedFor'[k] <= Timeout + 1 + MaxDelay + m.age
  <2>1. CASE m \in net
    BY <1>1, <1>3, <1>6, <2>1
  <2>2. CASE New(m)
    <3>1. m.conn \in Conn /\ client[m.conn].state = "open" /\ KeyOf[m.conn] = k /\ m.age = 0
      BY <1>6, <2>2 DEF New
    <3>2. closedFor[k] <= client[m.conn].quiet + MaxDelay
      BY <1>3, <3>1
    <3>3. client[m.conn].quiet \in Nat /\ client[m.conn].quiet <= Timeout + 1
      BY <1>2, <3>1
    <3>4. closedFor[k] <= Timeout + 1 + MaxDelay
      BY <1>2, <3>2, <3>3
    <3> QED BY <1>1, <1>2, <3>1, <3>4
  <2> QED BY <2>1, <2>2
<1> QED BY <1>4, <1>5, <1>6

\* No time passes: what is left of TimesOK.
LEMMA TimesKept ==
    ASSUME Timely, ConversationAssumption, Inv, ClientsStay, DOMAIN client' = Conn,
           \A m \in net' : m \in net \/ New(m),
           \A c \in Conn : client'[c].state \in {"none", "open", "ended"},
           \A c \in Conn : client'[c].quiet = client[c].quiet \/ client'[c].quiet = 0,
           closedFor' \in [Key -> 0..Ttl]
    PROVE  TimesOK' /\ (\A m \in net' : m.age \in Nat) /\ (\A c \in Conn : client'[c].quiet \in Nat)
<1>1. \A c \in Conn : client'[c].quiet \in 0..(Timeout + 1)
  BY DEF Inv, TimesOK, Timely
<1>2. \A m \in net' : m.to \in {"server", "client"} /\ m.age \in 0..MaxDelay
                      /\ m.key \in Key /\ m.sn \in Sn
  BY DEF Inv, TimesOK, New, ConversationAssumption
<1>3. \A m \in net' : m.to = "server" =>
          m.conn \in Conn /\ m.key = KeyOf[m.conn] /\ client'[m.conn].state # "none"
  BY DEF Inv, TimesOK, New, ClientsStay
<1> QED BY <1>1, <1>2, <1>3 DEF TimesOK, Timely

-----------------------------------------------------------------------------
(* The steps *)

LEMMA Initially == ASSUME Timely, ConversationAssumption, Init PROVE Inv
<1>1. sessions \in Seq(SessionType) /\ DOMAIN sessions = {}
  BY DEF Init
<1>2. TimesOK
  BY DEF Init, TimesOK, Timely, ConversationAssumption
<1>3. SessionsOK /\ AgesInv
  BY <1>1 DEF Init, SessionsOK, AgesInv, Forgotten
<1> QED BY <1>2, <1>3 DEF Inv

\* Steps of a client, and the loss of a datagram.
LEMMA ClientStep ==
    ASSUME Timely, ConversationAssumption, Inv,
           \/ \E c \in Conn : Connect(c) \/ Write(c) \/ ClientEnds(c)
           \/ \E c \in Conn, sn \in Sn : Transmit(c, sn)
           \/ \E m \in net : ClientReceives(m) \/ Lose(m)
    PROVE  Inv'
<1>1. UNCHANGED <<sessions, route, closedFor>>
  BY DEF Connect, Write, ClientEnds, Transmit, ClientReceives, Lose
<1>2. \A k \in Key : Forgotten(k)' = Forgotten(k)
  BY <1>1 DEF Forgotten
<1>3. ASSUME ClientsStay, DOMAIN client' = Conn,
             \A m \in net' : m \in net \/ New(m),
             \A c \in Conn : client'[c].state \in {"none", "open", "ended"},
             \A c \in Conn : client'[c].quiet = client[c].quiet \/ client'[c].quiet = 0,
             \A c \in Conn : client'[c].state = "open" => OpenStep(c)
      PROVE  Inv'
  <2>1. TimesOK' /\ (\A m \in net' : m.age \in Nat) /\ (\A c \in Conn : client'[c].quiet \in Nat)
    BY <1>1, <1>3, TimesKept DEF Inv, TimesOK
  <2>2. SessionsOK'
    BY <1>1, <1>3, SameSessions, KeepSessions DEF Inv
  <2>3. AgesInv'
    BY <1>1, <1>2, <1>3, <2>1, AgesKept
  <2> QED BY <2>1, <2>2, <2>3 DEF Inv
<1>4. ASSUME NEW c \in Conn, Connect(c) PROVE Inv'
  <2>1. /\ net' = net /\ client[c].state = "none" /\ DOMAIN client' = Conn
        /\ client'[c] = [client[c] EXCEPT !.state = "open"]
        /\ \A d \in Conn : d # c => client'[d] = client[d]
    BY <1>4 DEF Connect, Inv, TimesOK
  <2>2. client'[c].state = "open" /\ client'[c].quiet = client[c].quiet
    BY <2>1
  <2>3. ~Forgotten(KeyOf[c])
    <3> SUFFICES ASSUME NEW i \in DOMAIN sessions, sessions[i].key = KeyOf[c] PROVE FALSE
      BY DEF Forgotten
    <3>1. sessions[i].maker \in Conn /\ KeyOf[sessions[i].maker] = KeyOf[c]
          /\ client[sessions[i].maker].state # "none"
      BY SessionMaker DEF Inv, SessionsOK
    <3> QED BY <2>1, <3>1 DEF Timely
  <2>4. KeyOf[c] \in Key
    BY DEF Key
  <2>5. \A d \in Conn : client'[d].state = "open" => OpenStep(d)
    BY <1>2, <2>1, <2>2, <2>3, <2>4 DEF OpenStep
  <2> QED BY <1>3, <2>1, <2>2, <2>5 DEF ClientsStay, Inv, TimesOK
<1>5. ASSUME NEW c \in Conn, Write(c) PROVE Inv'
  <2>1. /\ net' = net /\ DOMAIN client' = Conn
        /\ \A d \in Conn : client'[d].state = client[d].state /\ client'[d].quiet = client[d].quiet
    BY <1>5 DEF Write, Inv, TimesOK
  <2> QED BY <1>3, <2>1 DEF ClientsStay, OpenStep, Inv, TimesOK
<1>6. ASSUME NEW c \in Conn, ClientEnds(c) PROVE Inv'
  <2>1. /\ net' = net /\ DOMAIN client' = Conn /\ client'[c].state = "ended"
        /\ client'[c].quiet = client[c].quiet
        /\ \A d \in Conn : d # c => client'[d] = client[d]
    BY <1>6 DEF ClientEnds, Inv, TimesOK
  <2> QED BY <1>3, <2>1 DEF ClientsStay, OpenStep, Inv, TimesOK
<1>7. ASSUME NEW c \in Conn, NEW sn \in Sn, Transmit(c, sn) PROVE Inv'
  <2>1. client' = client /\ client[c].state = "open" /\ net' = net \cup {Push(c, sn)}
    BY <1>7 DEF Transmit, Sends
  <2>2. New(Push(c, sn))
    BY <2>1 DEF New, Push, Key
  <2> QED BY <1>3, <2>1, <2>2 DEF ClientsStay, OpenStep, Inv, TimesOK
<1>8. ASSUME NEW m \in net, ClientReceives(m) PROVE Inv'
  <2>1. m.to = "client" /\ net' \subseteq net /\ DOMAIN client' = Conn
    BY <1>8 DEF ClientReceives
  <2>2. ASSUME NEW c \in Conn
        PROVE  /\ client'[c].state = client[c].state
               /\ \/ client'[c].quiet = client[c].quiet
                  \/ client'[c].quiet = 0 /\ KeyOf[c] = m.key
    <3>1. CASE client[c].state = "open" /\ KeyOf[c] = m.key
      <4>1. PICK x : client'[c] = [client[c] EXCEPT !.acked = x, !.quiet = 0]
        BY <1>8, <3>1 DEF ClientReceives
      <4> QED BY <3>1, <4>1
    <3>2. CASE ~(client[c].state = "open" /\ KeyOf[c] = m.key)
      BY <1>8, <3>2 DEF ClientReceives
    <3> QED BY <3>1, <3>2
  <2>3. \A c \in Conn : client'[c].state = "open" => OpenStep(c)
    BY <2>1, <2>2 DEF OpenStep
  <2> QED BY <1>3, <2>1, <2>2, <2>3 DEF ClientsStay, Inv, TimesOK
<1>9. ASSUME NEW m \in net, Lose(m) PROVE Inv'
  BY <1>3, <1>9 DEF Lose, ClientsStay, OpenStep, Inv, TimesOK
<1> QED BY <1>4, <1>5, <1>6, <1>7, <1>8, <1>9

\* A step of the server without a new session keeps what it must.
LEMMA ServerKeeps ==
    ASSUME Timely, ConversationAssumption, Inv, client' = client, SessionsStay,
           \A m \in net' : m \in net \/ New(m),
           \/ UNCHANGED <<route, closedFor>>
           \/ \E k \in Key : /\ route' = [route EXCEPT ![k] = 0]
                             /\ closedFor' = [closedFor EXCEPT ![k] = 0]
    PROVE  Inv'
<1>1. ClientsStay /\ \A c \in Conn : client[c].state = "open" => OpenStep(c)
  BY DEF ClientsStay, OpenStep
<1>2. closedFor' \in [Key -> 0..Ttl]
  BY DEF Inv, TimesOK, ConversationAssumption
<1>3. TimesOK' /\ (\A m \in net' : m.age \in Nat) /\ (\A c \in Conn : client'[c].quiet \in Nat)
  BY <1>1, <1>2, TimesKept DEF Inv, TimesOK
<1>4. SessionsOK' /\ \A k \in Key : Forgotten(k)' => Forgotten(k) \/ (route[k] # 0 /\ route'[k] = 0)
  BY <1>1, KeepSessions DEF Inv
<1>5. \A k \in Key : Forgotten(k)' =>
          (Forgotten(k) /\ closedFor'[k] = closedFor[k]) \/ closedFor'[k] = 0
  <2>1. CASE UNCHANGED <<route, closedFor>>
    BY <1>4, <2>1
  <2>2. ASSUME NEW j \in Key, route' = [route EXCEPT ![j] = 0],
               closedFor' = [closedFor EXCEPT ![j] = 0]
        PROVE  \A k \in Key : k = j \/ (route'[k] = route[k] /\ closedFor'[k] = closedFor[k])
    BY <2>2
  <2>3. ASSUME NEW j \in Key, closedFor' = [closedFor EXCEPT ![j] = 0] PROVE closedFor'[j] = 0
    BY <2>3 DEF Inv, TimesOK
  <2> QED BY <1>4, <2>1, <2>2, <2>3
<1>6. AgesInv'
  BY <1>1, <1>3, <1>5, AgesKept
<1> QED BY <1>3, <1>4, <1>6 DEF Inv

LEMMA ReceiveStep ==
    ASSUME Timely, ConversationAssumption, Inv, NEW m \in net, m.to = "server",
           SessionReceives(m)
    PROVE  Inv'
<1> DEFINE s == route[m.key]
<1>1. m.conn \in Conn /\ m.key \in Key /\ m.sn \in Sn
  BY DEF Inv, TimesOK
<1>2. s \in DOMAIN sessions /\ sessions[s].key = m.key /\ route' = route
  BY <1>1 DEF SessionReceives, Inv, SessionsOK
<1>3. sessions[s] \in SessionType
  BY <1>2, SessionMaker DEF Inv
<1>4. Taken(sessions[s], m) \in SUBSET [conn : Conn, sn : Sn]
  BY <1>1, <1>3 DEF Taken, SessionType
<1> DEFINE t == [sessions[s] EXCEPT !.got = Taken(sessions[s], m), !.quiet = 0]
<1>5. t \in SessionType /\ t.key = sessions[s].key /\ t.maker = sessions[s].maker
  BY <1>3, <1>4, Input
<1>6. sessions' = [sessions EXCEPT ![s] = t]
  BY DEF SessionReceives
<1>7. SessionsStay
  <2> HIDE DEF t, s
  <2> QED BY <1>2, <1>5, <1>6, ChangedSession DEF Inv
<1>8. ~Forgotten(m.key)'
  BY <1>2 DEF SessionReceives, Forgotten
<1>9. PICK una : net' = (net \ {m}) \cup {Ack(m.key, m.sn, una)}
  BY DEF SessionReceives, Sends
<1>10. New(Ack(m.key, m.sn, una))
  BY <1>1, <1>8 DEF New, Ack
<1>11. \A n \in net' : n \in net \/ New(n)
  BY <1>9, <1>10
<1>12. client' = client /\ UNCHANGED <<route, closedFor>>
  BY DEF SessionReceives
<1> QED BY <1>7, <1>11, <1>12, ServerKeeps

LEMMA ForgetStep ==
    ASSUME Timely, ConversationAssumption, Inv, NEW m \in net, m.to = "server",
           Forget(m) \/ Skip(m)
    PROVE  Inv'
<1>1. m.key \in Key /\ client' = client /\ sessions' = sessions /\ net' \subseteq net
  BY DEF Inv, TimesOK, Forget, Skip
<1>2. SessionsStay
  BY <1>1, SameSessions DEF Inv
<1> QED BY <1>1, <1>2, ServerKeeps DEF Forget, Skip

\* A packet of a connection that had its session comes before the TTL is over.
LEMMA NewStep ==
    ASSUME Timely, ConversationAssumption, Inv, NEW m \in net, m.to = "server", NewSession(m)
    PROVE  Inv'
<1>1. /\ m.conn \in Conn /\ m.key \in Key /\ m.sn \in Sn /\ m.key = KeyOf[m.conn]
      /\ client[m.conn].state # "none" /\ m.age \in 0..MaxDelay
  BY DEF Inv, TimesOK
<1>2. ~Forgotten(m.key)
  <2> SUFFICES ASSUME Forgotten(m.key) PROVE FALSE
    OBVIOUS
  <2>1. closedFor[m.key] <= Timeout + 1 + MaxDelay + m.age
    BY <1>1 DEF Inv, AgesInv
  <2>2. closedFor[m.key] = Ttl
    BY DEF NewSession
  <2> QED BY <1>1, <2>1, <2>2 DEF Timely, ConversationAssumption
<1>3. \A i \in DOMAIN sessions : sessions[i].key # m.key
  BY <1>2 DEF Forgotten, NewSession
<1> DEFINE t == [key |-> m.key, state |-> "open", quiet |-> 0, maker |-> m.conn,
                 got |-> {[conn |-> m.conn, sn |-> m.sn]}]
<1>4. t \in SessionType /\ t.key = m.key /\ t.maker = m.conn
  BY <1>1 DEF SessionType
<1>5. /\ sessions' = Append(sessions, t) /\ route' = [route EXCEPT ![m.key] = Len(sessions) + 1]
      /\ client' = client /\ closedFor' = closedFor
  BY DEF NewSession
<1>6. SessionsOK' /\ \A k \in Key : Forgotten(k)' => Forgotten(k)
  <2> HIDE DEF t
  <2> QED BY <1>1, <1>3, <1>4, <1>5, AddSession
<1>7. ~Forgotten(m.key)'
  BY <1>2, <1>6, <1>1
<1>8. PICK una : net' = (net \ {m}) \cup {Ack(m.key, m.sn, una)}
  BY DEF NewSession, Sends
<1>9. New(Ack(m.key, m.sn, una))
  BY <1>1, <1>7 DEF New, Ack
<1>10. \A n \in net' : n \in net \/ New(n)
  BY <1>8, <1>9
<1>11. ClientsStay /\ \A c \in Conn : client[c].state = "open" => OpenStep(c)
  BY <1>5 DEF ClientsStay, OpenStep
<1>12. TimesOK' /\ (\A n \in net' : n.age \in Nat) /\ (\A c \in Conn : client'[c].quiet \in Nat)
  BY <1>5, <1>10, <1>11, TimesKept DEF Inv, TimesOK
<1>13. AgesInv'
  BY <1>5, <1>6, <1>10, <1>11, <1>12, AgesKept
<1> QED BY <1>6, <1>12, <1>13 DEF Inv

LEMMA EndStep ==
    ASSUME Timely, ConversationAssumption, Inv, NEW s \in DOMAIN sessions, SessionEnds(s)
    PROVE  Inv'
<1> DEFINE t == [sessions[s] EXCEPT !.state = "dropped"]
<1>1. sessions[s] \in SessionType
  BY SessionMaker DEF Inv
<1>2. t \in SessionType /\ t.key = sessions[s].key /\ t.maker = sessions[s].maker
  BY <1>1 DEF SessionType
<1>3. sessions' = [sessions EXCEPT ![s] = t] /\ UNCHANGED <<client, net, route, closedFor>>
  BY DEF SessionEnds
<1>4. SessionsStay
  <2> HIDE DEF t
  <2> QED BY <1>2, <1>3, ChangedSession DEF Inv
<1> QED BY <1>3, <1>4, ServerKeeps

\* Everything gets older together.
LEMMA TickStep ==
    ASSUME Timely, ConversationAssumption, Inv, Tick
    PROVE  Inv'
<1>1. /\ MaxDelay \in Nat /\ Timeout \in Nat /\ Ttl \in Nat /\ Oldest = Timeout + 1
      /\ NoTimeout # Timeout
  BY DEF ConversationAssumption, Timely, Oldest
<1>2. \A n \in net' : \E m \in net : n = [m EXCEPT !.age = @ + 1]
  BY DEF Tick
<1>3. \A n \in net' : \E m \in net :
          /\ n.to = m.to /\ n.key = m.key /\ n.conn = m.conn /\ n.sn = m.sn
          /\ n.age = m.age + 1 /\ m.age < MaxDelay /\ m.age \in Nat
  <2> SUFFICES ASSUME NEW n \in net'
               PROVE  \E m \in net :
                         /\ n.to = m.to /\ n.key = m.key /\ n.conn = m.conn /\ n.sn = m.sn
                         /\ n.age = m.age + 1 /\ m.age < MaxDelay /\ m.age \in Nat
    OBVIOUS
  <2>1. PICK m \in net : n = [m EXCEPT !.age = @ + 1]
    BY <1>2
  <2>2. /\ n.to = m.to /\ n.key = m.key /\ n.conn = m.conn /\ n.sn = m.sn
        /\ n.age = m.age + 1
    BY <2>1
  <2>3. m.age < MaxDelay /\ m.age \in Nat
    BY <1>1 DEF Tick, Inv, TimesOK
  <2> QED BY <2>2, <2>3
<1>4. ASSUME NEW c \in Conn
      PROVE  /\ client'[c].state = client[c].state
             /\ client[c].state # "open" => client'[c].quiet = client[c].quiet
             /\ client[c].state = "open" =>
                    client'[c].quiet = client[c].quiet + 1 /\ client[c].quiet <= Timeout
  <2>1. client[c].quiet \in 0..(Timeout + 1)
    BY DEF Inv, TimesOK
  <2>2. CASE client[c].state = "open"
    <3>1. client'[c] = [client[c] EXCEPT !.quiet = Older(client[c].quiet, Oldest)]
      BY <2>2 DEF Tick
    <3>2. client[c].quiet <= Timeout
      BY <1>1, <2>1, <2>2 DEF Tick, Timely, TimedOut
    <3> QED BY <1>1, <2>1, <2>2, <3>1, <3>2 DEF Older
  <2>3. CASE client[c].state # "open"
    BY <2>3 DEF Tick
  <2> QED BY <2>2, <2>3
<1>5. closedFor' \in [Key -> 0..Ttl] /\ \A k \in Key : closedFor'[k] <= closedFor[k] + 1
  BY <1>1 DEF Tick, Older, Inv, TimesOK
<1>6. TimesOK'
  <2>1. \A c \in Conn : client'[c].quiet \in 0..(Timeout + 1)
    BY <1>1, <1>4 DEF Inv, TimesOK
  <2>2. \A n \in net' : /\ n.to \in {"server", "client"} /\ n.age \in 0..MaxDelay
                        /\ n.key \in Key /\ n.sn \in Sn
    BY <1>1, <1>3 DEF Inv, TimesOK
  <2>3. \A n \in net' : n.to = "server" =>
            n.conn \in Conn /\ n.key = KeyOf[n.conn] /\ client'[n.conn].state # "none"
    <3> SUFFICES ASSUME NEW n \in net', n.to = "server"
                 PROVE  n.conn \in Conn /\ n.key = KeyOf[n.conn] /\ client'[n.conn].state # "none"
      OBVIOUS
    <3>1. PICK m \in net : n.to = m.to /\ n.key = m.key /\ n.conn = m.conn
      BY <1>3
    <3>2. m.conn \in Conn /\ m.key = KeyOf[m.conn] /\ client[m.conn].state # "none"
      BY <3>1 DEF Inv, TimesOK
    <3> QED BY <1>4, <3>1, <3>2
  <2>4. DOMAIN client' = Conn /\ \A c \in Conn : client'[c].state \in {"none", "open", "ended"}
    BY <1>4 DEF Tick, Inv, TimesOK
  <2> QED BY <1>5, <2>1, <2>2, <2>3, <2>4 DEF TimesOK
<1>7. sessions' \in Seq(SessionType) /\ SessionsStay
  <2> DEFINE t(i) == IF sessions[i].state = "open"
                     THEN [sessions[i] EXCEPT !.quiet = Older(@, Oldest)] ELSE sessions[i]
  <2>1. sessions' = [i \in DOMAIN sessions |-> t(i)]
    BY DEF Tick
  <2>2. ASSUME NEW i \in DOMAIN sessions
        PROVE  t(i) \in SessionType /\ t(i).key = sessions[i].key /\ t(i).maker = sessions[i].maker
    <3>1. sessions[i] \in SessionType
      BY SessionMaker DEF Inv
    <3>2. Older(sessions[i].quiet, Oldest) \in Int
      BY <1>1, <3>1 DEF Older, SessionType
    <3> QED BY <3>1, <3>2 DEF SessionType
  <2> HIDE DEF t
  <2>3. DOMAIN sessions = 1..Len(sessions) /\ Len(sessions) \in Nat
    BY LenProperties DEF Inv, SessionsOK
  <2>4. sessions' \in Seq(SessionType)
    BY <2>1, <2>2, <2>3, IsASeq
  <2> QED BY <2>1, <2>2, <2>4 DEF SessionsStay
<1>8. route' = route /\ ClientsStay
  BY <1>4 DEF Tick, ClientsStay
<1>9. SessionsOK' /\ \A k \in Key : Forgotten(k)' => Forgotten(k)
  BY <1>7, <1>8, KeepSessions DEF Inv
<1>10. AgesInv'
  <2> SUFFICES ASSUME NEW k \in Key, Forgotten(k)'
               PROVE  /\ \A n \in net' : n.to = "client" /\ n.key = k => closedFor'[k] <= n.age
                      /\ \A c \in Conn : client'[c].state = "open" /\ KeyOf[c] = k =>
                             closedFor'[k] <= client'[c].quiet + MaxDelay
                      /\ \A n \in net' : n.to = "server" /\ n.key = k =>
                             closedFor'[k] <= Timeout + 1 + MaxDelay + n.age
    BY DEF AgesInv
  <2>1. /\ \A m \in net : m.to = "client" /\ m.key = k => closedFor[k] <= m.age
        /\ \A c \in Conn : client[c].state = "open" /\ KeyOf[c] = k =>
               closedFor[k] <= client[c].quiet + MaxDelay
        /\ \A m \in net : m.to = "server" /\ m.key = k =>
               closedFor[k] <= Timeout + 1 + MaxDelay + m.age
    BY <1>9 DEF Inv, AgesInv
  <2>2. closedFor[k] \in Nat /\ closedFor'[k] \in Nat /\ closedFor'[k] <= closedFor[k] + 1
    BY <1>1, <1>5 DEF Inv, TimesOK
  <2>3. \A n \in net' : n.to = "client" /\ n.key = k => closedFor'[k] <= n.age
    BY <1>3, <2>1, <2>2
  <2>4. \A n \in net' : n.to = "server" /\ n.key = k =>
            closedFor'[k] <= Timeout + 1 + MaxDelay + n.age
    BY <1>1, <1>3, <2>1, <2>2
  <2>5. ASSUME NEW c \in Conn, client'[c].state = "open", KeyOf[c] = k
        PROVE  closedFor'[k] <= client'[c].quiet + MaxDelay
    <3>1. closedFor[k] <= client[c].quiet + MaxDelay /\ client'[c].quiet = client[c].quiet + 1
      BY <1>4, <2>1, <2>5
    <3>2. client[c].quiet \in Nat
      BY <1>1 DEF Inv, TimesOK
    <3> QED BY <1>1, <2>2, <3>1, <3>2
  <2> QED BY <2>3, <2>4, <2>5
<1> QED BY <1>6, <1>9, <1>10 DEF Inv

LEMMA Stutter == ASSUME Inv, UNCHANGED vars PROVE Inv'
BY DEF Inv, TimesOK, SessionsOK, AgesInv, Forgotten, vars

\* The invariant is inductive.
LEMMA InvIsKept ==
    ASSUME Timely
    PROVE  Inv /\ [Next]_vars => Inv'
<1> SUFFICES ASSUME Inv, [Next]_vars PROVE Inv'
  OBVIOUS
<1>1. CASE \/ \E c \in Conn : Connect(c) \/ Write(c) \/ ClientEnds(c)
           \/ \E c \in Conn, sn \in Sn : Transmit(c, sn)
           \/ \E m \in net : ClientReceives(m) \/ Lose(m)
  BY ConversationAssumption, <1>1, ClientStep
<1>2. ASSUME NEW m \in net, ServerReceives(m) PROVE Inv'
  BY ConversationAssumption, <1>2, ReceiveStep, ForgetStep, NewStep DEF ServerReceives
<1>3. ASSUME NEW s \in DOMAIN sessions, SessionEnds(s) PROVE Inv'
  BY ConversationAssumption, <1>3, EndStep
<1>4. CASE Tick
  BY ConversationAssumption, <1>4, TickStep
<1>5. CASE UNCHANGED vars
  BY <1>5, Stutter
<1> QED BY <1>1, <1>2, <1>3, <1>4, <1>5 DEF Next, ClientTimesOut, SessionTimesOut

\* No connection leads to two sessions if its timeout and two delays of a datagram are
\* shorter than the TTL, and it reads: the comment at listener.rs:134-135 made exact.
THEOREM NoGhostIfTimely == Timely => (Spec => []NoGhost)
<1> SUFFICES ASSUME Timely PROVE Spec => []NoGhost
  OBVIOUS
<1>0. ConversationAssumption
  BY ConversationAssumption
<1>1. Init => Inv
  BY <1>0, Initially
<1>2. Inv /\ [Next]_vars => Inv'
  BY InvIsKept
<1>3. Inv => NoGhost
  <2> SUFFICES ASSUME Inv, NEW i \in DOMAIN sessions, NEW j \in DOMAIN sessions,
                      sessions[i].maker = sessions[j].maker
               PROVE  i = j
    BY DEF NoGhost
  <2> QED BY DEF Inv, SessionsOK
<1> QED BY <1>1, <1>2, <1>3, PTL DEF Spec

-----------------------------------------------------------------------------
(* Types *)

ClientType == [state : {"none", "open", "ended"}, written : 0..MaxWrites,
               acked : SUBSET Sn, quiet : 0..Oldest]

MessageType == [to : {"server", "client"}, key : Key, conn : Conn \cup {0}, sn : Sn,
                una : 0..MaxWrites, age : 0..MaxDelay]

QuietType == [key : Key, state : {"open", "dropped"}, quiet : 0..Oldest, maker : Conn,
              got : SUBSET [conn : Conn, sn : Sn]]

\* TypeOK, with sessions as a sequence and a connection in every segment.
ClientsTyped == client \in [Conn -> ClientType]
NetTyped == net \subseteq MessageType /\ \A m \in net : m.to = "server" => m.conn \in Conn
SessionsTyped == sessions \in Seq(QuietType)
RoutesTyped == /\ route \in [Key -> Nat]
               /\ \A k \in Key : route[k] # 0 =>
                      route[k] \in DOMAIN sessions /\ sessions[route[k]].key = k
TypeInv == /\ ClientsTyped /\ NetTyped /\ SessionsTyped /\ RoutesTyped
           /\ closedFor \in [Key -> 0..Ttl]

LEMMA OldestIsNat == ASSUME ConversationAssumption PROVE Oldest \in Nat
BY DEF ConversationAssumption, Oldest

LEMMA OlderIs ==
    ASSUME NEW n \in Nat, NEW a \in 0..n
    PROVE  Older(a, n) \in 0..n
BY DEF Older

\* RcvNxt is what comes after the segments without a gap.
LEMMA RcvNxtIs ==
    ASSUME ConversationAssumption, NEW got
    PROVE  RcvNxt(got) \in 0..MaxWrites /\ \A sn \in 0..(RcvNxt(got) - 1) : \E p \in got : p.sn = sn
<1> DEFINE T == {n \in 0..MaxWrites : n < MaxWrites => ~\E p \in got : p.sn = n}
           Is(n) == /\ \A sn \in 0..(n - 1) : \E p \in got : p.sn = sn
                    /\ n < MaxWrites => ~\E p \in got : p.sn = n
<1>1. MaxWrites \in Nat
  BY DEF ConversationAssumption
<1>2. T \in SUBSET Nat /\ T # {}
  <2>1. MaxWrites \in T
    BY <1>1
  <2> QED BY <1>1, <2>1
<1>3. PICK n \in T : \A m \in T : n <= m
  <2> HIDE DEF T
  <2> QED BY <1>2, LeastNumber
<1>4. ASSUME NEW sn \in 0..(n - 1) PROVE \E p \in got : p.sn = sn
  <2>1. sn \in 0..MaxWrites /\ sn < MaxWrites /\ ~ (n <= sn)
    BY <1>1, <1>3
  <2>2. sn \notin T
    BY <1>3, <2>1
  <2> QED BY <2>1, <2>2
<1>5. n \in 0..MaxWrites /\ Is(n)
  BY <1>3, <1>4
<1> DEFINE c == CHOOSE x \in 0..MaxWrites : Is(x)
<1>6. c \in 0..MaxWrites /\ Is(c)
  <2> HIDE DEF Is
  <2> QED BY <1>5
<1>7. RcvNxt(got) = c
  BY DEF RcvNxt
<1> HIDE DEF c
<1> QED BY <1>6, <1>7

\* An ACK is a message, whatever the session has.
LEMMA AckTyped ==
    ASSUME ConversationAssumption, NEW k \in Key, NEW sn \in Sn, NEW got,
           NEW m, m = Ack(k, sn, RcvNxt(got))
    PROVE  m \in MessageType /\ m.to = "client"
<1>1. RcvNxt(got) \in 0..MaxWrites /\ 0 \in 0..MaxDelay
  BY RcvNxtIs DEF ConversationAssumption
<1> QED BY <1>1 DEF Ack, MessageType

\* A session that changes keeps its place and its key.
LEMMA TypedSession ==
    ASSUME SessionsTyped, RoutesTyped, NEW s \in DOMAIN sessions, NEW t \in QuietType,
           t.key = sessions[s].key, sessions' = [sessions EXCEPT ![s] = t],
           route' \in [Key -> Nat], \A k \in Key : route'[k] = route[k] \/ route'[k] = 0
    PROVE  SessionsTyped' /\ RoutesTyped'
<1>1. sessions' \in Seq(QuietType)
  BY ExceptSeq DEF SessionsTyped
<1>2. DOMAIN sessions' = DOMAIN sessions
      /\ \A i \in DOMAIN sessions : sessions'[i].key = sessions[i].key
  OBVIOUS
<1> QED BY <1>1, <1>2 DEF SessionsTyped, RoutesTyped

LEMMA TypedByClient ==
    ASSUME ConversationAssumption, TypeInv,
           \/ \E c \in Conn : Connect(c) \/ Write(c) \/ ClientEnds(c)
           \/ \E c \in Conn, sn \in Sn : Transmit(c, sn)
           \/ \E m \in net : ClientReceives(m) \/ Lose(m)
    PROVE  TypeInv'
<1>1. Oldest \in Nat /\ MaxWrites \in Nat
  BY OldestIsNat DEF ConversationAssumption
<1>2. ASSUME NEW c \in Conn, Connect(c) PROVE ClientsTyped'
  BY <1>2 DEF Connect, TypeInv, ClientsTyped, ClientType
<1>3. ASSUME NEW c \in Conn, ClientEnds(c) PROVE ClientsTyped'
  BY <1>3 DEF ClientEnds, TypeInv, ClientsTyped, ClientType
<1>4. ASSUME NEW c \in Conn, Write(c) PROVE ClientsTyped'
  BY <1>1, <1>4 DEF Write, TypeInv, ClientsTyped, ClientType
<1>5. ASSUME NEW c \in Conn, NEW sn \in Sn, Transmit(c, sn) PROVE NetTyped'
  <2>1. Push(c, sn) \in MessageType /\ Push(c, sn).conn = c
    BY DEF Push, MessageType, Key, ConversationAssumption
  <2>2. net' = net \cup {Push(c, sn)}
    BY <1>5 DEF Transmit, Sends
  <2> QED BY <2>1, <2>2 DEF TypeInv, NetTyped
<1>6. ASSUME NEW m \in net, ClientReceives(m) PROVE ClientsTyped'
  <2>1. ASSUME NEW c \in Conn PROVE client'[c] \in ClientType
    <3> DEFINE new == {sn \in 0..(client[c].written - 1) : sn = m.sn \/ sn < m.una}
               a == client[c].acked \cup new
    <3>1. client[c] \in ClientType
      BY DEF TypeInv, ClientsTyped
    <3>2. a \in SUBSET Sn /\ 0 \in 0..Oldest
      BY <1>1, <3>1 DEF ClientType, Sn
    <3>3. client'[c] = [client[c] EXCEPT !.acked = a, !.quiet = 0] \/ client'[c] = client[c]
      BY <1>6 DEF ClientReceives
    <3> HIDE DEF a
    <3> QED BY <3>1, <3>2, <3>3 DEF ClientType
  <2> QED BY <1>6, <2>1 DEF ClientReceives, ClientsTyped
<1>7. UNCHANGED <<sessions, route, closedFor>>
  BY DEF Connect, Write, ClientEnds, Transmit, ClientReceives, Lose
<1>8. SessionsTyped' /\ RoutesTyped' /\ closedFor' \in [Key -> 0..Ttl]
  BY <1>7 DEF TypeInv, SessionsTyped, RoutesTyped
<1>9. net' \subseteq net => NetTyped'
  BY DEF TypeInv, NetTyped
<1>10. client' = client => ClientsTyped'
  BY DEF TypeInv, ClientsTyped
<1>11. ClientsTyped'
  BY <1>2, <1>3, <1>4, <1>6, <1>10 DEF Transmit, Lose
<1>12. NetTyped'
  BY <1>5, <1>9 DEF Connect, Write, ClientEnds, ClientReceives, Lose
<1> QED BY <1>8, <1>11, <1>12 DEF TypeInv

LEMMA TypedByServer ==
    ASSUME ConversationAssumption, TypeInv, NEW m \in net, ServerReceives(m)
    PROVE  TypeInv'
<1>1. m.key \in Key /\ m.sn \in Sn /\ m.conn \in Conn
  BY DEF TypeInv, NetTyped, MessageType, ServerReceives
<1>2. 0 \in 0..Oldest /\ 0 \in 0..Ttl
  BY OldestIsNat DEF ConversationAssumption
<1>3. client' = client /\ ClientsTyped'
  BY DEF ServerReceives, SessionReceives, Forget, Skip, NewSession, TypeInv, ClientsTyped
<1>4. net' \subseteq net => NetTyped'
  BY DEF TypeInv, NetTyped
<1>5. ASSUME NEW got, net' = (net \ {m}) \cup {Ack(m.key, m.sn, RcvNxt(got))}
      PROVE  NetTyped'
  <2> DEFINE a == Ack(m.key, m.sn, RcvNxt(got))
  <2>1. a \in MessageType /\ a.to = "client"
    BY <1>1, AckTyped
  <2> HIDE DEF a
  <2> QED BY <1>5, <2>1 DEF TypeInv, NetTyped, a
<1>6. CASE SessionReceives(m)
  <2> DEFINE s == route[m.key]
             r == sessions[s]
             g == Taken(r, m)
             t == [r EXCEPT !.got = g, !.quiet = 0]
  <2>1. s \in DOMAIN sessions
    BY <1>1, <1>6 DEF SessionReceives, TypeInv, RoutesTyped
  <2>2. r \in QuietType
    BY <2>1, ElementOfSeq, LenProperties DEF TypeInv, SessionsTyped
  <2>3. g \in SUBSET [conn : Conn, sn : Sn]
    <3> HIDE DEF r
    <3> QED BY <1>1, <2>2 DEF Taken, QuietType
  <2>4. /\ sessions' = [sessions EXCEPT ![s] = t]
        /\ net' = (net \ {m}) \cup {Ack(m.key, m.sn, RcvNxt(g))}
        /\ route' = route /\ closedFor' = closedFor
    BY <1>6 DEF SessionReceives, Sends
  <2>5. t \in QuietType /\ t.key = sessions[s].key
    <3> HIDE DEF r, g
    <3>1. t \in QuietType /\ t.key = r.key
      BY <1>2, <2>2, <2>3 DEF QuietType
    <3> QED BY <3>1 DEF r
  <2>6. NetTyped'
    BY <1>5, <2>4
  <2> HIDE DEF s, t, g
  <2>7. SessionsTyped' /\ RoutesTyped'
    <3>1. route' \in [Key -> Nat] /\ \A k \in Key : route'[k] = route[k] \/ route'[k] = 0
      BY <2>4 DEF TypeInv, RoutesTyped
    <3> QED BY <2>1, <2>4, <2>5, <3>1, TypedSession DEF TypeInv
  <2> QED BY <1>3, <2>4, <2>6, <2>7 DEF TypeInv
<1>7. CASE Forget(m)
  <2>1. sessions' = sessions /\ net' \subseteq net /\ closedFor' \in [Key -> 0..Ttl]
    BY <1>1, <1>2, <1>7 DEF Forget, TypeInv
  <2>2. SessionsTyped' /\ RoutesTyped'
    BY <1>7 DEF Forget, TypeInv, SessionsTyped, RoutesTyped
  <2> QED BY <1>3, <1>4, <2>1, <2>2 DEF TypeInv
<1>8. CASE Skip(m)
  <2>1. net' \subseteq net /\ SessionsTyped' /\ RoutesTyped' /\ closedFor' \in [Key -> 0..Ttl]
    BY <1>8 DEF Skip, TypeInv, SessionsTyped, RoutesTyped
  <2> QED BY <1>3, <1>4, <2>1 DEF TypeInv
<1>9. CASE NewSession(m)
  <2> DEFINE g == {[conn |-> m.conn, sn |-> m.sn]}
             t == [key |-> m.key, state |-> "open", quiet |-> 0, maker |-> m.conn, got |-> g]
             k == Len(sessions) + 1
  <2>1. /\ sessions' = Append(sessions, t)
        /\ net' = (net \ {m}) \cup {Ack(m.key, m.sn, RcvNxt(g))}
        /\ route' = [route EXCEPT ![m.key] = k]
        /\ closedFor' = closedFor
    BY <1>9 DEF NewSession, Sends
  <2>2. t \in QuietType /\ t.key = m.key
    BY <1>1, <1>2 DEF QuietType
  <2>3. NetTyped'
    BY <1>5, <2>1
  <2> HIDE DEF t
  <2>4. /\ sessions' \in Seq(QuietType) /\ Len(sessions) \in Nat
        /\ DOMAIN sessions = 1..Len(sessions) /\ DOMAIN sessions' = 1..k /\ sessions'[k] = t
        /\ \A i \in DOMAIN sessions : sessions'[i] = sessions[i]
    BY <2>1, <2>2, AppendProperties, LenProperties DEF TypeInv, SessionsTyped
  <2>5. SessionsTyped' /\ RoutesTyped'
    <3>1. k \in Nat /\ k \in DOMAIN sessions' /\ DOMAIN sessions \subseteq DOMAIN sessions'
      BY <2>4
    <3> HIDE DEF k
    <3> QED BY <1>1, <2>1, <2>2, <2>4, <3>1 DEF TypeInv, SessionsTyped, RoutesTyped
  <2> QED BY <1>3, <2>1, <2>3, <2>5 DEF TypeInv
<1> QED BY <1>6, <1>7, <1>8, <1>9 DEF ServerReceives

LEMMA TypedByEnd ==
    ASSUME ConversationAssumption, TypeInv, NEW s \in DOMAIN sessions, SessionEnds(s)
    PROVE  TypeInv'
<1> DEFINE r == sessions[s]
           t == [r EXCEPT !.state = "dropped"]
<1>1. r \in QuietType
  BY ElementOfSeq, LenProperties DEF TypeInv, SessionsTyped
<1>2. sessions' = [sessions EXCEPT ![s] = t] /\ UNCHANGED <<client, net, route, closedFor>>
  BY DEF SessionEnds
<1>3. t \in QuietType /\ t.key = sessions[s].key
  <2> HIDE DEF r
  <2>1. t \in QuietType /\ t.key = r.key
    BY <1>1 DEF QuietType
  <2> QED BY <2>1 DEF r
<1> HIDE DEF t
<1>4. SessionsTyped' /\ RoutesTyped'
  <2>1. route' \in [Key -> Nat] /\ \A k \in Key : route'[k] = route[k] \/ route'[k] = 0
    BY <1>2 DEF TypeInv, RoutesTyped
  <2> QED BY <1>2, <1>3, <2>1, TypedSession DEF TypeInv
<1> QED BY <1>2, <1>4 DEF TypeInv, ClientsTyped, NetTyped

LEMMA TypedByTick ==
    ASSUME ConversationAssumption, TypeInv, Tick
    PROVE  TypeInv'
<1>1. Oldest \in Nat /\ Ttl \in Nat /\ MaxDelay \in Nat
  BY OldestIsNat DEF ConversationAssumption
<1>2. ClientsTyped'
  <2>1. ASSUME NEW c \in Conn PROVE client'[c] \in ClientType
    <3> DEFINE q == Older(client[c].quiet, Oldest)
    <3>1. client[c] \in ClientType
      BY DEF TypeInv, ClientsTyped
    <3>2. q \in 0..Oldest
      BY <1>1, <3>1, OlderIs DEF ClientType
    <3>3. client'[c] = [client[c] EXCEPT !.quiet = q] \/ client'[c] = client[c]
      BY DEF Tick
    <3> HIDE DEF q
    <3> QED BY <3>1, <3>2, <3>3 DEF ClientType
  <2> QED BY <2>1 DEF Tick, ClientsTyped
<1>3. NetTyped'
  <2>1. ASSUME NEW n \in net'
        PROVE  n \in MessageType /\ (n.to = "server" => n.conn \in Conn)
    <3>1. PICK m \in net : n = [m EXCEPT !.age = @ + 1] /\ m.age < MaxDelay
      BY <2>1 DEF Tick
    <3>2. m \in MessageType /\ (m.to = "server" => m.conn \in Conn)
      BY DEF TypeInv, NetTyped
    <3>3. m.age + 1 \in 0..MaxDelay
      BY <1>1, <3>1, <3>2 DEF MessageType
    <3> QED BY <3>1, <3>2, <3>3 DEF MessageType
  <2> QED BY <2>1 DEF NetTyped
<1>4. SessionsTyped' /\ DOMAIN sessions' = DOMAIN sessions
      /\ \A i \in DOMAIN sessions : sessions'[i].key = sessions[i].key
  <2>1. Len(sessions) \in Nat /\ DOMAIN sessions = 1..Len(sessions)
    BY LenProperties DEF TypeInv, SessionsTyped
  <2>2. ASSUME NEW i \in DOMAIN sessions
        PROVE  sessions'[i] \in QuietType /\ sessions'[i].key = sessions[i].key
    <3> DEFINE r == sessions[i]
               q == Older(r.quiet, Oldest)
    <3>1. r \in QuietType
      BY ElementOfSeq, LenProperties DEF TypeInv, SessionsTyped
    <3>2. q \in 0..Oldest
      BY <1>1, <3>1, OlderIs DEF QuietType
    <3>3. sessions'[i] = [r EXCEPT !.quiet = q] \/ sessions'[i] = r
      BY DEF Tick
    <3> HIDE DEF q, r
    <3>4. sessions'[i] \in QuietType /\ sessions'[i].key = r.key
      BY <3>1, <3>2, <3>3 DEF QuietType
    <3> QED BY <3>4 DEF r
  <2>3. sessions' = [i \in 1..Len(sessions) |-> sessions'[i]]
    BY <2>1 DEF Tick
  <2>4. sessions' \in Seq(QuietType)
    BY <2>1, <2>2, <2>3, FunctionIsSeq
  <2> QED BY <2>2, <2>4 DEF Tick, SessionsTyped
<1>5. RoutesTyped'
  BY <1>4 DEF Tick, TypeInv, RoutesTyped
<1>6. closedFor' \in [Key -> 0..Ttl]
  BY <1>1, OlderIs DEF Tick, TypeInv
<1> QED BY <1>2, <1>3, <1>4, <1>5, <1>6 DEF TypeInv

LEMMA TypeInvKept ==
    ASSUME ConversationAssumption
    PROVE  TypeInv /\ [Next]_vars => TypeInv'
<1> SUFFICES ASSUME TypeInv, [Next]_vars PROVE TypeInv'
  OBVIOUS
<1>1. CASE \/ \E c \in Conn : Connect(c) \/ Write(c) \/ ClientEnds(c)
           \/ \E c \in Conn, sn \in Sn : Transmit(c, sn)
           \/ \E m \in net : ClientReceives(m) \/ Lose(m)
  BY <1>1, TypedByClient
<1>2. ASSUME NEW m \in net, ServerReceives(m) PROVE TypeInv'
  BY <1>2, TypedByServer
<1>3. ASSUME NEW s \in DOMAIN sessions, SessionEnds(s) PROVE TypeInv'
  BY <1>3, TypedByEnd
<1>4. CASE Tick
  BY <1>4, TypedByTick
<1>5. CASE UNCHANGED vars
  BY <1>5 DEF vars, TypeInv, ClientsTyped, NetTyped, SessionsTyped, RoutesTyped
<1> QED BY <1>1, <1>2, <1>3, <1>4, <1>5 DEF Next, ClientTimesOut, SessionTimesOut

LEMMA TypeInvAtFirst == ASSUME ConversationAssumption, Init PROVE TypeInv
<1>1. Oldest \in Nat /\ MaxWrites \in Nat /\ Ttl \in Nat
  BY OldestIsNat DEF ConversationAssumption
<1>2. ClientsTyped
  BY <1>1 DEF Init, ClientsTyped, ClientType
<1>3. SessionsTyped /\ RoutesTyped
  BY EmptySeq DEF Init, SessionsTyped, RoutesTyped
<1>4. NetTyped /\ closedFor \in [Key -> 0..Ttl]
  BY <1>1 DEF Init, NetTyped
<1> QED BY <1>2, <1>3, <1>4 DEF TypeInv

\* Everything has its type whatever the keys and the times, also where connections
\* share a key and nothing is read; the map leads only to sessions of the key.
THEOREM ConversationTypeCorrect == Spec => []TypeOK
<1>0. ConversationAssumption
  BY ConversationAssumption
<1>1. Init => TypeInv
  BY <1>0, TypeInvAtFirst
<1>2. TypeInv /\ [Next]_vars => TypeInv'
  BY <1>0, TypeInvKept
<1>3. TypeInv => TypeOK
  <2> SUFFICES ASSUME TypeInv PROVE TypeOK
    OBVIOUS
  <2>1. \A m \in net : /\ m.to \in {"server", "client"} /\ m.key \in Key
                       /\ m.conn \in Conn \cup {0} /\ m.sn \in Sn
                       /\ m.una \in 0..MaxWrites /\ m.age \in 0..MaxDelay
    BY DEF TypeInv, NetTyped, MessageType
  <2>2. \A s \in DOMAIN sessions :
            /\ sessions[s].key \in Key /\ sessions[s].maker \in Conn
            /\ sessions[s].state \in {"open", "dropped"} /\ sessions[s].quiet \in 0..Oldest
            /\ sessions[s].got \subseteq [conn : Conn, sn : Sn]
    <3> SUFFICES ASSUME NEW s \in DOMAIN sessions, NEW r, r = sessions[s]
                 PROVE  /\ r.key \in Key /\ r.maker \in Conn
                        /\ r.state \in {"open", "dropped"} /\ r.quiet \in 0..Oldest
                        /\ r.got \subseteq [conn : Conn, sn : Sn]
      OBVIOUS
    <3>1. r \in QuietType
      BY ElementOfSeq, LenProperties DEF TypeInv, SessionsTyped
    <3> QED BY <3>1 DEF QuietType
  <2>3. \A k \in Key : route[k] \in 0..Len(sessions)
                       /\ (route[k] # 0 => sessions[route[k]].key = k)
    BY LenProperties DEF TypeInv, SessionsTyped, RoutesTyped
  <2>4. client \in [Conn -> [state : {"none", "open", "ended"}, written : 0..MaxWrites,
                             acked : SUBSET Sn, quiet : 0..Oldest]]
    BY DEF TypeInv, ClientsTyped, ClientType
  <2> QED BY <2>1, <2>2, <2>3, <2>4 DEF TypeOK, TypeInv
<1> QED BY <1>1, <1>2, <1>3, PTL DEF Spec

-----------------------------------------------------------------------------
(* What an ACK says *)

\* A session of c has its segment sn.
Has(c, sn) ==
    \E s \in DOMAIN sessions :
        sessions[s].maker = c /\ [conn |-> c, sn |-> sn] \in sessions[s].got

\* What the ACK m covers.
Covered(m) ==
    \A c \in Conn : KeyOf[c] = m.key => Has(c, m.sn) /\ \A sn \in 0..(m.una - 1) : Has(c, sn)

\* Sessions have segments of their own connection only, and ACKs cover what they have.
DeliveredInv ==
    /\ \A c \in Conn : client[c].written \in Nat
    /\ \A i \in DOMAIN sessions : sessions[i].got \subseteq [conn : {sessions[i].maker}, sn : Sn]
    /\ \A m \in net : m.to = "client" => m.una \in Nat /\ Covered(m)
    /\ \A c \in Conn : \A sn \in client[c].acked : Has(c, sn)

\* Sessions lose no segment.
SessionsGrow ==
    /\ DOMAIN sessions \subseteq DOMAIN sessions'
    /\ \A i \in DOMAIN sessions : /\ sessions'[i].maker = sessions[i].maker
                                  /\ sessions[i].got \subseteq sessions'[i].got

LEMMA HasStays ==
    ASSUME SessionsGrow
    PROVE  /\ \A c, sn : Has(c, sn) => Has(c, sn)'
           /\ \A m : Covered(m) => Covered(m)'
<1>1. ASSUME NEW c, NEW sn, Has(c, sn) PROVE Has(c, sn)'
  <2>1. PICK s \in DOMAIN sessions :
            sessions[s].maker = c /\ [conn |-> c, sn |-> sn] \in sessions[s].got
    BY <1>1 DEF Has
  <2>2. s \in DOMAIN sessions' /\ sessions'[s].maker = c
        /\ [conn |-> c, sn |-> sn] \in sessions'[s].got
    BY <2>1 DEF SessionsGrow
  <2> QED BY <2>2 DEF Has
<1>2. ASSUME NEW m, Covered(m) PROVE Covered(m)'
  BY <1>1, <1>2 DEF Covered
<1> QED BY <1>1, <1>2

\* An ACK of what a session of c has.
LEMMA AckIs ==
    ASSUME Timely, ConversationAssumption, NEW c \in Conn, NEW sn \in Sn, NEW got,
           got \subseteq [conn : {c}, sn : Sn], \E p \in got : p.sn = sn,
           NEW s \in DOMAIN sessions', sessions'[s].maker = c, sessions'[s].got = got,
           NEW m, m = Ack(KeyOf[c], sn, RcvNxt(got))
    PROVE  m.una \in Nat /\ Covered(m)'
<1>1. \A n : (\E p \in got : p.sn = n) => Has(c, n)'
  <2> SUFFICES ASSUME NEW n, NEW p \in got, p.sn = n PROVE Has(c, n)'
    OBVIOUS
  <2>1. p = [conn |-> c, sn |-> n]
    OBVIOUS
  <2> QED BY <2>1 DEF Has
<1>2. m.sn = sn /\ m.key = KeyOf[c] /\ m.una = RcvNxt(got)
  BY DEF Ack
<1>3. m.una \in Nat /\ \A n \in 0..(m.una - 1) : \E p \in got : p.sn = n
  BY <1>2, RcvNxtIs
<1>4. \A d \in Conn : KeyOf[d] = m.key => d = c
  BY <1>2 DEF Timely
<1> QED BY <1>1, <1>2, <1>3, <1>4 DEF Covered

\* What a step keeps that neither takes in a segment nor an ACK.
LEMMA DeliveredKept ==
    ASSUME DeliveredInv, SessionsGrow,
           \A c \in Conn : client'[c].written \in Nat /\ client'[c].acked = client[c].acked,
           \A i \in DOMAIN sessions' :
               sessions'[i].got \subseteq [conn : {sessions'[i].maker}, sn : Sn],
           \A n \in net' : n.to = "client" =>
               \/ n.una \in Nat /\ Covered(n)'
               \/ \E m \in net : /\ m.to = "client" /\ n.key = m.key
                                 /\ n.sn = m.sn /\ n.una = m.una
    PROVE  DeliveredInv'
<1>1. \A n \in net' : n.to = "client" => n.una \in Nat /\ Covered(n)'
  <2> SUFFICES ASSUME NEW n \in net', n.to = "client", NEW m \in net, m.to = "client",
                      n.key = m.key, n.sn = m.sn, n.una = m.una
               PROVE  n.una \in Nat /\ Covered(n)'
    OBVIOUS
  <2>1. m.una \in Nat /\ Covered(m)'
    BY HasStays DEF DeliveredInv
  <2> QED BY <2>1 DEF Covered
<1>2. \A c \in Conn : \A sn \in client'[c].acked : Has(c, sn)'
  BY HasStays DEF DeliveredInv
<1> QED BY <1>1, <1>2 DEF DeliveredInv

LEMMA SameSessionsGrow == ASSUME sessions' = sessions PROVE SessionsGrow
BY DEF SessionsGrow

LEMMA DeliveredByClient ==
    ASSUME Timely, ConversationAssumption, Inv, DeliveredInv,
           \/ \E c \in Conn : Connect(c) \/ Write(c) \/ ClientEnds(c)
           \/ \E c \in Conn, sn \in Sn : Transmit(c, sn)
           \/ \E m \in net : Lose(m)
    PROVE  DeliveredInv'
<1>1. sessions' = sessions
  BY DEF Connect, Write, ClientEnds, Transmit, Lose
<1>2. DOMAIN client = Conn /\ \A c \in Conn : client[c].written \in Nat
  BY DEF Inv, TimesOK, DeliveredInv
<1>3. \A c \in Conn : client'[c].written \in Nat /\ client'[c].acked = client[c].acked
  <2>1. ASSUME NEW c \in Conn, Connect(c)
        PROVE  \A d \in Conn : client'[d].written \in Nat /\ client'[d].acked = client[d].acked
    BY <1>2, <2>1 DEF Connect
  <2>2. ASSUME NEW c \in Conn, Write(c)
        PROVE  \A d \in Conn : client'[d].written \in Nat /\ client'[d].acked = client[d].acked
    BY <1>2, <2>2 DEF Write
  <2>3. ASSUME NEW c \in Conn, ClientEnds(c)
        PROVE  \A d \in Conn : client'[d].written \in Nat /\ client'[d].acked = client[d].acked
    BY <1>2, <2>3 DEF ClientEnds
  <2>4. CASE client' = client
    BY <1>2, <2>4
  <2> QED BY <2>1, <2>2, <2>3, <2>4 DEF Transmit, Lose
<1>4. \A n \in net' : n.to = "client" => n \in net
  <2>1. ASSUME NEW c \in Conn, NEW sn \in Sn, Transmit(c, sn), NEW n \in net', n.to = "client"
        PROVE  n \in net
    <3>1. n \in net \cup {Push(c, sn)}
      BY <2>1 DEF Transmit, Sends
    <3>2. Push(c, sn).to = "server"
      BY DEF Push
    <3> QED BY <2>1, <3>1, <3>2
  <2>2. CASE \E c \in Conn : Connect(c) \/ Write(c) \/ ClientEnds(c)
    BY <2>2 DEF Connect, Write, ClientEnds
  <2>3. CASE \E m \in net : Lose(m)
    BY <2>3 DEF Lose
  <2> QED BY <2>1, <2>2, <2>3
<1>5. \A n \in net' : n.to = "client" =>
          \E m \in net : m.to = "client" /\ n.key = m.key /\ n.sn = m.sn /\ n.una = m.una
  BY <1>4
<1>6. \A i \in DOMAIN sessions' :
          sessions'[i].got \subseteq [conn : {sessions'[i].maker}, sn : Sn]
  BY <1>1 DEF DeliveredInv
<1> QED BY <1>1, <1>3, <1>5, <1>6, SameSessionsGrow, DeliveredKept

LEMMA DeliveredByAck ==
    ASSUME Timely, ConversationAssumption, Inv, DeliveredInv, NEW m \in net, ClientReceives(m)
    PROVE  DeliveredInv'
<1>1. sessions' = sessions /\ net' \subseteq net /\ m.to = "client"
  BY DEF ClientReceives
<1>2. \A c, sn : Has(c, sn)' = Has(c, sn)
  BY <1>1 DEF Has
<1>3. \A n : Covered(n)' = Covered(n)
  BY <1>2 DEF Covered
<1>4. ASSUME NEW c \in Conn
      PROVE  client'[c].written \in Nat /\ \A sn \in client'[c].acked : Has(c, sn)
  <2>1. CASE client[c].state = "open" /\ KeyOf[c] = m.key
    <3> DEFINE new == {sn \in 0..(client[c].written - 1) : sn = m.sn \/ sn < m.una}
               a == client[c].acked \cup new
    <3>1. client'[c] = [client[c] EXCEPT !.acked = a, !.quiet = 0]
      BY <2>1 DEF ClientReceives
    <3> HIDE DEF a
    <3>2. client[c].written \in Nat /\ m.una \in Nat /\ Covered(m)
      BY <1>1 DEF DeliveredInv
    <3>3. \A sn \in new : Has(c, sn)
      <4> SUFFICES ASSUME NEW sn \in new PROVE Has(c, sn)
        OBVIOUS
      <4>1. sn \in Nat /\ (sn = m.sn \/ sn \in 0..(m.una - 1))
        BY <3>2
      <4>2. Has(c, m.sn) /\ \A k \in 0..(m.una - 1) : Has(c, k)
        BY <2>1, <3>2 DEF Covered
      <4> QED BY <4>1, <4>2
    <3>4. DOMAIN client = Conn /\ client'[c].written = client[c].written
      BY <3>1 DEF Inv, TimesOK
    <3>5. \A sn \in client[c].acked : Has(c, sn)
      BY DEF DeliveredInv
    <3>6. client'[c].acked = a \/ client'[c].acked = client[c].acked
      BY <3>1
    <3> QED BY <3>2, <3>3, <3>4, <3>5, <3>6 DEF a
  <2>2. CASE ~(client[c].state = "open" /\ KeyOf[c] = m.key)
    BY <2>2 DEF ClientReceives, DeliveredInv
  <2> QED BY <2>1, <2>2
<1> QED BY <1>1, <1>2, <1>3, <1>4 DEF DeliveredInv

LEMMA DeliveredBySession ==
    ASSUME Timely, ConversationAssumption, Inv, DeliveredInv, NEW m \in net, m.to = "server",
           SessionReceives(m)
    PROVE  DeliveredInv'
<1> DEFINE s == route[m.key]
           g == Taken(sessions[s], m)
           t == [sessions[s] EXCEPT !.got = g, !.quiet = 0]
<1>1. m.conn \in Conn /\ m.key \in Key /\ m.sn \in Sn /\ m.key = KeyOf[m.conn]
  BY DEF Inv, TimesOK
<1>2. s \in DOMAIN sessions /\ sessions[s].key = m.key
  BY <1>1 DEF SessionReceives, Inv, SessionsOK
<1>3. sessions[s] \in SessionType /\ sessions[s].maker \in Conn
  BY <1>2, SessionMaker DEF Inv
<1>4. sessions[s].maker = m.conn
  <2> DEFINE x == sessions[s].maker
  <2>1. x \in Conn /\ KeyOf[x] = KeyOf[m.conn]
    BY <1>1, <1>2, <1>3, SessionMaker DEF Inv, SessionsOK
  <2> HIDE DEF x, s
  <2>2. x = m.conn
    BY <1>1, <2>1 DEF Timely
  <2> QED BY <2>2 DEF x
<1>5. /\ sessions[s].got \subseteq g
      /\ g \subseteq [conn : {m.conn}, sn : Sn]
      /\ \E p \in g : p.sn = m.sn
  <2>1. sessions[s].got \subseteq [conn : {m.conn}, sn : Sn]
    BY <1>2, <1>4 DEF DeliveredInv
  <2>2. CASE \E p \in sessions[s].got : p.sn = m.sn
    BY <2>1, <2>2 DEF Taken
  <2>3. CASE ~\E p \in sessions[s].got : p.sn = m.sn
    <3>1. g = sessions[s].got \cup {[conn |-> m.conn, sn |-> m.sn]}
      BY <2>3 DEF Taken
    <3> DEFINE h == sessions[s].got
               e == [conn |-> m.conn, sn |-> m.sn]
    <3>2. h \subseteq [conn : {m.conn}, sn : Sn] /\ e \in [conn : {m.conn}, sn : Sn]
          /\ e.sn = m.sn
      BY <1>1, <2>1
    <3>3. g = h \cup {e}
      BY <3>1
    <3> HIDE DEF g, h, e
    <3>4. h \subseteq g /\ g \subseteq [conn : {m.conn}, sn : Sn] /\ \E p \in g : p.sn = m.sn
      BY <3>2, <3>3
    <3> QED BY <3>4 DEF h
  <2> QED BY <2>2, <2>3
<1>6. /\ sessions' = [sessions EXCEPT ![s] = t]
      /\ net' = (net \ {m}) \cup {Ack(m.key, m.sn, RcvNxt(g))}
      /\ client' = client
  BY DEF SessionReceives, Sends
<1>7. g \in SUBSET [conn : Conn, sn : Sn]
  BY <1>1, <1>5
<1>8. t.maker = m.conn /\ t.got = g
  <2> DEFINE r == sessions[s]
  <2>1. r \in SessionType /\ r.maker = m.conn
    BY <1>3, <1>4
  <2> HIDE DEF r, g
  <2> QED BY <2>1 DEF SessionType, r
<1> HIDE DEF g, t, s
<1>9. /\ DOMAIN sessions' = DOMAIN sessions
      /\ \A i \in DOMAIN sessions : sessions'[i] = IF i = s THEN t ELSE sessions[i]
  BY <1>2, <1>6
<1>10. SessionsGrow
  BY <1>4, <1>5, <1>8, <1>9 DEF SessionsGrow
<1>11. \A i \in DOMAIN sessions' :
           sessions'[i].got \subseteq [conn : {sessions'[i].maker}, sn : Sn]
  BY <1>5, <1>8, <1>9 DEF DeliveredInv
<1>12. ASSUME NEW n \in net', n.to = "client", n \notin net PROVE n.una \in Nat /\ Covered(n)'
  <2>1. n = Ack(KeyOf[m.conn], m.sn, RcvNxt(g))
    BY <1>1, <1>6, <1>12
  <2>2. s \in DOMAIN sessions' /\ sessions'[s].maker = m.conn /\ sessions'[s].got = g
    BY <1>2, <1>8, <1>9
  <2> QED BY <1>1, <1>5, <2>1, <2>2, AckIs
<1>13. \A c \in Conn : client'[c].written \in Nat /\ client'[c].acked = client[c].acked
  BY <1>6 DEF DeliveredInv
<1> QED BY <1>10, <1>11, <1>12, <1>13, DeliveredKept

LEMMA DeliveredByNew ==
    ASSUME Timely, ConversationAssumption, Inv, DeliveredInv, NEW m \in net, m.to = "server",
           NewSession(m)
    PROVE  DeliveredInv'
<1> DEFINE g == {[conn |-> m.conn, sn |-> m.sn]}
           t == [key |-> m.key, state |-> "open", quiet |-> 0, maker |-> m.conn, got |-> g]
           k == Len(sessions) + 1
<1>1. m.conn \in Conn /\ m.key \in Key /\ m.sn \in Sn /\ m.key = KeyOf[m.conn]
  BY DEF Inv, TimesOK
<1>2. /\ sessions' = Append(sessions, t)
      /\ net' = (net \ {m}) \cup {Ack(m.key, m.sn, RcvNxt(g))}
      /\ client' = client
  BY DEF NewSession, Sends
<1>3. t.maker = m.conn /\ t.got = g /\ g \subseteq [conn : {m.conn}, sn : Sn]
      /\ \E p \in g : p.sn = m.sn
  BY <1>1
<1>4. t \in SessionType
  BY <1>1 DEF SessionType
<1> HIDE DEF g, t
<1>5. /\ DOMAIN sessions = 1..Len(sessions) /\ Len(sessions) \in Nat
      /\ DOMAIN sessions' = 1..k /\ sessions'[k] = t
      /\ \A i \in DOMAIN sessions : sessions'[i] = sessions[i]
  BY <1>2, <1>4, AppendProperties, LenProperties DEF Inv, SessionsOK
<1>6. SessionsGrow
  BY <1>5 DEF SessionsGrow
<1>7. \A i \in DOMAIN sessions' :
          sessions'[i].got \subseteq [conn : {sessions'[i].maker}, sn : Sn]
  BY <1>3, <1>5 DEF DeliveredInv
<1>8. ASSUME NEW n \in net', n.to = "client", n \notin net PROVE n.una \in Nat /\ Covered(n)'
  <2>1. n = Ack(KeyOf[m.conn], m.sn, RcvNxt(g))
    BY <1>1, <1>2, <1>8
  <2>2. k \in DOMAIN sessions' /\ sessions'[k].maker = m.conn /\ sessions'[k].got = g
    BY <1>3, <1>5
  <2> HIDE DEF k
  <2> QED BY <1>1, <1>3, <2>1, <2>2, AckIs
<1>9. \A c \in Conn : client'[c].written \in Nat /\ client'[c].acked = client[c].acked
  BY <1>2 DEF DeliveredInv
<1> QED BY <1>6, <1>7, <1>8, <1>9, DeliveredKept

\* Steps that change no engine: the map, the end of a session, and time.
LEMMA DeliveredByOthers ==
    ASSUME Timely, ConversationAssumption, Inv, TypeInv, DeliveredInv,
           \/ \E m \in net : Forget(m) \/ Skip(m)
           \/ \E s \in DOMAIN sessions : SessionEnds(s)
           \/ Tick
    PROVE  DeliveredInv'
<1>1. /\ DOMAIN sessions' = DOMAIN sessions
      /\ \A i \in DOMAIN sessions :
             sessions'[i].maker = sessions[i].maker /\ sessions'[i].got = sessions[i].got
  <2>1. \A i \in DOMAIN sessions : sessions[i] \in SessionType
    BY SessionMaker DEF Inv
  <2>2. CASE \E m \in net : Forget(m) \/ Skip(m)
    BY <2>2 DEF Forget, Skip
  <2>3. ASSUME NEW s \in DOMAIN sessions, SessionEnds(s)
        PROVE  /\ DOMAIN sessions' = DOMAIN sessions
               /\ \A i \in DOMAIN sessions :
                      sessions'[i].maker = sessions[i].maker /\ sessions'[i].got = sessions[i].got
    BY <2>1, <2>3 DEF SessionEnds, SessionType
  <2>4. CASE Tick
    <3>1. DOMAIN sessions' = DOMAIN sessions
      BY <2>4 DEF Tick
    <3>2. \A i \in DOMAIN sessions : \E q :
              sessions'[i] = [sessions[i] EXCEPT !.quiet = q] \/ sessions'[i] = sessions[i]
      BY <2>4 DEF Tick
    <3> QED BY <2>1, <3>1, <3>2 DEF SessionType
  <2> QED BY <2>2, <2>3, <2>4
<1>2. SessionsGrow
  BY <1>1 DEF SessionsGrow
<1>3. \A i \in DOMAIN sessions' :
          sessions'[i].got \subseteq [conn : {sessions'[i].maker}, sn : Sn]
  BY <1>1 DEF DeliveredInv
<1>4. \A c \in Conn : client'[c].written \in Nat /\ client'[c].acked = client[c].acked
  <2>1. CASE client' = client
    BY <2>1 DEF DeliveredInv
  <2>2. CASE Tick
    <3> SUFFICES ASSUME NEW c \in Conn
                 PROVE  client'[c].written \in Nat /\ client'[c].acked = client[c].acked
      OBVIOUS
    <3>1. client'[c] = client[c] \/ \E q : client'[c] = [client[c] EXCEPT !.quiet = q]
      BY <2>2 DEF Tick
    <3>2. client[c] \in ClientType
      BY DEF TypeInv, ClientsTyped
    <3>3. client'[c].written = client[c].written /\ client'[c].acked = client[c].acked
      BY <3>1, <3>2 DEF ClientType
    <3> QED BY <3>3 DEF DeliveredInv
  <2> QED BY <2>1, <2>2 DEF Forget, Skip, SessionEnds
<1>5. ASSUME NEW n \in net', n.to = "client"
      PROVE  \E m \in net : m.to = "client" /\ n.key = m.key /\ n.sn = m.sn /\ n.una = m.una
  <2>1. CASE n \in net
    BY <1>5, <2>1
  <2>2. CASE Tick
    <3>1. PICK m \in net : n = [m EXCEPT !.age = @ + 1]
      BY <1>5, <2>2 DEF Tick
    <3>2. n.to = m.to /\ n.key = m.key /\ n.sn = m.sn /\ n.una = m.una
      BY <3>1
    <3> QED BY <1>5, <3>2
  <2>3. CASE ~Tick
    BY <1>5, <2>1, <2>3 DEF Forget, Skip, SessionEnds
  <2> QED BY <2>2, <2>3
<1> QED BY <1>2, <1>3, <1>4, <1>5, DeliveredKept

LEMMA Makers ==
    ASSUME Inv, NEW i \in DOMAIN sessions, NEW j \in DOMAIN sessions,
           sessions[i].maker = sessions[j].maker
    PROVE  i = j
BY DEF Inv, SessionsOK

\* An ACK that a connection takes comes from its only session, which has what the ACK
\* covers: under the conditions of NoGhostIfTimely, whatever is lost or late.
THEOREM AckedIsDeliveredIfTimely == Timely => (Spec => []AckedIsDelivered)
<1> SUFFICES ASSUME Timely PROVE Spec => []AckedIsDelivered
  OBVIOUS
<1>0. ConversationAssumption
  BY ConversationAssumption
<1>1. Init => Inv /\ TypeInv /\ DeliveredInv
  <2>1. Init => DeliveredInv
    BY DEF Init, DeliveredInv
  <2> QED BY <1>0, <2>1, Initially, TypeInvAtFirst
<1>2. Inv /\ TypeInv /\ DeliveredInv /\ [Next]_vars => DeliveredInv'
  <2> SUFFICES ASSUME Inv, TypeInv, DeliveredInv, [Next]_vars PROVE DeliveredInv'
    OBVIOUS
  <2>1. CASE \/ \E c \in Conn : Connect(c) \/ Write(c) \/ ClientEnds(c)
             \/ \E c \in Conn, sn \in Sn : Transmit(c, sn)
             \/ \E m \in net : Lose(m)
    BY <1>0, <2>1, DeliveredByClient
  <2>2. ASSUME NEW m \in net, ClientReceives(m) PROVE DeliveredInv'
    BY <1>0, <2>2, DeliveredByAck
  <2>3. ASSUME NEW m \in net, ServerReceives(m) PROVE DeliveredInv'
    BY <1>0, <2>3, DeliveredBySession, DeliveredByNew, DeliveredByOthers DEF ServerReceives
  <2>4. ASSUME NEW s \in DOMAIN sessions, SessionEnds(s) PROVE DeliveredInv'
    BY <1>0, <2>4, DeliveredByOthers
  <2>5. CASE Tick
    BY <1>0, <2>5, DeliveredByOthers
  <2>6. CASE UNCHANGED vars
    BY <2>6 DEF vars, DeliveredInv, Covered, Has
  <2> QED BY <2>1, <2>2, <2>3, <2>4, <2>5, <2>6 DEF Next, ClientTimesOut, SessionTimesOut
<1>3. Inv /\ TypeInv /\ [Next]_vars => Inv' /\ TypeInv'
  BY <1>0, InvIsKept, TypeInvKept
<1>4. Inv /\ DeliveredInv => AckedIsDelivered
  <2> SUFFICES ASSUME Inv, DeliveredInv, NEW c \in Conn, NEW n \in 1..MaxWrites,
                      0..(n - 1) \subseteq client[c].acked
               PROVE  \E s \in DOMAIN sessions :
                          \A sn \in 0..(n - 1) : [conn |-> c, sn |-> sn] \in sessions[s].got
    BY DEF AckedIsDelivered
  <2>1. \A sn \in 0..(n - 1) : Has(c, sn)
    BY DEF DeliveredInv
  <2>2. 0 \in 0..(n - 1)
    OBVIOUS
  <2>3. PICK s \in DOMAIN sessions : sessions[s].maker = c
    BY <2>1, <2>2 DEF Has
  <2>4. \A sn \in 0..(n - 1) : [conn |-> c, sn |-> sn] \in sessions[s].got
    BY <2>1, <2>3, Makers DEF Has
  <2> QED BY <2>4
<1> QED BY <1>1, <1>2, <1>3, <1>4, PTL DEF Spec
=============================================================================
