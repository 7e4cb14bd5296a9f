-------------------------- MODULE MCKcpConversation --------------------------
(* Instances of KcpConversation for TLC, in units of six seconds. *)
EXTENDS KcpConversation

Presets == INSTANCE KcpConfig

CONSTANT Connections

Units(timeout) == IF timeout = Presets!None THEN NoTimeout ELSE timeout \div 6000

MCConn == 1..Connections

FastTimeout == Units(Presets!SessionFast.timeout)
NormalTimeout == Units(Presets!SessionNormal.timeout)
DefaultTimeout == Units(Presets!SessionDefault.timeout)

\* connect binds another port and draws another conv every time.
FreshKeys == [c \in Conn |-> c]

\* connect_with_transport may be given the same socket and conv again.
SameKey == [c \in Conn |-> 1]
=============================================================================
