------------------------------- MODULE Sockets -------------------------------
(***************************************************************************)
(* Admission of connections to one replica (backend/src/realtime/socket.ts, *)
(* session/handshake.ts, shed): how many may be open, counted where.        *)
(*                                                                         *)
(* An upgrade is refused while the process sheds load or an address or its  *)
(* network holds too many connections.  An admitted one sends CONNECT; the  *)
(* session gate awaits a store write before the sockets of its session are  *)
(* counted, and the connection may close meanwhile.                         *)
(*                                                                         *)
(* Rate limits are left out: they only refuse, and a refused upgrade leaves *)
(* nothing behind.  What is inside a session's socket is Match's.           *)
(***************************************************************************)
EXTENDS Naturals, FiniteSets

CONSTANTS
  Conn,            \* connections, reused once they are closed
  Session,         \* device ids of session tokens
  SessionOf,       \* [Conn -> Session]
  Ip,              \* subscribers: an IPv4 address or an IPv6 /64
  IpOf,            \* [Conn -> Ip]
  Network,
  NetworkOf,       \* [Ip -> Network]
  MaxTotal, MaxPerIp, MaxPerNetwork, MaxPerSession,
  OverSamples, ClearSamples

ASSUME SocketsAssumption ==
  /\ IsFiniteSet(Conn)
  /\ SessionOf \in [Conn -> Session] /\ IpOf \in [Conn -> Ip]
  /\ NetworkOf \in [Ip -> Network]
  /\ {MaxTotal, MaxPerIp, MaxPerNetwork, MaxPerSession} \subseteq Nat
  /\ {OverSamples, ClearSamples} \subseteq Nat \ {0}

VARIABLES
  at,           \* where each connection is
  perIp, perNetwork,   \* ConnectionGate: open connections
  perSession,   \* attachHandlers: sockets of each session
  onClose,      \* the connections whose close gives a place in perSession back
  load          \* LoadMonitor: overloaded, and the samples in a row that speak against it

socketVars == <<at, perIp, perNetwork, perSession, onClose, load>>

SocketsTypeOK ==
  /\ at \in [Conn -> {"away", "open", "asking", "refused", "connected", "gone"}]
  /\ perIp \in [Ip -> Nat] /\ perNetwork \in [Network -> Nat]
  /\ perSession \in [Session -> Nat] /\ onClose \subseteq Conn
  /\ load \in [over : BOOLEAN, streak : Nat]

\* The engine's clients (clientsCount).  Who left while the gate awaited is "gone".
Open == {c \in Conn : at[c] \notin {"away", "gone"}}
OpenFrom(a) == {c \in Open : IpOf[c] = a}
OpenIn(n) == {c \in Open : NetworkOf[IpOf[c]] = n}
ConnectedAs(s) == {c \in Conn : SessionOf[c] = s /\ at[c] = "connected"}

OneLess(n) == IF n <= 1 THEN 0 ELSE n - 1

------------------------------------------------------------------------------
(* The upgrade (createSocketServer, Shedder, ConnectionGate).                *)

admitSocket == ~load.over /\ Cardinality(Open) < MaxTotal
gateAdmits(c) ==
  /\ perIp[IpOf[c]] < MaxPerIp
  /\ perNetwork[NetworkOf[IpOf[c]]] < MaxPerNetwork

upgrade(c) ==
  /\ at[c] = "away" /\ admitSocket /\ gateAdmits(c)
  /\ at' = [at EXCEPT ![c] = "open"]
  /\ perIp' = [perIp EXCEPT ![IpOf[c]] = @ + 1]
  /\ perNetwork' = [perNetwork EXCEPT ![NetworkOf[IpOf[c]]] = @ + 1]
  /\ UNCHANGED <<perSession, onClose, load>>

\* LoadMonitor.tick: a sample that counts, or one that does not, as the state asks.
sample(counts) ==
  /\ load' = IF ~counts THEN [load EXCEPT !.streak = 0]
             ELSE IF load.streak + 1 < (IF load.over THEN ClearSamples ELSE OverSamples)
                  THEN [load EXCEPT !.streak = @ + 1]
                  ELSE [over |-> ~load.over, streak |-> 0]
  /\ UNCHANGED <<at, perIp, perNetwork, perSession, onClose>>

------------------------------------------------------------------------------
(* CONNECT (sessionHandshake, the middleware of attachHandlers).            *)

\* The token and the country are checked at once; then the gate awaits bindIp.
connectPacket(c, verified) ==
  /\ at[c] = "open"
  /\ at' = [at EXCEPT ![c] = IF verified THEN "asking" ELSE "refused"]
  /\ UNCHANGED <<perIp, perNetwork, perSession, onClose, load>>

\* bindIp returned, or failed: the sockets of the session are counted.
\* Mutant.
countAnyway(c) ==
  /\ at[c] \in {"asking", "gone"}
  /\ LET s == SessionOf[c]
     IN  \/ /\ perSession[s] >= MaxPerSession
            /\ at' = [at EXCEPT ![c] = IF @ = "gone" THEN "away" ELSE "refused"]
            /\ UNCHANGED <<perSession, onClose>>
         \/ /\ perSession[s] < MaxPerSession
            /\ at' = [at EXCEPT ![c] = IF @ = "gone" THEN "away" ELSE "connected"]
            /\ perSession' = [perSession EXCEPT ![s] = @ + 1]
            /\ onClose' = onClose \cup ({c} \cap Open)
  /\ UNCHANGED <<perIp, perNetwork, load>>
count(c) ==
  /\ \/ /\ at[c] = "gone"        \* readyState is no longer "open"
        /\ at' = [at EXCEPT ![c] = "away"]
        /\ UNCHANGED <<perSession, onClose>>
     \/ /\ at[c] = "asking" /\ perSession[SessionOf[c]] >= MaxPerSession
        /\ at' = [at EXCEPT ![c] = "refused"]
        /\ UNCHANGED <<perSession, onClose>>
     \/ /\ at[c] = "asking" /\ perSession[SessionOf[c]] < MaxPerSession
        /\ at' = [at EXCEPT ![c] = "connected"]
        /\ perSession' = [perSession EXCEPT ![SessionOf[c]] = @ + 1]
        /\ onClose' = onClose \cup {c}
  /\ UNCHANGED <<perIp, perNetwork, load>>

\* A connection closes: the client goes, CONNECT or the hello are late, the token
\* expires, or the refusal is out.
close(c) ==
  /\ c \in Open
  /\ at' = [at EXCEPT ![c] = IF @ = "asking" THEN "gone" ELSE "away"]
  /\ perIp' = [perIp EXCEPT ![IpOf[c]] = OneLess(@)]
  /\ perNetwork' = [perNetwork EXCEPT ![NetworkOf[IpOf[c]]] = OneLess(@)]
  /\ perSession' = [perSession EXCEPT ![SessionOf[c]] = IF c \in onClose THEN OneLess(@) ELSE @]
  /\ onClose' = onClose \ {c}
  /\ UNCHANGED load

------------------------------------------------------------------------------
SocketsInit ==
  /\ at = [c \in Conn |-> "away"]
  /\ perIp = [a \in Ip |-> 0] /\ perNetwork = [n \in Network |-> 0]
  /\ perSession = [s \in Session |-> 0] /\ onClose = {}
  /\ load = [over |-> FALSE, streak |-> 0]

SocketsNext ==
  \/ \E c \in Conn : \/ upgrade(c) \/ count(c) \/ close(c)
                     \/ \E verified \in BOOLEAN : connectPacket(c, verified)
  \/ \E counts \in BOOLEAN : sample(counts)

SocketsSpec == SocketsInit /\ [][SocketsNext]_socketVars

------------------------------------------------------------------------------
(* Properties.                                                              *)

\* However closes race the handshake, every counter is exactly the number of
\* connections it stands for, so no place is lost for good, and none is above its
\* limit (ConnectionGate, the middleware of attachHandlers).
PlacesAreExact ==
  /\ \A a \in Ip : perIp[a] = Cardinality(OpenFrom(a)) /\ perIp[a] <= MaxPerIp
  /\ \A n \in Network : perNetwork[n] = Cardinality(OpenIn(n)) /\ perNetwork[n] <= MaxPerNetwork
  /\ \A s \in Session : perSession[s] = Cardinality(ConnectedAs(s)) /\ perSession[s] <= MaxPerSession
  /\ Cardinality(Open) <= MaxTotal
=============================================================================
