----------------------------- MODULE MCServices -----------------------------
(* Small instances of the components around the match service.  They share no    *)
(* state: a behaviour runs one of Parts, the others stay as they start.         *)
EXTENDS Gate, Enforcement, Relay, Wallet, Heartbeats, Sockets, Deploy, Queue, RoomWrites, TLC

CONSTANTS Parts, d1, d2, v1, v2, r1, r2, home, c1, c2, p1, p2, p3,
          k1, k2, k3, k4, k5, office, t1, t2, f1, f2

VARIABLE part

QueueParts == {"servers", "filters", "losses"}

servicesVars ==
  <<part, gateVars, enforcementVars, relayVars, walletVars, heartVars, socketVars, deployVars,
    queueVars, writesVars>>

ServicesInit ==
  /\ part \in Parts
  /\ GateInit /\ EnforcementInit /\ RelayInit /\ WalletInit /\ HeartbeatsInit
  /\ SocketsInit /\ DeployInit /\ QueueInit /\ WritesInit

OthersStay ==
  /\ UNCHANGED part
  /\ IF part = "gate" THEN TRUE ELSE UNCHANGED gateVars
  /\ IF part = "enforcement" THEN TRUE ELSE UNCHANGED enforcementVars
  /\ IF part = "relay" THEN TRUE ELSE UNCHANGED relayVars
  /\ IF part = "wallet" THEN TRUE ELSE UNCHANGED walletVars
  /\ IF part = "heartbeats" THEN TRUE ELSE UNCHANGED heartVars
  /\ IF part = "sockets" THEN TRUE ELSE UNCHANGED socketVars
  /\ IF part = "deploy" THEN TRUE ELSE UNCHANGED deployVars
  /\ IF part \in QueueParts THEN TRUE ELSE UNCHANGED queueVars
  /\ IF part = "writes" THEN TRUE ELSE UNCHANGED writesVars

GateMoves == part = "gate" /\ GateNext /\ OthersStay
RelayMoves == part = "relay" /\ RelayNext /\ OthersStay
WalletMoves == part = "wallet" /\ WalletNext /\ OthersStay
HeartbeatsMoves == part = "heartbeats" /\ HeartbeatsNext /\ OthersStay
SocketsMoves == part = "sockets" /\ SocketsNext /\ OthersStay
DeployMoves == part = "deploy" /\ DeployNext /\ OthersStay
WritesMoves == part = "writes" /\ WritesNext /\ OthersStay

\* A year passes where one reviewer at most has asked: a second one, and the sweep, are
\* too many states.
EnforcementMoves ==
  /\ part = "enforcement" /\ EnforcementNext /\ OthersStay
  /\ overdue' => \E c \in Reviewer : calls'[c].at = "new"

\* Two servers match, of which the first to act is r1; or sessions change their filters;
\* or two of them wait and marks are lost.  All at once are too many states.
ServersMatch ==
  /\ part = "servers" /\ QueueNext /\ OthersStay
  /\ losses' = 0 /\ store'.filters = store.filters
  /\ joins = 0 => memory'[r2] = memory[r2]
FiltersChange ==
  /\ part = "filters" /\ QueueNext /\ OthersStay
  /\ losses' = 0 /\ memory'[r2] = memory[r2]
MarksAreLost ==
  /\ part = "losses" /\ QueueNext /\ OthersStay
  /\ store'.filters = store.filters /\ memory'[r2] = memory[r2]
  /\ joins' < MaxJoins

ServicesNext ==
  \/ GateMoves \/ EnforcementMoves \/ RelayMoves \/ WalletMoves \/ HeartbeatsMoves
  \/ SocketsMoves \/ DeployMoves \/ WritesMoves
  \/ ServersMatch \/ FiltersChange \/ MarksAreLost

ServicesSpec == ServicesInit /\ [][ServicesNext]_servicesVars
WritesSpec == ServicesSpec /\ WritesFairness

\* Two devices behind one network and one browser, each with its own replica.
SamePrint == d1 :> home @@ d2 :> home
VisitsHost == r1 :> v1 @@ r2 :> v2
SameAddress == d1 :> home @@ d2 :> home

\* Reviewers differ in nothing.
Symmetry == Permutations(Reviewer)

\* Three connections of one address, two of another in the same network.
Connections == {k1, k2, k3, k4, k5}
ConnectionsSession == k1 :> d1 @@ k2 :> d1 @@ k3 :> d2 @@ k4 :> d1 @@ k5 :> d2
ConnectionsIp == [k \in Connections |-> IF k \in {k1, k2, k3} THEN home ELSE office]
IpsNetwork == [ip \in {home, office} |-> home]

\* Two tabs of d1, and one of d2.
TabsOwner == k1 :> d1 @@ k2 :> d1 @@ k3 :> d2
PairOwner == k1 :> d1 @@ k3 :> d2

\* d1 asks on both replicas, d2 on one.
AskingPairs == {<<v1, d1>>, <<v2, d1>>, <<v1, d2>>}

\* The first two share nothing; the third shares its language with one and its
\* topic with the other.
Three ==
  p1 :> [gender |-> "female", language |-> "en", topics |-> {"games"}] @@
  p2 :> [gender |-> "male", language |-> "hi", topics |-> {"music"}] @@
  p3 :> [gender |-> "male", language |-> "en-IN", topics |-> {"music"}]

Subtags == [l \in {"en", "en-IN", "hi"} |-> IF l = "hi" THEN "hi" ELSE "en"]

NoFilter == [gender |-> "all", language |-> "any"]
Picky == {NoFilter, [gender |-> "male", language |-> "hi"]}
=============================================================================
